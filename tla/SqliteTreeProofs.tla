-------------------------- MODULE SqliteTreeProofs --------------------------
(***************************************************************************)
(* What holds of every call of write_database, whatever the tables, the     *)
(* records and the page size: no page is asked to hold more than it has,    *)
(* and every page of the file is used once.                                *)
(***************************************************************************)
EXTENDS SqliteTree, FiniteSetTheorems, WellFoundedInduction, TLAPS

-----------------------------------------------------------------------------
(* Every non-empty set of numbers has a least one: what the inductions     *)
(* below rest on.                                                          *)
Below == {p \in Nat \X Nat : p[1] < p[2]}

(* The numbers are well founded.                                           *)
LEMMA BelowWellFounded == IsWellFoundedOn(Below, Nat)
<1>1. Below = OpToRel(<, Nat)
  BY DEF Below, OpToRel
<1> QED BY <1>1, NatLessThanWellFounded

(* Every non-empty set of numbers has a least one.                         *)
LEMMA LeastNumber ==
  ASSUME NEW T, T \subseteq Nat, T # {}
  PROVE  \E x \in T : \A y \in T : x <= y
<1>1. PICK x \in T : \A y \in T : ~ (<<y, x>> \in Below)
  BY WFMin, BelowWellFounded
<1>2. \A y \in T : <<y, x>> \in Nat \X Nat
  BY <1>1
<1>3. \A y \in T : ~ (y < x)
  BY <1>1, <1>2 DEF Below
<1> QED BY <1>1, <1>3

-----------------------------------------------------------------------------
(* Sums                                                                    *)

(* f holds the sums from start on of the first none, one, ... n of w.      *)
Sums(f, start, w, n) ==
  f = [k \in 0..n |-> IF k = 0 THEN start ELSE f[k - 1] + w[k]]

(* The running sums of w from start exist, for any number of weights.      *)
LEMMA SumsExist ==
  ASSUME NEW m \in Nat, NEW start, NEW w
  PROVE  \E f : Sums(f, start, w, m)
<1> DEFINE Undefined == {n \in Nat : ~ \E f : Sums(f, start, w, n)}
<1>1. SUFFICES ASSUME Undefined # {} PROVE FALSE
  OBVIOUS
<1>2. PICK x \in Undefined : \A y \in Undefined : x <= y
  BY <1>1, LeastNumber
<1>3. x # 0
  <2>1. Sums([n \in 0..0 |-> start], start, w, 0)
    BY DEF Sums
  <2> QED BY <2>1
<1>4. PICK g : Sums(g, start, w, x - 1)
  <2>1. x - 1 \in Nat /\ ~ (x <= x - 1)
    BY <1>3
  <2>2. x - 1 \notin Undefined
    BY <1>2, <2>1
  <2> QED BY <2>1, <2>2
<1> DEFINE f == [n \in 0..x |-> IF n = x THEN g[x - 1] + w[x] ELSE g[n]]
<1>5. Sums(f, start, w, x)
  <2>1. x \in Nat /\ x - 1 \in 0..(x - 1) /\ x # 0
    BY <1>3
  <2>2. /\ \A n \in 0..(x - 1) : n \in 0..x /\ n # x /\ f[n] = g[n]
        /\ f[x] = f[x - 1] + w[x]
        /\ f = [n \in 0..x |-> f[n]]
    BY <2>1
  <2> HIDE DEF f
  <2>3. ASSUME NEW n \in 0..(x - 1)
        PROVE  f[n] = IF n = 0 THEN start ELSE f[n - 1] + w[n]
    <3>1. g[n] = IF n = 0 THEN start ELSE g[n - 1] + w[n]
      BY <1>4 DEF Sums
    <3>2. n # 0 => n - 1 \in 0..(x - 1)
      BY <2>1
    <3> QED BY <2>2, <3>1, <3>2
  <2>4. \A n \in 0..x : n = x \/ n \in 0..(x - 1)
    BY <2>1
  <2>5. \A n \in 0..x : f[n] = IF n = 0 THEN start ELSE f[n - 1] + w[n]
    BY <2>1, <2>2, <2>3, <2>4
  <2> QED BY <2>2, <2>5 DEF Sums
<1> QED BY <1>2, <1>5

(* Sums of numbers are numbers, and sums of the same numbers are the same. *)
LEMMA SumsAreNumbers ==
  ASSUME NEW m \in Nat, NEW start \in Int, NEW w, NEW f, Sums(f, start, w, m),
         \A k \in 1..m : w[k] \in Int
  PROVE  \A k \in 0..m : f[k] \in Int
<1> DEFINE Wrong == {k \in 0..m : f[k] \notin Int}
<1>1. SUFFICES ASSUME Wrong # {} PROVE FALSE
  OBVIOUS
<1>2. PICK x \in Wrong : \A y \in Wrong : x <= y
  <2>1. Wrong \in SUBSET Nat
    OBVIOUS
  <2> QED BY <1>1, <2>1, LeastNumber
<1>3. f[x] = IF x = 0 THEN start ELSE f[x - 1] + w[x]
  BY DEF Sums
<1>4. x # 0
  BY <1>3
<1>5. x - 1 \in 0..m /\ ~ (x <= x - 1)
  BY <1>4
<1>6. x - 1 \notin Wrong
  BY <1>2, <1>5
<1>7. x \in 1..m
  BY <1>4
<1> QED BY <1>3, <1>4, <1>5, <1>6, <1>7

(* Running sums of weights that agree up to n agree up to n.               *)
LEMMA SumsAgree ==
  ASSUME NEW m \in Nat, NEW n \in Nat, m <= n, NEW start, NEW v, NEW w, NEW f, NEW g,
         Sums(f, start, v, m), Sums(g, start, w, n),
         \A k \in 1..m : v[k] = w[k]
  PROVE  \A k \in 0..m : f[k] = g[k]
<1> DEFINE Wrong == {k \in 0..m : f[k] # g[k]}
<1>1. SUFFICES ASSUME Wrong # {} PROVE FALSE
  OBVIOUS
<1>2. PICK x \in Wrong : \A y \in Wrong : x <= y
  <2>1. Wrong \in SUBSET Nat
    OBVIOUS
  <2> QED BY <1>1, <2>1, LeastNumber
<1>3. /\ f[x] = IF x = 0 THEN start ELSE f[x - 1] + v[x]
      /\ g[x] = IF x = 0 THEN start ELSE g[x - 1] + w[x]
  <2>1. x \in 0..m /\ x \in 0..n
    OBVIOUS
  <2>2. f[x] = IF x = 0 THEN start ELSE f[x - 1] + v[x]
    BY <2>1 DEF Sums
  <2>3. g[x] = IF x = 0 THEN start ELSE g[x - 1] + w[x]
    BY <2>1 DEF Sums
  <2> QED BY <2>2, <2>3
<1>4. x # 0
  BY <1>3
<1>5. x - 1 \in 0..m /\ ~ (x <= x - 1) /\ x \in 1..m
  BY <1>4
<1>6. x - 1 \notin Wrong
  BY <1>2, <1>5
<1> QED BY <1>3, <1>4, <1>5, <1>6

(* The sum of n numbers, and of n + 1.                                     *)
LEMMA TotalIsSum ==
  ASSUME NEW w, Len(w) \in Nat
  PROVE  \E f : Sums(f, 0, w, Len(w)) /\ Total(w) = f[Len(w)]
<1> DEFINE sum == CHOOSE f : f = [k \in 0..Len(w) |-> IF k = 0 THEN 0 ELSE f[k - 1] + w[k]]
<1>1. Sums(sum, 0, w, Len(w))
  <2>1. \E f : Sums(f, 0, w, Len(w))
    BY SumsExist
  <2> QED BY <2>1 DEF Sums
<1>2. Total(w) = sum[Len(w)]
  BY DEF Total
<1> HIDE DEF sum
<1> QED BY <1>1, <1>2

(* Nothing weighs nothing.                                                 *)
LEMMA TotalOfNone ==
  ASSUME NEW w, Len(w) = 0
  PROVE  Total(w) = 0
<1>1. PICK f : Sums(f, 0, w, 0) /\ Total(w) = f[0]
  BY TotalIsSum
<1> QED BY <1>1 DEF Sums

(* A total of numbers is a number.                                         *)
LEMMA TotalOfNumbers ==
  ASSUME NEW w, Len(w) \in Nat, \A k \in 1..Len(w) : w[k] \in Int
  PROVE  Total(w) \in Int
<1>1. PICK f : Sums(f, 0, w, Len(w)) /\ Total(w) = f[Len(w)]
  BY TotalIsSum
<1> QED BY <1>1, SumsAreNumbers

(* One item more adds its weight to the total.                             *)
LEMMA TotalStep ==
  ASSUME NEW n \in Nat, NEW v, NEW w, Len(v) = n, Len(w) = n + 1,
         \A k \in 1..n : v[k] \in Int /\ w[k] = v[k]
  PROVE  Total(v) \in Int /\ Total(w) = Total(v) + w[n + 1]
<1>1. PICK f : Sums(f, 0, v, n) /\ Total(v) = f[n]
  BY TotalIsSum
<1>2. PICK g : Sums(g, 0, w, n + 1) /\ Total(w) = g[n + 1]
  BY TotalIsSum
<1>3. \A k \in 0..n : f[k] \in Int
  BY <1>1, SumsAreNumbers
<1>4. \A k \in 0..n : f[k] = g[k]
  <2>1. n <= n + 1 /\ n + 1 \in Nat /\ \A k \in 1..n : v[k] = w[k]
    OBVIOUS
  <2> QED BY <1>1, <1>2, <2>1, SumsAgree
<1>5. g[n + 1] = g[n] + w[n + 1]
  BY <1>2 DEF Sums
<1> QED BY <1>1, <1>2, <1>3, <1>4, <1>5

-----------------------------------------------------------------------------
(* Sizes                                                                   *)

(* A remainder lies below the divisor.                                     *)
LEMMA Remainder ==
  ASSUME NEW a \in Int, NEW b \in Nat, b > 0
  PROVE  a % b \in 0..(b - 1)
OBVIOUS

(* A quotient of naturals is a natural.                                    *)
LEMMA Quotient ==
  ASSUME NEW a \in Nat, NEW b \in Nat, b > 0
  PROVE  a \div b \in Nat
OBVIOUS

(* What a cell may hold of its record, in a table and in an index, is at   *)
(* least the minimum it keeps.                                             *)
LEMMA Limits ==
  /\ MinLocal \in Nat /\ IndexMaxLocal \in Nat /\ TableMaxLocal \in Nat
  /\ MinLocal <= IndexMaxLocal /\ MinLocal <= TableMaxLocal
  /\ IndexMaxLocal + 19 <= PageSize - 12
  /\ OverflowSize \in Nat /\ OverflowSize > 0
BY PageAssumption DEF MinLocal, IndexMaxLocal, TableMaxLocal, OverflowSize

(* The share of a record that stays in its cell: a number within the       *)
(* limit.                                                                  *)
LEMMA LocalShare ==
  ASSUME NEW total \in Nat, NEW max \in Nat, MinLocal <= max
  PROVE  /\ LocalPayload(total, max) \in 0..max
         /\ LocalPayload(total, max) <= total \/ total > max
<1> DEFINE r == (total - MinLocal) % OverflowSize
<1>1. r \in 0..(OverflowSize - 1)
  BY Limits, Remainder
<1> HIDE DEF r
<1>2. LocalPayload(total, max) =
        IF total <= max THEN total ELSE IF MinLocal + r <= max THEN MinLocal + r ELSE MinLocal
  BY DEF LocalPayload, r
<1> QED BY <1>1, <1>2, Limits

(* A varint takes one to nine bytes.                                       *)
LEMMA VarintLength ==
  ASSUME NEW v \in Int
  PROVE  VarintLen(v) \in 1..9
<1>1. \A u : Groups(u) \in 1..4
  BY DEF Groups
<1> QED BY <1>1 DEF VarintLen

(* What a cell of a table or an index, and a child of an interior page,    *)
(* cost.                                                                   *)
LEMMA Sizes ==
  /\ \A row : row.len \in Nat =>
       /\ IndexCellSize(row) \in Nat /\ 6 + IndexCellSize(row) <= PageSize - 12
       /\ row.key \in Int => TableCellSize(row) \in Nat
  /\ \A child : child.key \in Int => ChildCost(child) \in 7..15
<1>1. ASSUME NEW row, row.len \in Nat
      PROVE  /\ IndexCellSize(row) \in Nat /\ 6 + IndexCellSize(row) <= PageSize - 12
             /\ row.key \in Int => TableCellSize(row) \in Nat
  <2>1. VarintLen(row.len) \in 1..9 /\ (row.key \in Int => VarintLen(row.key) \in 1..9)
    BY <1>1, VarintLength
  <2>2. /\ LocalPayload(row.len, IndexMaxLocal) \in 0..IndexMaxLocal
        /\ LocalPayload(row.len, TableMaxLocal) \in 0..TableMaxLocal
    BY <1>1, LocalShare, Limits
  <2>3. IndexCellSize(row) \in Nat /\ 6 + IndexCellSize(row) <= PageSize - 12
    BY <1>1, <2>1, <2>2, Limits, PageAssumption DEF IndexCellSize
  <2>4. row.key \in Int => TableCellSize(row) \in Nat
    BY <1>1, <2>1, <2>2, Limits DEF TableCellSize
  <2> QED BY <2>3, <2>4
<1>2. ASSUME NEW child, child.key \in Int
      PROVE  ChildCost(child) \in 7..15
  BY <1>2, VarintLength DEF ChildCost
<1> QED BY <1>1, <1>2

(* A record has no less than no overflow pages.                            *)
LEMMA SpillIsNatural ==
  ASSUME NEW total \in Nat, NEW max \in Nat, MinLocal <= max
  PROVE  Spill(total, max) \in Nat
<1> DEFINE local == LocalPayload(total, max)
<1>1. local \in 0..max /\ (local <= total \/ total > max)
  BY LocalShare
<1> HIDE DEF local
<1>2. total - local + OverflowSize - 1 \in Nat
  BY <1>1, Limits
<1>3. (total - local + OverflowSize - 1) \div OverflowSize \in Nat
  BY <1>2, Limits, Quotient
<1> QED BY <1>3 DEF Spill, local

-----------------------------------------------------------------------------
(* What is built                                                           *)

Record == [key : Int, len : Nat]
Object == [kind : {"table", "index", "schema"}, rows : Seq(Record), ddl : Nat]

(* A sequence over a set is one over a larger set.                         *)
LEMMA Elements ==
  ASSUME NEW A, NEW B, A \subseteq B, NEW s \in Seq(A)
  PROVE  /\ Len(s) \in Nat /\ DOMAIN s = 1..Len(s)
         /\ \A i \in DOMAIN s : s[i] \in A /\ s[i] \in B
         /\ s \in Seq(B)
<1>1. Len(s) \in Nat /\ s = [i \in 1..Len(s) |-> s[i]] /\ \A i \in 1..Len(s) : s[i] \in A
  OBVIOUS
<1>2. \A i \in 1..Len(s) : s[i] \in B
  BY <1>1
<1>3. [i \in 1..Len(s) |-> s[i]] \in Seq(B)
  BY <1>1, <1>2
<1> QED BY <1>1, <1>2, <1>3

(* f has what the first one, two, ... of these sequences make end to end.  *)
Joined(f, seqs) ==
  f = [i \in 1..Len(seqs) |-> IF i = 1 THEN seqs[i] ELSE f[i - 1] \o seqs[i]]

(* Sequences laid end to end: the last of the steps, which exist.          *)
LEMMA FlattenSteps ==
  ASSUME NEW seqs, Len(seqs) \in Nat, Len(seqs) # 0
  PROVE  \E f : Joined(f, seqs) /\ FlattenSeq(seqs) = f[Len(seqs)]
<1> DEFINE n == Len(seqs)
           Flat(f, m) == f = [i \in 1..m |-> IF i = 1 THEN seqs[i] ELSE f[i - 1] \o seqs[i]]
           flatten == CHOOSE f : f = [i \in 1..n |-> IF i = 1 THEN seqs[i] ELSE f[i - 1] \o seqs[i]]
<1>1. n \in Nat /\ FlattenSeq(seqs) = flatten[n]
  BY DEF FlattenSeq
<1> HIDE DEF n, flatten
<1>2. \A m \in Nat : \E f : Flat(f, m)
  <2> DEFINE Undefined == {m \in Nat : ~ \E f : Flat(f, m)}
  <2>1. SUFFICES ASSUME Undefined # {} PROVE FALSE
    OBVIOUS
  <2>2. PICK x \in Undefined : \A y \in Undefined : x <= y
    BY <2>1, LeastNumber
  <2>3. x # 0
    <3>1. Flat([i \in 1..0 |-> 0], 0)
      OBVIOUS
    <3> QED BY <3>1
  <2>4. x - 1 \in Nat /\ ~ (x <= x - 1)
    BY <2>3
  <2>5. x - 1 \notin Undefined
    BY <2>2, <2>4
  <2>6. PICK g : Flat(g, x - 1)
    BY <2>4, <2>5
  <2> DEFINE h == [i \in 1..x |-> IF i = x THEN IF i = 1 THEN seqs[i] ELSE g[i - 1] \o seqs[i]
                                  ELSE g[i]]
  <2>7. h = [i \in 1..x |-> h[i]]
    OBVIOUS
  <2>8. ASSUME NEW i \in 1..x
        PROVE  h[i] = IF i = 1 THEN seqs[i] ELSE h[i - 1] \o seqs[i]
    <3>1. i # 1 => i - 1 \in 1..x /\ i - 1 # x /\ h[i - 1] = g[i - 1]
      OBVIOUS
    <3>2. i # x => i \in 1..(x - 1)
      OBVIOUS
    <3>3. i # x => g[i] = IF i = 1 THEN seqs[i] ELSE g[i - 1] \o seqs[i]
      BY <2>6, <3>2
    <3> QED BY <3>1, <3>3
  <2> HIDE DEF h
  <2>9. Flat(h, x)
    BY <2>7, <2>8
  <2> QED BY <2>2, <2>9
<1>3. Flat(flatten, n)
  BY <1>1, <1>2 DEF flatten
<1> QED BY <1>1, <1>3 DEF Joined, n

(* Sequences over a set, laid end to end, are a sequence over it.          *)
LEMMA FlattenedInSeq ==
  ASSUME NEW S, NEW seqs \in Seq(Seq(S))
  PROVE  FlattenSeq(seqs) \in Seq(S)
<1> DEFINE n == Len(seqs)
<1>1. CASE n = 0
  BY <1>1 DEF FlattenSeq
<1>2. CASE n # 0
  <2>1. n \in Nat /\ n >= 1 /\ \A i \in 1..n : seqs[i] \in Seq(S)
    BY <1>2
  <2>2. PICK f : Joined(f, seqs) /\ FlattenSeq(seqs) = f[n]
    BY <1>2, FlattenSteps
  <2>3. \A i \in 1..n : f[i] = IF i = 1 THEN seqs[i] ELSE f[i - 1] \o seqs[i]
    BY <2>2 DEF Joined
  <2> HIDE DEF n
  <2>4. \A i \in 1..n : f[i] \in Seq(S)
    <3> DEFINE Wrong == {i \in 1..n : f[i] \notin Seq(S)}
    <3>1. SUFFICES ASSUME Wrong # {} PROVE FALSE
      OBVIOUS
    <3>2. Wrong \subseteq Nat
      BY <2>1
    <3>3. PICK x \in Wrong : \A y \in Wrong : x <= y
      BY <3>1, <3>2, LeastNumber
    <3>4. x \in 1..n /\ f[x] \notin Seq(S)
      OBVIOUS
    <3>5. x # 1
      BY <2>1, <2>3, <3>4
    <3>6. x - 1 \in 1..n /\ ~ (x <= x - 1)
      BY <2>1, <3>4, <3>5
    <3>7. x - 1 \notin Wrong
      BY <3>3, <3>6
    <3>8. f[x - 1] \in Seq(S) /\ seqs[x] \in Seq(S)
      BY <2>1, <3>4, <3>6, <3>7
    <3>9. f[x - 1] \o seqs[x] \in Seq(S)
      BY <3>8
    <3> QED BY <2>3, <3>4, <3>5, <3>9
  <2> QED BY <2>1, <2>2, <2>4
<1> QED BY <1>1, <1>2

(* The rows of sqlite_sequence are ordered records.                        *)
LEMMA SequenceRowsTyped ==
  ASSUME NEW tables, Len(tables) \in Nat, DOMAIN tables = 1..Len(tables)
  PROVE  SequenceRows(tables) \in Seq(Record)
<1> DEFINE marked == {i \in DOMAIN tables : tables[i].mark # None /\ tables[i].mark > 0}
<1>1. IsFiniteSet(1..Len(tables))
  BY FS_Interval
<1>2. IsFiniteSet(marked)
  <2>1. marked \in SUBSET (1..Len(tables))
    OBVIOUS
  <2> QED BY <1>1, <2>1, FS_Subset
<1>3. Cardinality(marked) \in Nat
  BY <1>2, FS_CardinalityType
<1>4. SequenceRows(tables) = [i \in 1..Cardinality(marked) |-> Row(i, ShortRecord)]
  BY DEF SequenceRows
<1> HIDE DEF marked
<1>5. \A i \in 1..Cardinality(marked) : Row(i, ShortRecord) \in Record
  BY <1>3, DatabaseAssumption DEF Row, Record
<1> QED BY <1>3, <1>4, <1>5

(* What write_database is asked to build are objects.                      *)
LEMMA ObjectsTyped ==
  ASSUME NEW db \in Databases
  PROVE  ObjectsOf(db) \in Seq(Object)
<1> DEFINE tables == db.tables
           First(i) == tables[i].mark # None /\ \A j \in 1..(i - 1) : tables[j].mark = None
           Parts(i) ==
             <<[kind |-> "table", rows |-> tables[i].rows, ddl |-> tables[i].ddl]>>
               \o [j \in DOMAIN tables[i].indexes |->
                     [kind |-> "index", rows |-> tables[i].indexes[j], ddl |-> ShortRecord]]
               \o (IF First(i)
                   THEN <<[kind |-> "table", rows |-> SequenceRows(tables), ddl |-> ShortRecord]>>
                   ELSE <<>>)
           parts == [i \in DOMAIN tables |-> Parts(i)]
<1>1. ShortRecord \in Nat /\ IsDatabase(db)
  BY DatabaseAssumption
<1>2. OrderedRows \subseteq Seq(Record)
  BY DEF OrderedRows, Record
<1>3. /\ Len(tables) \in Nat /\ DOMAIN tables = 1..Len(tables)
      /\ \A i \in DOMAIN tables :
           /\ tables[i].rows \in OrderedRows /\ tables[i].ddl \in Nat
           /\ tables[i].indexes \in Seq(OrderedRows)
  <2> DEFINE T == [rows : OrderedRows, indexes : Seq(OrderedRows), mark : Nat \cup {None}, ddl : Nat]
  <2>1. tables \in Seq(T)
    BY <1>1 DEF IsDatabase
  <2>2. \A t \in T : t.rows \in OrderedRows /\ t.ddl \in Nat /\ t.indexes \in Seq(OrderedRows)
    OBVIOUS
  <2> HIDE DEF T, tables
  <2>3. /\ Len(tables) \in Nat /\ DOMAIN tables = 1..Len(tables)
        /\ \A i \in DOMAIN tables : tables[i] \in T
    BY <2>1, Elements
  <2> QED BY <2>2, <2>3
<1>4. db.extra \in Seq(Object)
  <2> DEFINE Extra == [kind : {"index", "schema"}, rows : OrderedRows, ddl : Nat]
  <2>1. Extra \subseteq Object
    BY <1>2 DEF Object
  <2>2. db.extra \in Seq(Extra)
    BY <1>1 DEF IsDatabase
  <2> HIDE DEF Extra
  <2> QED BY <2>1, <2>2, Elements
<1>5. ASSUME NEW i \in DOMAIN tables
      PROVE  Parts(i) \in Seq(Object)
  <2> DEFINE own == [j \in DOMAIN tables[i].indexes |->
                       [kind |-> "index", rows |-> tables[i].indexes[j], ddl |-> ShortRecord]]
             marks == IF First(i)
                      THEN <<[kind |-> "table", rows |-> SequenceRows(tables), ddl |-> ShortRecord]>>
                      ELSE <<>>
             self == [kind |-> "table", rows |-> tables[i].rows, ddl |-> tables[i].ddl]
  <2>1. self \in Object
    BY <1>2, <1>3 DEF Object
  <2>2. own \in Seq(Object)
    <3>1. /\ Len(tables[i].indexes) \in Nat /\ DOMAIN tables[i].indexes = 1..Len(tables[i].indexes)
          /\ \A j \in DOMAIN tables[i].indexes : tables[i].indexes[j] \in Seq(Record)
      BY <1>2, <1>3
    <3>2. \A j \in DOMAIN tables[i].indexes :
            [kind |-> "index", rows |-> tables[i].indexes[j], ddl |-> ShortRecord] \in Object
      BY <1>1, <3>1 DEF Object
    <3> QED BY <3>1, <3>2
  <2>3. marks \in Seq(Object)
    <3>1. SequenceRows(tables) \in Seq(Record)
      BY <1>3, SequenceRowsTyped
    <3>2. [kind |-> "table", rows |-> SequenceRows(tables), ddl |-> ShortRecord] \in Object
      BY <1>1, <3>1 DEF Object
    <3> QED BY <3>2
  <2> HIDE DEF self, own, marks
  <2>4. <<self>> \o own \o marks \in Seq(Object)
    BY <2>1, <2>2, <2>3
  <2> QED BY <2>4 DEF self, own, marks
<1>6. ObjectsOf(db) = FlattenSeq(parts) \o db.extra
  BY DEF ObjectsOf
<1> HIDE DEF Parts
<1>7. parts \in Seq(Seq(Object))
  BY <1>3, <1>5
<1>8. FlattenSeq(parts) \in Seq(Object)
  BY <1>7, FlattenedInSeq
<1> HIDE DEF parts
<1> QED BY <1>4, <1>6, <1>8

-----------------------------------------------------------------------------
(* Cells and their overflow pages                                          *)

MasterRow == [key : Int, len : Nat, root : Nat]
AnyRow == Record \cup MasterRow
Cell == [row : AnyRow, local : Nat, first : Nat]

IsOverflow(page) == page.kind = "overflow"

(* Where the chains of these rows start, and where the last one ends.      *)
Spills(rows, max) == [k \in 1..Len(rows) |-> Spill(rows[k].len, max)]

(* Every row, sqlite_master's too, has a key and a length.                 *)
LEMMA RowsMeasured ==
  ASSUME NEW row \in AnyRow
  PROVE  row.key \in Int /\ row.len \in Nat
BY DEF AnyRow, Record, MasterRow

(* The row whose chain has page p.                                         *)
ChainOf(free, n, p) == CHOOSE k \in 1..n : free[k - 1] <= p /\ p < free[k]

(* The cells of rows, one for each, and the pages of their chains, which   *)
(* take the numbers from start on; free has where the next chain starts.   *)
CellsAre(rows, max, start, free) ==
  LET made == Cells(rows, max, start)
      n == Len(rows)
  IN  /\ Sums(free, start, Spills(rows, max), n)
      /\ \A k \in 0..n : free[k] \in Nat /\ free[k] >= start
      /\ \A k \in 1..n : free[k] = free[k - 1] + Spill(rows[k].len, max)
      /\ made.next = free[n]
      /\ made.cells = [k \in 1..n |->
           [row   |-> rows[k],
            local |-> LocalPayload(rows[k].len, max),
            first |-> IF Spill(rows[k].len, max) = 0 THEN 0 ELSE free[k - 1]]]
      /\ made.cells \in Seq(Cell)
      /\ DOMAIN made.pages = start..(made.next - 1)
      /\ \A p \in DOMAIN made.pages :
           /\ IsOverflow(made.pages[p])
           /\ made.pages[p].next = IF p + 1 < free[ChainOf(free, n, p)] THEN p + 1 ELSE 0

(* Page p of the chain of row k.                                           *)
ChainPage(rows, cells, free, k, p) ==
  LET from == cells[k].local + (p - free[k - 1]) * OverflowSize
      rest == rows[k].len - from
  IN  [kind |-> "overflow", row |-> rows[k],
       next |-> IF p + 1 < free[k] THEN p + 1 ELSE 0,
       from |-> from,
       to   |-> from + IF rest < OverflowSize THEN rest ELSE OverflowSize]

ChainsAre(rows, max, start, free) ==
  LET made == Cells(rows, max, start)
  IN  \A p \in DOMAIN made.pages :
        made.pages[p] = ChainPage(rows, made.cells, free, ChainOf(free, Len(rows), p), p)

(* What leaf_cell and write_overflow make of any rows.                     *)
LEMMA CellsMade ==
  ASSUME NEW rows \in Seq(AnyRow), NEW max \in Nat, MinLocal <= max, NEW start \in Nat
  PROVE  \E free : CellsAre(rows, max, start, free) /\ ChainsAre(rows, max, start, free)
<1> DEFINE n == Len(rows)
           w == Spills(rows, max)
           free == CHOOSE f : f = [k \in 0..n |->
                     IF k = 0 THEN start ELSE f[k - 1] + Spill(rows[k].len, max)]
           cells == [k \in DOMAIN rows |->
                      [row   |-> rows[k],
                       local |-> LocalPayload(rows[k].len, max),
                       first |-> IF Spill(rows[k].len, max) = 0 THEN 0 ELSE free[k - 1]]]
           chain(p) == CHOOSE k \in DOMAIN rows : free[k - 1] <= p /\ p < free[k]
           from(p) == cells[chain(p)].local + (p - free[chain(p) - 1]) * OverflowSize
           rest(p) == rows[chain(p)].len - from(p)
           overflow(p) ==
             [kind |-> "overflow", row |-> rows[chain(p)],
              next |-> IF p + 1 < free[chain(p)] THEN p + 1 ELSE 0,
              from |-> from(p),
              to   |-> from(p) + IF rest(p) < OverflowSize THEN rest(p) ELSE OverflowSize]
           made == Cells(rows, max, start)
<1>1. made = [cells |-> cells, next |-> free[n],
              pages |-> [p \in start..(free[n] - 1) |-> overflow(p)]]
  BY DEF Cells
<1>2. /\ n \in Nat /\ DOMAIN rows = 1..n
      /\ \A k \in 1..n : rows[k] \in AnyRow /\ rows[k].len \in Nat
  BY RowsMeasured
<1>3. \A k \in 1..n : w[k] = Spill(rows[k].len, max) /\ w[k] \in Nat
  BY <1>2, SpillIsNatural DEF Spills
<1>4. Sums(free, start, w, n)
  <2>1. PICK f : Sums(f, start, w, n)
    BY <1>2, SumsExist
  <2>2. \A g : Sums(g, start, w, n) <=>
                 g = [k \in 0..n |-> IF k = 0 THEN start ELSE g[k - 1] + Spill(rows[k].len, max)]
    <3>1. \A k \in 0..n : k # 0 => k \in 1..n
      OBVIOUS
    <3>2. ASSUME NEW g
          PROVE  [k \in 0..n |-> IF k = 0 THEN start ELSE g[k - 1] + w[k]]
                   = [k \in 0..n |-> IF k = 0 THEN start ELSE g[k - 1] + Spill(rows[k].len, max)]
      <4> HIDE DEF n, w
      <4> QED BY <1>3, <3>1
    <3> QED BY <3>2 DEF Sums
  <2> QED BY <2>1, <2>2
<1> HIDE DEF free, w
<1>5. \A k \in 0..n : free[k] \in Int
  BY <1>2, <1>3, <1>4, SumsAreNumbers
<1>6. \A k \in 1..n : free[k] = free[k - 1] + Spill(rows[k].len, max)
  BY <1>2, <1>3, <1>4 DEF Sums
<1>7. \A k \in 0..n : free[k] \in Nat /\ free[k] >= start
  <2> DEFINE Wrong == {k \in 0..n : ~ (free[k] \in Nat /\ free[k] >= start)}
  <2>1. SUFFICES ASSUME Wrong # {} PROVE FALSE
    OBVIOUS
  <2>2. Wrong \subseteq Nat
    BY <1>2
  <2>3. PICK x \in Wrong : \A y \in Wrong : x <= y
    BY <2>1, <2>2, LeastNumber
  <2>4. x # 0
    BY <1>2, <1>4 DEF Sums
  <2>5. x - 1 \in 0..n /\ ~ (x <= x - 1) /\ x \in 1..n
    BY <1>2, <2>4
  <2>6. x - 1 \notin Wrong
    BY <2>3, <2>5
  <2>7. free[x] = free[x - 1] + w[x] /\ w[x] \in Nat
    BY <1>3, <1>6, <2>5
  <2>8. free[x - 1] \in Nat /\ free[x - 1] >= start
    BY <2>5, <2>6
  <2>9. free[x] \in Nat /\ free[x] >= start
    BY <2>7, <2>8
  <2> QED BY <2>9
<1>8. /\ cells = [k \in 1..n |->
                  [row   |-> rows[k],
                   local |-> LocalPayload(rows[k].len, max),
                   first |-> IF Spill(rows[k].len, max) = 0 THEN 0 ELSE free[k - 1]]]
      /\ cells \in Seq(Cell)
  <2>1. ASSUME NEW k \in 1..n
        PROVE  [row   |-> rows[k],
                local |-> LocalPayload(rows[k].len, max),
                first |-> IF Spill(rows[k].len, max) = 0 THEN 0 ELSE free[k - 1]] \in Cell
    <3>1. free[k - 1] \in Nat
      BY <1>2, <1>7
    <3>2. LocalPayload(rows[k].len, max) \in Nat
      BY <1>2, LocalShare
    <3> QED BY <1>2, <3>1, <3>2 DEF Cell
  <2>2. cells = [k \in 1..n |->
                  [row   |-> rows[k],
                   local |-> LocalPayload(rows[k].len, max),
                   first |-> IF Spill(rows[k].len, max) = 0 THEN 0 ELSE free[k - 1]]]
    BY <1>2
  <2> QED BY <1>2, <2>1, <2>2
<1>9. made.next = free[n] /\ made.cells = cells /\ DOMAIN made.pages = start..(free[n] - 1)
  BY <1>1
<1>10. ASSUME NEW p \in DOMAIN made.pages
       PROVE  /\ IsOverflow(made.pages[p])
              /\ made.pages[p].next = IF p + 1 < free[chain(p)] THEN p + 1 ELSE 0
              /\ made.pages[p] = ChainPage(rows, cells, free, chain(p), p)
  <2>1. made.pages[p] = overflow(p)
    <3>1. made.pages = [q \in start..(free[n] - 1) |-> overflow(q)]
      BY <1>1
    <3> HIDE DEF overflow, made
    <3> QED BY <1>9, <3>1
  <2>2. overflow(p) = ChainPage(rows, cells, free, chain(p), p)
    BY DEF ChainPage
  <2>3. IsOverflow(overflow(p)) /\ overflow(p).next = IF p + 1 < free[chain(p)] THEN p + 1 ELSE 0
    BY DEF IsOverflow
  <2> HIDE DEF overflow, made, chain, cells
  <2> QED BY <2>1, <2>2, <2>3
<1>11. \A p : chain(p) = ChainOf(free, n, p)
  BY <1>2 DEF ChainOf
<1> HIDE DEF cells, chain, made, n
<1>12. /\ Sums(free, start, w, n)
       /\ \A k \in 0..n : free[k] \in Nat /\ free[k] >= start
       /\ \A k \in 1..n : free[k] = free[k - 1] + Spill(rows[k].len, max)
  BY <1>4, <1>6, <1>7
<1>13. \A p \in DOMAIN made.pages :
         /\ IsOverflow(made.pages[p])
         /\ made.pages[p].next = IF p + 1 < free[ChainOf(free, n, p)] THEN p + 1 ELSE 0
  BY <1>10, <1>11
<1>14. CellsAre(rows, max, start, free)
  BY <1>8, <1>9, <1>12, <1>13 DEF made, w, n, CellsAre
<1>15. \A p \in DOMAIN made.pages :
         made.pages[p] = ChainPage(rows, made.cells, free, ChainOf(free, n, p), p)
  BY <1>9, <1>10, <1>11
<1>16. ChainsAre(rows, max, start, free)
  BY <1>15 DEF made, n, ChainsAre
<1> QED BY <1>14, <1>16

OnChain(free, n, p, k) == k \in 1..n /\ free[k - 1] <= p /\ p < free[k]

(* The chains follow one another: every page of theirs is on one of them.  *)
LEMMA ChainsApart ==
  ASSUME NEW rows \in Seq(AnyRow), NEW max \in Nat, MinLocal <= max, NEW start \in Nat,
         NEW free, CellsAre(rows, max, start, free)
  PROVE  LET n == Len(rows)
             D == DOMAIN Cells(rows, max, start).pages
         IN  /\ D = start..(free[n] - 1)
             /\ \A k, j \in 0..n : k <= j => free[k] <= free[j]
             /\ \A p \in D : \E k : OnChain(free, n, p, k)
             /\ \A p \in D : \A k, j : OnChain(free, n, p, k) /\ OnChain(free, n, p, j) => k = j
<1> DEFINE n == Len(rows)
           D == DOMAIN Cells(rows, max, start).pages
           step(k) == Spill(rows[k].len, max)
           In(p, k) == OnChain(free, n, p, k)
<1>1. /\ Sums(free, start, Spills(rows, max), n)
      /\ \A k \in 0..n : free[k] \in Nat /\ free[k] >= start
      /\ \A k \in 1..n : free[k] = free[k - 1] + step(k)
      /\ D = start..(free[n] - 1)
  BY DEF CellsAre
<1>2. n \in Nat /\ \A k \in 1..n : step(k) \in Nat
  <2>1. n \in Nat /\ \A k \in 1..n : rows[k] \in AnyRow
    OBVIOUS
  <2>2. \A k \in 1..n : rows[k].len \in Nat
    BY <2>1, RowsMeasured
  <2> QED BY <2>1, <2>2, SpillIsNatural
<1>3. free[0] = start
  BY <1>1, <1>2 DEF Sums
<1>4. D = start..(free[n] - 1)
  BY <1>1
<1> HIDE DEF step, n, D
<1>5. \A k, j \in 0..n : k <= j => free[k] <= free[j]
  <2> SUFFICES ASSUME NEW k \in 0..n PROVE \A j \in 0..n : k <= j => free[k] <= free[j]
    OBVIOUS
  <2> DEFINE Wrong == {j \in 0..n : k <= j /\ ~ (free[k] <= free[j])}
  <2>1. SUFFICES ASSUME Wrong # {} PROVE FALSE
    OBVIOUS
  <2>2. Wrong \subseteq Nat
    BY <1>2
  <2>3. PICK x \in Wrong : \A y \in Wrong : x <= y
    BY <2>1, <2>2, LeastNumber
  <2>4. x # k
    BY <1>1
  <2>5. x - 1 \in 0..n /\ ~ (x <= x - 1) /\ x \in 1..n /\ k <= x - 1
    BY <1>2, <2>4
  <2>6. x - 1 \notin Wrong
    BY <2>3, <2>5
  <2>7. free[k] <= free[x - 1] /\ free[x] = free[x - 1] + step(x) /\ step(x) \in Nat
    BY <1>1, <1>2, <2>5, <2>6
  <2>8. free[k] \in Nat /\ free[x - 1] \in Nat
    BY <1>1, <2>5
  <2>9. free[k] <= free[x]
    BY <2>7, <2>8
  <2> QED BY <2>9
<1>6. \A p \in D : \E k : In(p, k)
  <2> TAKE p \in D
  <2> DEFINE Past == {k \in 0..n : p < free[k]}
  <2>1. n \in Past /\ Past \subseteq Nat
    BY <1>1, <1>2, <1>4
  <2>2. PICK k \in Past : \A y \in Past : k <= y
    BY <2>1, LeastNumber
  <2>3. k # 0
    BY <1>1, <1>2, <1>3, <1>4
  <2>4. k \in 1..n /\ k - 1 \in 0..n /\ ~ (k <= k - 1)
    BY <1>2, <2>3
  <2>5. k - 1 \notin Past
    BY <2>2, <2>4
  <2>6. free[k - 1] <= p
    BY <1>1, <1>4, <2>4, <2>5
  <2> QED BY <2>2, <2>4, <2>6 DEF OnChain
<1>7. \A p \in D : \A k, j : In(p, k) /\ In(p, j) => k = j
  <2>1. ASSUME NEW p \in D, NEW k \in 1..n, NEW j \in 1..n, In(p, k), In(p, j), k < j PROVE FALSE
    <3>1. k \in 0..n /\ j - 1 \in 0..n /\ k <= j - 1
      BY <1>2, <2>1
    <3>2. free[k] <= free[j - 1] /\ free[k] \in Nat /\ free[j - 1] \in Nat /\ p \in Nat
      BY <1>1, <1>4, <1>5, <3>1
    <3> QED BY <2>1, <3>2 DEF OnChain
  <2>2. \A p, k : In(p, k) => k \in 1..n
    BY DEF OnChain
  <2>3. \A k, j \in 1..n : k = j \/ k < j \/ j < k
    BY <1>2
  <2> HIDE DEF In
  <2> QED BY <2>1, <2>2, <2>3
<1> QED BY <1>4, <1>5, <1>6, <1>7 DEF n, D

-----------------------------------------------------------------------------
(* The inductive invariant                                                 *)

Kid == [page : Nat, key : Int]
Packing == stage \in {"leaves", "inner", "ileaves", "iinner"}

Typed ==
  /\ objects \in Seq(Object) /\ roots \in Seq(Nat) /\ Len(roots) <= Len(objects)
  /\ next \in Nat /\ next >= 2
  /\ stage \in {"object", "leaves", "inner", "ileaves", "iinner", "written", "failed"}
  /\ done \in Nat /\ taken \in Nat /\ used \in Nat

(* The sequences of the level, stage by stage.                             *)
LevelTyped ==
  /\ stage = "leaves" => items \in Seq(Cell)
  /\ stage = "inner" => items \in Seq(Kid)
  /\ stage = "ileaves" => items \in Seq(Record)
  /\ stage = "iinner" => items \in Seq(Nat) /\ dividers \in Seq(Record)
  /\ stage \in {"leaves", "inner"} => above \in Seq(Kid)
  /\ stage \in {"ileaves", "iinner"} =>
       above \in Seq(Nat) /\ promoted \in Seq(Record) /\ Building
  /\ Packing => done + taken <= Len(items)

(* Between two pages of an index there is a record: one has been promoted   *)
(* for every page but the last.                                            *)
Separated ==
  /\ stage = "iinner" =>
       Len(items) <= Len(dividers) + 1 /\ (done < Len(items) => done + taken < Len(items))
  /\ stage \in {"ileaves", "iinner"} =>
       /\ Len(above) <= Len(promoted) + 1
       /\ done < Len(items) => Len(above) <= Len(promoted)

LeafCost(i) == 2 + TableCellSize(items[done + i].row)
ChildrenCost(i) == ChildCost(items[done + i])
RecordCost(i) == 2 + IndexCellSize(items[done + i])
SeparatorCost(i) == 2 + 4 + IndexCellSize(dividers[done + i])

(* used is what the items on the open page take, and the page has it.      *)
Filled ==
  /\ stage = "leaves" =>
       used = Total([i \in 1..taken |-> LeafCost(i)]) /\ used <= LeafRoom
  /\ stage = "inner" =>
       used = Total([i \in 1..taken |-> ChildrenCost(i)]) /\ used <= InnerRoom
  /\ stage = "ileaves" =>
       used = Total([i \in 1..taken |-> RecordCost(i)]) /\ used <= PageSize - 8
  /\ stage = "iinner" =>
       used = Total([i \in 1..taken |-> SeparatorCost(i)]) /\ used <= PageSize - 12

(* Every page written so far has room for what is on it.                   *)
Fits(p, page) ==
  page.kind # "overflow" => PageBytes(page) <= PageSize - (IF p = 1 THEN DbHeader ELSE 0)

AllFit == \A p \in DOMAIN pages : Fits(p, pages[p])

Invariant == Typed /\ LevelTyped /\ Separated /\ Filled /\ AllFit

-----------------------------------------------------------------------------
(* Helpers on pages                                                        *)

(* The pages of f and g, those of g before those of f.                     *)
LEMMA OverKeeps ==
  ASSUME NEW f, NEW g
  PROVE  /\ DOMAIN Over(f, g) = DOMAIN f \cup DOMAIN g
         /\ \A p \in DOMAIN g : Over(f, g)[p] = g[p]
         /\ \A p \in DOMAIN f \ DOMAIN g : Over(f, g)[p] = f[p]
BY DEF Over

(* One page at one number.                                                 *)
LEMMA Single ==
  ASSUME NEW p, NEW page
  PROVE  DOMAIN At(p, page) = {p} /\ At(p, page)[p] = page
BY DEF At

(* Adding pages that fit to pages that fit.                                *)
LEMMA OverFits ==
  ASSUME NEW f, NEW g,
         \A p \in DOMAIN f : Fits(p, f[p]), \A p \in DOMAIN g : Fits(p, g[p])
  PROVE  \A p \in DOMAIN Over(f, g) : Fits(p, Over(f, g)[p])
<1>1. ASSUME NEW p \in DOMAIN Over(f, g)
      PROVE  Fits(p, Over(f, g)[p])
  <2>1. /\ p \in DOMAIN f \cup DOMAIN g
        /\ Over(f, g)[p] = IF p \in DOMAIN g THEN g[p] ELSE f[p]
    BY <1>1 DEF Over
  <2>2. \/ p \in DOMAIN f /\ Over(f, g)[p] = f[p]
        \/ p \in DOMAIN g /\ Over(f, g)[p] = g[p]
    BY <2>1
  <2> QED BY <2>2
<1> QED BY <1>1

(* A page that fits, alone, fits.                                          *)
LEMMA OneFits ==
  ASSUME NEW p, NEW page, Fits(p, page)
  PROVE  \A q \in DOMAIN At(p, page) : Fits(q, At(p, page)[q])
<1>1. \A q \in DOMAIN At(p, page) : q = p /\ At(p, page)[q] = page
  BY DEF At
<1> QED BY <1>1

(* The cells of rows are one for each, and the pages of their chains fit.  *)
LEMMA ChainsFit ==
  ASSUME NEW rows \in Seq(AnyRow), NEW max \in Nat, MinLocal <= max, NEW start \in Nat
  PROVE  LET made == Cells(rows, max, start)
         IN  /\ made.cells \in Seq(Cell) /\ Len(made.cells) = Len(rows)
             /\ \A k \in 1..Len(rows) : made.cells[k].row = rows[k]
             /\ made.next \in Nat /\ made.next >= start
             /\ DOMAIN made.pages = start..(made.next - 1)
             /\ \A p \in DOMAIN made.pages : Fits(p, made.pages[p])
<1> DEFINE made == Cells(rows, max, start)
           n == Len(rows)
<1>0. PICK free : CellsAre(rows, max, start, free)
  BY CellsMade
<1>1.   /\ \A k \in 0..n : free[k] \in Nat /\ free[k] >= start
        /\ made.next = free[n]
        /\ made.cells = [k \in 1..n |->
             [row   |-> rows[k],
              local |-> LocalPayload(rows[k].len, max),
              first |-> IF Spill(rows[k].len, max) = 0 THEN 0 ELSE free[k - 1]]]
        /\ made.cells \in Seq(Cell)
        /\ DOMAIN made.pages = start..(made.next - 1)
        /\ \A p \in DOMAIN made.pages : IsOverflow(made.pages[p])
  BY <1>0 DEF CellsAre
<1>2. n \in Nat
  OBVIOUS
<1> HIDE DEF made, n
<1>3. Len(made.cells) = n /\ \A k \in 1..n : made.cells[k].row = rows[k]
  BY <1>1, <1>2
<1>4. \A p \in DOMAIN made.pages : Fits(p, made.pages[p])
  BY <1>1 DEF Fits, IsOverflow
<1> QED BY <1>1, <1>2, <1>3, <1>4 DEF made, n

(* What the renderer of each kind of page counts for one cell.             *)
LEMMA WeightOf ==
  ASSUME NEW c
  PROVE  /\ Weight("leaf", c) = 2 + TableCellSize(c.row)
         /\ Weight("inode", c) = ChildCost(c)
         /\ Weight("ileaf", c) = 2 + IndexCellSize(c.row)
         /\ Weight("iinode", c) = 2 + 4 + IndexCellSize(c.row)
BY DEF Weight

-----------------------------------------------------------------------------
(* The steps                                                               *)

(* A call begins in the invariant.                                         *)
LEMMA InvariantInit == Init => Invariant
<1> SUFFICES ASSUME Init PROVE Invariant
  OBVIOUS
<1>1. objects \in Seq(Object)
  BY ObjectsTyped DEF Init
<1>2. Len(objects) \in Nat
  BY <1>1
<1>3. Typed
  BY <1>1, <1>2 DEF Init, Typed
<1>4. LevelTyped /\ Separated /\ Filled
  BY DEF Init, LevelTyped, Separated, Filled, Packing
<1>5. AllFit
  BY DEF Init, AllFit
<1> QED BY <1>3, <1>4, <1>5 DEF Invariant

(* Nothing changed, nothing broken.                                        *)
LEMMA InvariantStutters == Invariant /\ UNCHANGED vars => Invariant'
BY DEF Invariant, Typed, LevelTyped, Separated, Filled, AllFit, Fits, vars, level, Packing, Building,
       LeafCost, ChildrenCost, RecordCost, SeparatorCost, LeafRoom, InnerRoom, Room

(* A stage that packs nothing asks only for types and for pages that fit.  *)
LEMMA Idle ==
  ASSUME Typed', AllFit', stage' \in {"object", "written", "failed"}
  PROVE  Invariant'
BY DEF Invariant, LevelTyped, Separated, Filled, Packing

(* A virtual table or a trigger has no pages to break.                     *)
LEMMA KeepsSchemaOnly == Invariant /\ SchemaOnly => Invariant'
<1> SUFFICES ASSUME Invariant, SchemaOnly PROVE Invariant'
  OBVIOUS
<1>1. Typed'
  BY DEF Invariant, SchemaOnly, Typed, Building, level
<1>2. AllFit'
  BY DEF Invariant, SchemaOnly, AllFit
<1> QED BY <1>1, <1>2, Idle DEF SchemaOnly

(* A page is no more than the page size less the database header.          *)
LEMMA RoomBounded ==
  Room \in Nat /\ Room >= PageSize - DbHeader /\ Room <= PageSize
BY PageAssumption DEF Room, DbHeader

(* An empty page is not too full.                                          *)
LEMMA NothingPlaced ==
  ASSUME taken' = 0, used' = 0
  PROVE  Filled'
<1> DEFINE leaf == [i \in 1..taken' |-> (LeafCost(i))']
           inner == [i \in 1..taken' |-> (ChildrenCost(i))']
           ileaf == [i \in 1..taken' |-> (RecordCost(i))']
           iinner == [i \in 1..taken' |-> (SeparatorCost(i))']
<1>1. Len(leaf) = 0 /\ Len(inner) = 0 /\ Len(ileaf) = 0 /\ Len(iinner) = 0
  OBVIOUS
<1>2. Total(leaf) = 0 /\ Total(inner) = 0 /\ Total(ileaf) = 0 /\ Total(iinner) = 0
  BY <1>1, TotalOfNone
<1>3. 0 <= Room' - 8 /\ 0 <= Room' - 12 /\ 0 <= PageSize - 8 /\ 0 <= PageSize - 12
  <2> DEFINE r == Room'
  <2>1. r \in Nat /\ r >= PageSize - 100
    BY PageAssumption DEF Room, DbHeader
  <2> HIDE DEF r
  <2>2. 0 <= r - 8 /\ 0 <= r - 12 /\ 0 <= PageSize - 8 /\ 0 <= PageSize - 12
    BY <2>1, PageAssumption
  <2> QED BY <2>2 DEF r
<1> QED BY <1>2, <1>3 DEF Filled, LeafRoom, InnerRoom

(* A level starts with nothing placed.                                     *)
LEMMA LevelStarts ==
  ASSUME NEW input, NEW separators, OnLevel(input, separators), Typed',
         \/ stage' = "leaves" /\ input \in Seq(Cell)
         \/ stage' = "inner" /\ input \in Seq(Kid)
         \/ Building' /\ stage' = "ileaves" /\ input \in Seq(Record)
         \/ Building' /\ stage' = "iinner" /\ input \in Seq(Nat) /\ separators \in Seq(Record)
              /\ Len(input) <= Len(separators) + 1
  PROVE  LevelTyped' /\ Separated' /\ Filled'
<1>1. /\ items' = input /\ dividers' = separators /\ done' = 0 /\ taken' = 0 /\ used' = 0
      /\ above' = <<>> /\ promoted' = <<>>
  BY DEF OnLevel
<1>2. Len(items') \in Nat
  BY <1>1
<1>3. LevelTyped'
  BY <1>1, <1>2 DEF LevelTyped, Packing
<1>4. Separated'
  BY <1>1, <1>2 DEF Separated
<1>5. Filled'
  BY <1>1, NothingPlaced
<1> QED BY <1>3, <1>4, <1>5

(* The rows of the object in hand are records.                             *)
LEMMA ThisTyped ==
  ASSUME Typed, Building
  PROVE  This.rows \in Seq(Record)
<1>1. This \in Object
  BY DEF Typed, Building, This
<1> QED BY <1>1 DEF Object

(* An index begins with its records unplaced.                              *)
LEMMA KeepsBeginIndex == Invariant /\ BeginIndex => Invariant'
<1> SUFFICES ASSUME Invariant, BeginIndex PROVE Invariant'
  OBVIOUS
<1>1. Typed'
  BY DEF Invariant, BeginIndex, Typed, OnLevel
<1>2. AllFit'
  BY DEF Invariant, BeginIndex, AllFit
<1>3. This.rows \in Seq(Record)
  BY ThisTyped DEF Invariant, BeginIndex
<1>4. Building' /\ stage' = "ileaves" /\ OnLevel(This.rows, <<>>)
  BY DEF BeginIndex, Building
<1>6. LevelTyped' /\ Separated' /\ Filled'
  BY <1>1, <1>3, <1>4, LevelStarts
<1> QED BY <1>1, <1>2, <1>6 DEF Invariant

(* The rows of sqlite_master, once every object has its root.              *)
LEMMA MasterRowsTyped ==
  ASSUME Typed, ~Building
  PROVE  MasterRows \in Seq(AnyRow) /\ MasterRows \in Seq(MasterRow)
<1>1. /\ Len(objects) \in Nat /\ DOMAIN objects = 1..Len(objects)
      /\ \A i \in DOMAIN objects : objects[i].ddl \in Nat /\ roots[i] \in Nat
  <2>1. /\ Len(objects) \in Nat /\ DOMAIN objects = 1..Len(objects)
        /\ \A i \in DOMAIN objects : objects[i] \in Object
    BY DEF Typed
  <2>2. \A o \in Object : o.ddl \in Nat
    BY DEF Object
  <2>3. Len(roots) = Len(objects)
    BY DEF Typed, Building
  <2>4. \A i \in 1..Len(roots) : roots[i] \in Nat
    BY DEF Typed
  <2> QED BY <2>1, <2>2, <2>3, <2>4
<1>2. MasterRows \in Seq(MasterRow)
  BY <1>1 DEF MasterRows, MasterRow
<1>3. MasterRow \subseteq AnyRow
  BY DEF AnyRow
<1> QED BY <1>2, <1>3, Elements

(* The rows of the table in hand, sqlite_master's when all are built.      *)
LEMMA ThisRowsTyped ==
  ASSUME Typed
  PROVE  (IF Building THEN This.rows ELSE MasterRows) \in Seq(AnyRow)
<1>1. CASE Building
  <2>2. This.rows \in Seq(Record)
    BY <1>1, ThisTyped
  <2>3. Record \subseteq AnyRow
    BY DEF AnyRow
  <2> QED BY <1>1, <2>2, <2>3, Elements
<1>2. CASE ~Building
  BY <1>2, MasterRowsTyped
<1> QED BY <1>1, <1>2

(* A table begins with its cells made and their chains written.            *)
LEMMA KeepsBeginTable == Invariant /\ BeginTable => Invariant'
<1> DEFINE rows == IF Building THEN This.rows ELSE MasterRows
           made == TreeCells(rows)
<1> SUFFICES ASSUME Invariant, BeginTable PROVE Invariant'
  OBVIOUS
<1>1. rows \in Seq(AnyRow)
  BY ThisRowsTyped DEF Invariant
<1>2. /\ OnLevel(made.cells, <<>>) /\ pages' = Over(pages, made.pages) /\ next' = made.next
      /\ stage' = "leaves" /\ UNCHANGED <<objects, roots>>
  BY DEF BeginTable
<1> HIDE DEF rows
<1>3. /\ made.cells \in Seq(Cell) /\ made.next \in Nat /\ made.next >= next
      /\ \A p \in DOMAIN made.pages : Fits(p, made.pages[p])
  BY <1>1, ChainsFit, Limits DEF TreeCells, Invariant, Typed
<1> HIDE DEF made
<1>4. Typed'
  BY <1>2, <1>3 DEF Invariant, Typed, OnLevel
<1>5. AllFit'
  BY <1>2, <1>3, OverFits DEF Invariant, AllFit
<1>7. LevelTyped' /\ Separated' /\ Filled'
  BY <1>2, <1>3, <1>4, LevelStarts
<1> QED BY <1>4, <1>5, <1>7 DEF Invariant

(* sqlite_master on page 1 as a leaf, behind the database header.          *)
LEMMA KeepsMasterLeaf == Invariant /\ MasterLeaf => Invariant'
<1> DEFINE made == TreeCells(MasterRows)
           page == [kind |-> "leaf", cells |-> made.cells]
<1> SUFFICES ASSUME Invariant, MasterLeaf PROVE Invariant'
  OBVIOUS
<1>1. MasterRows \in Seq(AnyRow)
  BY MasterRowsTyped DEF Invariant, MasterLeaf
<1>2. /\ pages' = Over(pages, Over(made.pages, At(1, page))) /\ next' = made.next
      /\ stage' = "written" /\ UNCHANGED <<objects, roots, level>> /\ MasterFits
  BY DEF MasterLeaf
<1>3. /\ made.cells \in Seq(Cell) /\ Len(made.cells) = Len(MasterRows)
      /\ \A k \in 1..Len(MasterRows) : made.cells[k].row = MasterRows[k]
      /\ made.next \in Nat /\ made.next >= next
      /\ \A p \in DOMAIN made.pages : Fits(p, made.pages[p])
  BY <1>1, ChainsFit, Limits DEF TreeCells, Invariant, Typed
<1> HIDE DEF made
<1>4. Typed'
  BY <1>2, <1>3 DEF Invariant, Typed, level
<1>5. Fits(1, page)
  <2>1. Weights("leaf", made.cells)
          = [i \in DOMAIN MasterRows |-> 2 + TableCellSize(MasterRows[i])]
    <3>1. DOMAIN made.cells = DOMAIN MasterRows
          /\ \A i \in DOMAIN MasterRows : made.cells[i].row = MasterRows[i]
      BY <1>1, <1>3
    <3>2. \A i \in DOMAIN MasterRows :
            Weight("leaf", made.cells[i]) = 2 + TableCellSize(MasterRows[i])
      BY <3>1, WeightOf
    <3> QED BY <3>1, <3>2 DEF Weights
  <2>2. PageBytes(page) = 8 + Total(Weights("leaf", made.cells))
    BY DEF PageBytes
  <2> DEFINE total == Total(Weights("leaf", made.cells))
  <2>3. DbHeader + 8 + total <= PageSize
    BY <1>2, <2>1 DEF MasterFits
  <2>4. total \in Int
    <3>1. Len(made.cells) \in Nat /\ DOMAIN made.cells = 1..Len(made.cells)
      BY <1>3
    <3>2. \A i \in 1..Len(made.cells) : TableCellSize(MasterRows[i]) \in Int
      BY <1>1, <1>3, RowsMeasured, Sizes
    <3>3. \A i \in 1..Len(made.cells) : Weights("leaf", made.cells)[i] \in Int
      BY <1>1, <1>3, <2>1, <3>1, <3>2
    <3>4. Len(Weights("leaf", made.cells)) = Len(made.cells)
      BY <3>1 DEF Weights
    <3> QED BY <3>1, <3>3, <3>4, TotalOfNumbers
  <2> HIDE DEF total
  <2> QED BY <2>2, <2>3, <2>4, PageAssumption DEF Fits, DbHeader, total
<1>6. \A p \in DOMAIN At(1, page) : Fits(p, At(1, page)[p])
  BY <1>5, OneFits
<1>7. \A p \in DOMAIN Over(made.pages, At(1, page)) : Fits(p, Over(made.pages, At(1, page))[p])
  BY <1>3, <1>6, OverFits
<1>8. AllFit'
  BY <1>2, <1>7, OverFits DEF Invariant, AllFit
<1> QED BY <1>2, <1>4, <1>8, Idle

-----------------------------------------------------------------------------
(* The levels of a table                                                   *)

(* The cell to place next has a cost.                                      *)
LEMMA UpcomingCell ==
  ASSUME Typed, LevelTyped, stage = "leaves", Left
  PROVE  Upcoming \in Cell /\ TableCellSize(Upcoming.row) \in Nat
<1>1. done + taken + 1 \in 1..Len(items)
  BY DEF Typed, Left, LevelTyped
<1>2. Upcoming \in Cell
  BY <1>1 DEF LevelTyped, Upcoming
<1>3. Upcoming.row \in AnyRow
  BY <1>2 DEF Cell
<1> QED BY <1>2, <1>3, RowsMeasured, Sizes

(* A cell is placed where the page has room for it and its slot.           *)
LEMMA KeepsPlaceCell == Invariant /\ PlaceCell => Invariant'
<1> SUFFICES ASSUME Invariant, PlaceCell PROVE Invariant'
  OBVIOUS
<1>1. /\ stage = "leaves" /\ stage' = "leaves" /\ Left /\ ~LeafFull /\ LeafSize <= LeafRoom
      /\ taken' = taken + 1 /\ used' = used + LeafSize
      /\ UNCHANGED <<objects, roots, pages, next, items, dividers, done, above, promoted>>
  BY DEF PlaceCell
<1>2. LeafSize \in Nat
  BY <1>1, UpcomingCell DEF Invariant, LeafSize
<1>3. Typed'
  BY <1>1, <1>2 DEF Invariant, Typed
<1>4. LevelTyped' /\ Separated'
  BY <1>1 DEF Invariant, LevelTyped, Separated, Packing, Left, Typed
<1>5. Filled'
  <2> DEFINE v == [i \in 1..taken |-> LeafCost(i)]
             w == [i \in 1..(taken + 1) |-> LeafCost(i)]
  <2>1. taken \in Nat /\ done \in Nat /\ used \in Nat
    BY DEF Invariant, Typed
  <2>2. \A i \in 1..taken : LeafCost(i) \in Int
    <3>1. \A i \in 1..taken : done + i \in 1..Len(items)
      BY <1>1, <2>1 DEF Invariant, LevelTyped, Packing
    <3>2. \A i \in 1..taken : items[done + i] \in Cell
      BY <1>1, <3>1 DEF Invariant, LevelTyped
    <3>3. \A c \in Cell : TableCellSize(c.row) \in Nat
      BY RowsMeasured, Sizes DEF Cell
    <3> QED BY <3>2, <3>3 DEF LeafCost
  <2>3. Total(w) = Total(v) + LeafCost(taken + 1)
    <3>1. /\ Len(v) = taken /\ Len(w) = taken + 1 /\ w[taken + 1] = LeafCost(taken + 1)
          /\ \A k \in 1..taken : v[k] \in Int /\ w[k] = v[k]
      BY <2>1, <2>2
    <3> HIDE DEF v, w
    <3> QED BY <2>1, <3>1, TotalStep
  <2>4. LeafCost(taken + 1) = LeafSize
    <3>1. done + taken + 1 = done + (taken + 1)
      BY <2>1
    <3> QED BY <3>1 DEF LeafCost, LeafSize, Upcoming
  <2>5. used = Total(v) /\ used <= LeafRoom
    BY <1>1 DEF Invariant, Filled
  <2>6. Total(w) = used'
    BY <1>1, <2>3, <2>4, <2>5
  <2>7. (Total([i \in 1..taken |-> LeafCost(i)]))' = Total(w)
    <3>1. taken' = taken + 1 /\ \A i : LeafCost(i)' = LeafCost(i)
      BY <1>1 DEF LeafCost
    <3> QED BY <3>1
  <2>8. used' <= LeafRoom
    <3>1. CASE taken > 0
      <4>1. LeafRoom \in Int
        BY RoomBounded DEF LeafRoom
      <4> QED BY <1>1, <1>2, <2>1, <3>1, <4>1 DEF LeafFull
    <3>2. CASE taken = 0
      <4>1. Total(v) = 0
        BY <3>2, TotalOfNone
      <4> QED BY <1>1, <1>2, <2>5, <4>1
    <3> QED BY <2>1, <3>1, <3>2
  <2>9. LeafRoom' = LeafRoom
    BY <1>1 DEF LeafRoom, Room, Building
  <2> HIDE DEF v, w
  <2> QED BY <1>1, <2>6, <2>7, <2>8, <2>9 DEF Filled
<1>6. AllFit'
  BY <1>1 DEF Invariant, AllFit
<1> QED BY <1>3, <1>4, <1>5, <1>6 DEF Invariant

(* A refusal changes no page.                                              *)
LEMMA KeepsCellTooLarge == Invariant /\ CellTooLarge => Invariant'
<1> SUFFICES ASSUME Invariant, CellTooLarge PROVE Invariant'
  OBVIOUS
<1>1. Typed' /\ AllFit' /\ stage' = "failed"
  BY DEF Invariant, CellTooLarge, Typed, AllFit, level
<1> QED BY <1>1, Idle

(* A page of a table is closed: it fits, and the level above grows by it.  *)
LEMMA Closes ==
  ASSUME Invariant, stage \in {"leaves", "inner"}, NEW page, NEW key \in Int,
         Close(page, key), Fits(next, page),
         UNCHANGED <<objects, roots, items, dividers, promoted, stage>>
  PROVE  Invariant'
<1>1. /\ pages' = Over(pages, At(next, page)) /\ next' = next + 1
      /\ above' = Append(above, [page |-> next, key |-> key])
      /\ done' = done + taken /\ taken' = 0 /\ used' = 0
  BY DEF Close
<1>2. Typed'
  BY <1>1 DEF Invariant, Typed
<1>3. above' \in Seq(Kid)
  <2>1. above \in Seq(Kid)
    BY DEF Invariant, LevelTyped
  <2>2. [page |-> next, key |-> key] \in Kid
    BY DEF Invariant, Typed, Kid
  <2> QED BY <1>1, <2>1, <2>2
<1>4. LevelTyped'
  BY <1>1, <1>3 DEF Invariant, LevelTyped, Packing, Typed
<1>5. Separated'
  BY DEF Separated
<1>6. Filled'
  BY <1>1, NothingPlaced
<1>7. AllFit'
  BY <1>1, OneFits, OverFits DEF Invariant, AllFit
<1> QED BY <1>2, <1>4, <1>5, <1>6, <1>7 DEF Invariant

(* A table without rows has one empty leaf.                                *)
LEMMA KeepsEmptyLeaf == Invariant /\ EmptyLeaf => Invariant'
<1> DEFINE page == [kind |-> "leaf", cells |-> <<>>]
<1> SUFFICES ASSUME Invariant, EmptyLeaf PROVE Invariant'
  OBVIOUS
<1>1. /\ stage = "leaves" /\ Close(page, 0)
      /\ UNCHANGED <<objects, roots, items, dividers, promoted, stage>>
  BY DEF EmptyLeaf
<1>2. Fits(next, page)
  <2>1. Len(Weights("leaf", <<>>)) = 0
    BY DEF Weights
  <2>2. PageBytes(page) = 8 + Total(Weights("leaf", <<>>))
    BY DEF PageBytes
  <2>3. PageBytes(page) = 8
    BY <2>1, <2>2, TotalOfNone
  <2> QED BY <2>3, PageAssumption DEF Fits, DbHeader
<1> HIDE DEF page
<1> QED BY <1>1, <1>2, Closes

(* The cells of the open page.                                             *)
LEMMA OpenItemsAre ==
  ASSUME Typed, done + taken <= Len(items), NEW S, items \in Seq(S)
  PROVE  /\ OpenItems \in Seq(S) /\ Len(OpenItems) = taken /\ DOMAIN OpenItems = 1..taken
         /\ \A i \in 1..taken : OpenItems[i] = items[done + i] /\ items[done + i] \in S
<1>1. done \in Nat /\ taken \in Nat
  BY DEF Typed
<1>2. Len(items) \in Nat /\ \A i \in 1..Len(items) : items[i] \in S
  OBVIOUS
<1>3. OpenItems = [i \in 1..taken |-> items[done + i]]
  BY <1>1, <1>2 DEF OpenItems
<1>4. \A i \in 1..taken : done + i \in 1..Len(items)
  BY <1>1, <1>2
<1> QED BY <1>1, <1>2, <1>3, <1>4

(* A leaf is closed with the cells that were counted.                      *)
LEMMA KeepsCloseLeaf == Invariant /\ CloseLeaf => Invariant'
<1> DEFINE page == [kind |-> "leaf", cells |-> OpenItems]
           key == items[done + taken].row.key
<1> SUFFICES ASSUME Invariant, CloseLeaf PROVE Invariant'
  OBVIOUS
<1>1. /\ stage = "leaves" /\ taken > 0 /\ Close(page, key)
      /\ UNCHANGED <<objects, roots, items, dividers, promoted, stage>>
  BY DEF CloseLeaf
<1>2. /\ OpenItems \in Seq(Cell) /\ Len(OpenItems) = taken /\ DOMAIN OpenItems = 1..taken
      /\ \A i \in 1..taken : OpenItems[i] = items[done + i] /\ items[done + i] \in Cell
  BY <1>1, OpenItemsAre DEF Invariant, LevelTyped, Packing
<1>3. key \in Int
  <2>1. items[done + taken] \in Cell
    BY <1>1, <1>2 DEF Invariant, Typed
  <2>2. items[done + taken].row \in AnyRow
    BY <2>1 DEF Cell
  <2> QED BY <2>2, RowsMeasured
<1>4. Fits(next, page)
  <2>1. Weights("leaf", OpenItems) = [i \in 1..taken |-> LeafCost(i)]
    BY <1>2, WeightOf DEF Weights, LeafCost
  <2>2. PageBytes(page) = 8 + Total(Weights("leaf", OpenItems))
    BY DEF PageBytes
  <2>3. used = Total(Weights("leaf", OpenItems)) /\ used <= LeafRoom /\ used \in Nat
    BY <1>1, <2>1 DEF Invariant, Filled, Typed
  <2>4. PageBytes(page) = 8 + used
    BY <2>2, <2>3
  <2>5. next \in Nat /\ next >= 2
    BY DEF Invariant, Typed
  <2> QED BY <2>3, <2>4, <2>5, RoomBounded, PageAssumption DEF Fits, LeafRoom
<1> HIDE DEF page, key
<1> QED BY <1>1, <1>3, <1>4, Closes

(* The child to place next has a cost.                                     *)
LEMMA UpcomingChild ==
  ASSUME Typed, LevelTyped, stage = "inner", Left
  PROVE  Upcoming \in Kid /\ ChildCost(Upcoming) \in 7..15
<1>1. done + taken + 1 \in 1..Len(items)
  BY DEF Typed, Left, LevelTyped
<1>2. Upcoming \in Kid
  BY <1>1 DEF LevelTyped, Upcoming
<1>3. Upcoming.key \in Int
  BY <1>2 DEF Kid
<1> QED BY <1>2, <1>3, Sizes

(* A child is placed where the page has room for it.                       *)
LEMMA KeepsPlaceChild == Invariant /\ PlaceChild => Invariant'
<1> SUFFICES ASSUME Invariant, PlaceChild PROVE Invariant'
  OBVIOUS
<1>1. /\ stage = "inner" /\ stage' = "inner" /\ Left /\ ~PageFull
      /\ taken' = taken + 1 /\ used' = used + ChildCost(Upcoming)
      /\ UNCHANGED <<objects, roots, pages, next, items, dividers, done, above, promoted>>
  BY DEF PlaceChild
<1>2. ChildCost(Upcoming) \in 7..15
  BY <1>1, UpcomingChild DEF Invariant
<1>3. Typed'
  BY <1>1, <1>2 DEF Invariant, Typed
<1>4. LevelTyped' /\ Separated'
  BY <1>1 DEF Invariant, LevelTyped, Separated, Packing, Left, Typed
<1>5. Filled'
  <2> DEFINE v == [i \in 1..taken |-> ChildrenCost(i)]
             w == [i \in 1..(taken + 1) |-> ChildrenCost(i)]
  <2>1. taken \in Nat /\ done \in Nat /\ used \in Nat
    BY DEF Invariant, Typed
  <2>2. \A i \in 1..taken : ChildrenCost(i) \in Int
    <3>1. \A i \in 1..taken : done + i \in 1..Len(items)
      BY <1>1, <2>1 DEF Invariant, LevelTyped, Packing
    <3>2. \A i \in 1..taken : items[done + i] \in Kid
      BY <1>1, <3>1 DEF Invariant, LevelTyped
    <3>3. \A c \in Kid : ChildCost(c) \in 7..15
      BY Sizes DEF Kid
    <3> QED BY <3>2, <3>3 DEF ChildrenCost
  <2>3. Total(w) = Total(v) + ChildrenCost(taken + 1)
    <3>1. /\ Len(v) = taken /\ Len(w) = taken + 1 /\ w[taken + 1] = ChildrenCost(taken + 1)
          /\ \A k \in 1..taken : v[k] \in Int /\ w[k] = v[k]
      BY <2>1, <2>2
    <3> HIDE DEF v, w
    <3> QED BY <2>1, <3>1, TotalStep
  <2>4. ChildrenCost(taken + 1) = ChildCost(Upcoming)
    <3>1. done + taken + 1 = done + (taken + 1)
      BY <2>1
    <3> QED BY <3>1 DEF ChildrenCost, Upcoming
  <2>5. used = Total(v) /\ used <= InnerRoom
    BY <1>1 DEF Invariant, Filled
  <2>6. Total(w) = used'
    BY <1>1, <2>3, <2>4, <2>5
  <2>7. (Total([i \in 1..taken |-> ChildrenCost(i)]))' = Total(w)
    <3>1. taken' = taken + 1 /\ \A i : ChildrenCost(i)' = ChildrenCost(i)
      BY <1>1 DEF ChildrenCost
    <3> QED BY <3>1
  <2>8. used' <= InnerRoom
    <3>1. InnerRoom \in Int /\ InnerRoom >= 15
      BY RoomBounded, PageAssumption DEF InnerRoom, DbHeader
    <3>2. CASE taken > 0
      BY <1>1, <1>2, <2>1, <3>1, <3>2 DEF PageFull
    <3>3. CASE taken = 0
      <4>1. Total(v) = 0
        BY <3>3, TotalOfNone
      <4> QED BY <1>1, <1>2, <2>5, <3>1, <4>1
    <3> QED BY <2>1, <3>2, <3>3
  <2>9. InnerRoom' = InnerRoom
    BY <1>1 DEF InnerRoom, Room, Building
  <2> HIDE DEF v, w
  <2> QED BY <1>1, <2>6, <2>7, <2>8, <2>9 DEF Filled
<1>6. AllFit'
  BY <1>1 DEF Invariant, AllFit
<1> QED BY <1>3, <1>4, <1>5, <1>6 DEF Invariant

(* An interior page over this group weighs what its members but the last   *)
(* cost.                                                                   *)
LEMMA InteriorWeighs ==
  ASSUME NEW group \in Seq(Kid), Len(group) > 0
  PROVE  /\ Interior(group).kind = "inode"
         /\ PageBytes(Interior(group)) =
              12 + Total([i \in 1..(Len(group) - 1) |-> ChildCost(group[i])])
<1> DEFINE cells == [i \in 1..(Len(group) - 1) |-> [child |-> group[i].page, key |-> group[i].key]]
<1>1. Interior(group).kind = "inode" /\ Interior(group).cells = cells
  BY DEF Interior
<1>2. Weights("inode", cells) = [i \in 1..(Len(group) - 1) |-> ChildCost(group[i])]
  <2>1. DOMAIN cells = 1..(Len(group) - 1)
    OBVIOUS
  <2>2. \A i \in 1..(Len(group) - 1) : Weight("inode", cells[i]) = ChildCost(group[i])
    BY WeightOf DEF ChildCost
  <2> HIDE DEF cells
  <2> QED BY <2>1, <2>2 DEF Weights
<1> HIDE DEF cells
<1> QED BY <1>1, <1>2 DEF PageBytes

(* An interior page is closed: its last child costs it nothing more.       *)
LEMMA KeepsCloseInner == Invariant /\ CloseInner => Invariant'
<1> DEFINE page == Interior(OpenItems)
           key == Last(OpenItems).key
<1> SUFFICES ASSUME Invariant, CloseInner PROVE Invariant'
  OBVIOUS
<1>1. /\ stage = "inner" /\ taken > 0 /\ Close(page, key)
      /\ UNCHANGED <<objects, roots, items, dividers, promoted, stage>>
  BY DEF CloseInner
<1>2. /\ OpenItems \in Seq(Kid) /\ Len(OpenItems) = taken /\ DOMAIN OpenItems = 1..taken
      /\ \A i \in 1..taken : OpenItems[i] = items[done + i] /\ items[done + i] \in Kid
  BY <1>1, OpenItemsAre DEF Invariant, LevelTyped, Packing
<1>3. taken \in Nat /\ taken - 1 \in Nat /\ used \in Nat /\ next \in Nat /\ next >= 2
  BY <1>1 DEF Invariant, Typed
<1>4. key \in Int
  <2>1. Last(OpenItems) \in Kid
    BY <1>1, <1>2, <1>3 DEF Last
  <2> QED BY <2>1 DEF Kid
<1>5. Fits(next, page)
  <2> DEFINE v == [i \in 1..(taken - 1) |-> ChildCost(OpenItems[i])]
             w == [i \in 1..taken |-> ChildrenCost(i)]
  <2>1. PageBytes(page) = 12 + Total(v)
    BY <1>1, <1>2, InteriorWeighs
  <2>2. \A i \in 1..taken : ChildCost(OpenItems[i]) = ChildrenCost(i) /\ ChildrenCost(i) \in 7..15
    BY <1>2, Sizes DEF ChildrenCost, Kid
  <2>3. Total(v) \in Int /\ Total(w) = Total(v) + w[taken]
    <3>1. /\ Len(v) = taken - 1 /\ Len(w) = (taken - 1) + 1
          /\ \A k \in 1..(taken - 1) : v[k] \in Int /\ w[k] = v[k]
      BY <1>3, <2>2
    <3> HIDE DEF v, w
    <3> QED BY <1>3, <3>1, TotalStep
  <2>4. w[taken] \in 7..15
    BY <1>1, <1>3, <2>2
  <2>5. used = Total(w) /\ used <= InnerRoom
    BY <1>1 DEF Invariant, Filled
  <2> HIDE DEF v, w
  <2>6. PageBytes(page) <= 12 + InnerRoom /\ PageBytes(page) \in Int
    BY <1>3, <2>1, <2>3, <2>4, <2>5, RoomBounded DEF InnerRoom
  <2> QED BY <1>3, <2>6, RoomBounded, PageAssumption DEF Fits, InnerRoom
<1> HIDE DEF page, key
<1> QED BY <1>1, <1>4, <1>5, Closes

(* The one page of a level becomes a root.                                 *)
LEMMA KeepsRootFound == Invariant /\ RootFound => Invariant'
<1> SUFFICES ASSUME Invariant, RootFound PROVE Invariant'
  OBVIOUS
<1>1. /\ stage \in {"leaves", "inner"} /\ Building /\ Len(above) = 1 /\ stage' = "object"
      /\ roots' = Append(roots, above[1].page)
      /\ UNCHANGED <<objects, pages, next, level>>
  BY DEF RootFound, LevelDone
<1>2. above[1].page \in Nat
  <2>1. above \in Seq(Kid)
    BY <1>1 DEF Invariant, LevelTyped
  <2>2. Len(above) = 1
    BY <1>1
  <2>3. 1 \in DOMAIN above /\ \A i \in DOMAIN above : above[i] \in Kid
    BY <2>1, <2>2, Elements
  <2>4. above[1] \in Kid
    BY <2>3
  <2> QED BY <2>4 DEF Kid
<1>3. Typed' /\ AllFit'
  BY <1>1, <1>2 DEF Invariant, Typed, AllFit, level, Building
<1> QED BY <1>1, <1>3, Idle

(* Page 1 takes the interior page that interior_fits has measured.         *)
LEMMA KeepsMasterRoot == Invariant /\ MasterRoot => Invariant'
<1> DEFINE page == Interior(above)
           v == [i \in 1..(Len(above) - 1) |-> ChildCost(above[i])]
<1> SUFFICES ASSUME Invariant, MasterRoot PROVE Invariant'
  OBVIOUS
<1>1. /\ stage \in {"leaves", "inner"} /\ ~Building /\ above # <<>> /\ Total(v) <= InnerRoom
      /\ pages' = Over(pages, At(1, page)) /\ stage' = "written"
      /\ UNCHANGED <<objects, roots, next, level>>
  BY DEF MasterRoot, LevelDone, RootFits
<1>2. above \in Seq(Kid) /\ Len(above) > 0 /\ Len(above) - 1 \in Nat
  BY <1>1 DEF Invariant, LevelTyped
<1>3. Total(v) \in Int
  <2>1. \A i \in 1..(Len(above) - 1) : ChildCost(above[i]) \in Int
    <3>1. \A i \in 1..(Len(above) - 1) : above[i] \in Kid
      BY <1>2
    <3>2. \A c \in Kid : ChildCost(c) \in Int
      BY Sizes DEF Kid
    <3> QED BY <3>1, <3>2
  <2>2. Len(v) = Len(above) - 1 /\ \A i \in 1..(Len(above) - 1) : v[i] \in Int
    BY <1>2, <2>1
  <2> HIDE DEF v
  <2> QED BY <1>2, <2>2, TotalOfNumbers
<1>4. Fits(1, page)
  <2>1. PageBytes(page) = 12 + Total(v)
    BY <1>2, InteriorWeighs
  <2> HIDE DEF v
  <2>2. PageBytes(page) <= PageSize - DbHeader
    BY <1>1, <1>3, <2>1, PageAssumption DEF InnerRoom, Room, DbHeader
  <2> QED BY <2>2 DEF Fits
<1> HIDE DEF page
<1>5. Typed'
  BY <1>1 DEF Invariant, Typed, level
<1>6. AllFit'
  BY <1>1, <1>4, OneFits, OverFits DEF Invariant, AllFit
<1> QED BY <1>1, <1>5, <1>6, Idle

(* A level built becomes the input of the next, with nothing placed.       *)
LEMMA KeepsNextLevel == Invariant /\ NextLevel => Invariant'
<1> SUFFICES ASSUME Invariant, NextLevel PROVE Invariant'
  OBVIOUS
<1>1. /\ stage \in {"leaves", "inner"} /\ stage' = "inner" /\ OnLevel(above, <<>>)
      /\ UNCHANGED <<objects, roots, pages, next>>
  BY DEF NextLevel, LevelDone
<1>2. above \in Seq(Kid)
  BY <1>1 DEF Invariant, LevelTyped
<1>3. Typed' /\ AllFit'
  BY <1>1 DEF Invariant, Typed, AllFit, OnLevel
<1>4. LevelTyped' /\ Separated' /\ Filled'
  BY <1>1, <1>2, <1>3, LevelStarts
<1> QED BY <1>3, <1>4 DEF Invariant

-----------------------------------------------------------------------------
(* The levels of an index                                                  *)

(* A record of an index has a cost.                                        *)
LEMMA RecordCosts ==
  ASSUME NEW r \in Record
  PROVE  /\ 2 + IndexCellSize(r) \in Nat /\ 2 + IndexCellSize(r) <= PageSize - 8
         /\ 2 + 4 + IndexCellSize(r) \in Nat /\ 2 + 4 + IndexCellSize(r) <= PageSize - 12
<1>1. r.len \in Nat
  BY DEF Record
<1>2. IndexCellSize(r) \in Nat /\ 6 + IndexCellSize(r) <= PageSize - 12
  BY <1>1, Sizes
<1> QED BY <1>2, PageAssumption

(* A record is placed where the leaf has room for it.                      *)
LEMMA KeepsPlaceRecord == Invariant /\ PlaceRecord => Invariant'
<1> DEFINE cost == 2 + IndexCellSize(Upcoming)
<1> SUFFICES ASSUME Invariant, PlaceRecord PROVE Invariant'
  OBVIOUS
<1>1. /\ stage = "ileaves" /\ stage' = "ileaves" /\ Left /\ ~IndexLeafFull
      /\ taken' = taken + 1 /\ used' = used + 2 + IndexCellSize(Upcoming)
      /\ UNCHANGED <<objects, roots, pages, next, items, dividers, done, above, promoted>>
  BY DEF PlaceRecord
<1>2. /\ taken \in Nat /\ done \in Nat /\ used \in Nat
      /\ items \in Seq(Record) /\ done + taken <= Len(items) /\ done + taken + 1 \in 1..Len(items)
  BY <1>1 DEF Invariant, Typed, LevelTyped, Packing, Left
<1>3. \A i \in 1..(taken + 1) : done + i \in 1..Len(items) /\ items[done + i] \in Record
  BY <1>2
<1>4. \A i \in 1..(taken + 1) : RecordCost(i) \in Nat /\ RecordCost(i) <= PageSize - 8
  BY <1>3, RecordCosts DEF RecordCost
<1>5. RecordCost(taken + 1) = cost /\ cost \in Nat /\ cost <= PageSize - 8
  <2>1. done + taken + 1 = done + (taken + 1) /\ taken + 1 \in 1..(taken + 1)
    BY <1>2
  <2> QED BY <1>4, <2>1 DEF RecordCost, Upcoming
<1>6. used' = used + cost /\ used' \in Nat
  <2>1. IndexCellSize(Upcoming) \in Nat
    <3>1. Upcoming \in Record
      BY <1>2 DEF Upcoming
    <3> QED BY <3>1, Sizes DEF Record
  <2> QED BY <1>1, <1>2, <2>1
<1>7. Typed'
  BY <1>1, <1>6 DEF Invariant, Typed
<1>8. LevelTyped' /\ Separated'
  BY <1>1, <1>2 DEF Invariant, LevelTyped, Separated, Packing, Building
<1>9. Filled'
  <2> DEFINE v == [i \in 1..taken |-> RecordCost(i)]
             w == [i \in 1..(taken + 1) |-> RecordCost(i)]
  <2>1. Total(w) = Total(v) + RecordCost(taken + 1)
    <3>1. /\ Len(v) = taken /\ Len(w) = taken + 1 /\ w[taken + 1] = RecordCost(taken + 1)
          /\ \A k \in 1..taken : v[k] \in Int /\ w[k] = v[k]
      BY <1>2, <1>4
    <3> HIDE DEF v, w
    <3> QED BY <1>2, <3>1, TotalStep
  <2>2. used = Total(v)
    BY <1>1 DEF Invariant, Filled
  <2>3. Total(w) = used'
    BY <1>5, <1>6, <2>1, <2>2
  <2>4. (Total([i \in 1..taken |-> RecordCost(i)]))' = Total(w)
    <3>1. taken' = taken + 1 /\ \A i : RecordCost(i)' = RecordCost(i)
      BY <1>1 DEF RecordCost
    <3> QED BY <3>1
  <2>5. used' <= PageSize - 8
    <3>1. CASE taken > 0
      <4>1. ~ (used + cost > PageSize - 8)
        <5>1. used + 2 + IndexCellSize(Upcoming) = used + cost
          BY <1>1, <1>6
        <5> QED BY <1>1, <3>1, <5>1 DEF IndexLeafFull
      <4> QED BY <1>2, <1>5, <1>6, <4>1, PageAssumption
    <3>2. CASE taken = 0
      <4>1. Total(v) = 0
        BY <3>2, TotalOfNone
      <4> QED BY <1>5, <1>6, <2>2, <4>1
    <3> QED BY <1>2, <3>1, <3>2
  <2> HIDE DEF v, w
  <2> QED BY <1>1, <2>3, <2>4, <2>5 DEF Filled
<1>10. AllFit'
  BY <1>1 DEF Invariant, AllFit
<1> QED BY <1>7, <1>8, <1>9, <1>10 DEF Invariant

(* A divider is placed where the node has room for it.                     *)
LEMMA KeepsPlaceDivider == Invariant /\ PlaceDivider => Invariant'
<1> SUFFICES ASSUME Invariant, PlaceDivider PROVE Invariant'
  OBVIOUS
<1>1. /\ stage = "iinner" /\ stage' = "iinner" /\ DividerLeft /\ ~NodeFull
      /\ taken' = taken + 1 /\ used' = used + DividerCost
      /\ UNCHANGED <<objects, roots, pages, next, items, dividers, done, above, promoted>>
  BY DEF PlaceDivider
<1>2. /\ taken \in Nat /\ done \in Nat /\ used \in Nat
      /\ items \in Seq(Nat) /\ dividers \in Seq(Record) /\ Len(items) <= Len(dividers) + 1
      /\ done + taken < Len(items) - 1
  BY <1>1 DEF Invariant, Typed, LevelTyped, Separated, DividerLeft
<1>3. \A i \in 1..(taken + 1) : done + i \in 1..Len(dividers) /\ dividers[done + i] \in Record
  BY <1>2
<1>4. \A i \in 1..(taken + 1) : SeparatorCost(i) \in Nat /\ SeparatorCost(i) <= PageSize - 12
  BY <1>3, RecordCosts DEF SeparatorCost
<1>5. SeparatorCost(taken + 1) = DividerCost /\ DividerCost \in Nat /\ DividerCost <= PageSize - 12
  <2>1. done + taken + 1 = done + (taken + 1) /\ taken + 1 \in 1..(taken + 1)
    BY <1>2
  <2> QED BY <1>4, <2>1 DEF SeparatorCost, DividerCost
<1>6. Typed'
  BY <1>1, <1>5 DEF Invariant, Typed
<1>7. LevelTyped' /\ Separated'
  BY <1>1, <1>2 DEF Invariant, LevelTyped, Separated, Packing, Building
<1>8. Filled'
  <2> DEFINE v == [i \in 1..taken |-> SeparatorCost(i)]
             w == [i \in 1..(taken + 1) |-> SeparatorCost(i)]
  <2>1. Total(w) = Total(v) + SeparatorCost(taken + 1)
    <3>1. /\ Len(v) = taken /\ Len(w) = taken + 1 /\ w[taken + 1] = SeparatorCost(taken + 1)
          /\ \A k \in 1..taken : v[k] \in Int /\ w[k] = v[k]
      BY <1>2, <1>4
    <3> HIDE DEF v, w
    <3>2. Total(w) = Total(v) + w[taken + 1]
      BY <1>2, <3>1, TotalStep
    <3> QED BY <3>1, <3>2
  <2>2. used = Total(v)
    BY <1>1 DEF Invariant, Filled
  <2>3. Total(w) = used'
    BY <1>1, <1>5, <2>1, <2>2
  <2>4. (Total([i \in 1..taken |-> SeparatorCost(i)]))' = Total(w)
    <3>1. taken' = taken + 1 /\ \A i : SeparatorCost(i)' = SeparatorCost(i)
      BY <1>1 DEF SeparatorCost
    <3> QED BY <3>1
  <2>5. used' <= PageSize - 12
    <3>1. CASE taken > 0
      BY <1>1, <1>2, <1>5, <3>1, PageAssumption DEF NodeFull
    <3>2. CASE taken = 0
      <4>1. Total(v) = 0
        BY <3>2, TotalOfNone
      <4> QED BY <1>1, <1>5, <2>2, <4>1
    <3> QED BY <1>2, <3>1, <3>2
  <2> HIDE DEF v, w
  <2> QED BY <1>1, <2>3, <2>4, <2>5 DEF Filled
<1>9. AllFit'
  BY <1>1 DEF Invariant, AllFit
<1> QED BY <1>6, <1>7, <1>8, <1>9 DEF Invariant

(* A page of an index is closed: it fits, its chains lie before it, and    *)
(* what is promoted over it is a record.                                   *)
LEMMA IndexPageCloses ==
  ASSUME Invariant, stage \in {"ileaves", "iinner"}, NEW made, NEW page, NEW promotion \in Seq(Record),
         CloseIndexPage(made, page, promotion),
         made.next \in Nat, made.next >= next,
         \A p \in DOMAIN made.pages : Fits(p, made.pages[p]),
         Fits(made.next, page),
         done' \in Nat, done' <= Len(items),
         done' < Len(items) => done < Len(items) /\ Len(promotion) > 0,
         done < Len(items) \/ above = <<>>
  PROVE  Invariant'
<1>1. /\ pages' = Over(pages, Over(made.pages, At(made.next, page)))
      /\ next' = made.next + 1 /\ above' = Append(above, made.next)
      /\ promoted' = promoted \o promotion /\ taken' = 0 /\ used' = 0
      /\ UNCHANGED <<objects, roots, items, dividers, stage>>
  BY DEF CloseIndexPage
<1>2. Typed'
  BY <1>1 DEF Invariant, Typed
<1>3. /\ above \in Seq(Nat) /\ promoted \in Seq(Record) /\ Building
  BY DEF Invariant, LevelTyped
<1>4. /\ above' \in Seq(Nat) /\ Len(above') = Len(above) + 1
      /\ promoted' \in Seq(Record) /\ Len(promoted') = Len(promoted) + Len(promotion)
      /\ Len(above) \in Nat /\ Len(promoted) \in Nat /\ Len(promotion) \in Nat
  BY <1>1, <1>3
<1>5. LevelTyped'
  BY <1>1, <1>3, <1>4 DEF Invariant, LevelTyped, Packing, Building
<1>6. Separated'
  <2>1. /\ stage = "iinner" => Len(items) <= Len(dividers) + 1
        /\ done < Len(items) => Len(above) <= Len(promoted)
    BY DEF Invariant, Separated
  <2>2. Len(items) \in Nat /\ done \in Nat
    BY DEF Invariant, Typed, LevelTyped
  <2>3. Len(above) <= Len(promoted)
    BY <1>4, <2>1
  <2>4. Len(above') <= Len(promoted') + 1
    BY <1>4, <2>3
  <2>5. done' < Len(items) => Len(above') <= Len(promoted')
    BY <1>4, <2>3
  <2> QED BY <1>1, <2>1, <2>2, <2>4, <2>5 DEF Separated
<1>7. Filled'
  BY <1>1, NothingPlaced
<1>8. AllFit'
  <2>1. \A p \in DOMAIN Over(made.pages, At(made.next, page)) :
          Fits(p, Over(made.pages, At(made.next, page))[p])
    BY OneFits, OverFits
  <2> QED BY <1>1, <2>1, OverFits DEF Invariant, AllFit
<1> QED BY <1>2, <1>5, <1>6, <1>7, <1>8 DEF Invariant

(* Records are rows.                                                       *)
LEMMA RecordsAreRows == \A s \in Seq(Record) : s \in Seq(AnyRow)
<1>1. Record \subseteq AnyRow
  BY DEF AnyRow
<1> QED BY <1>1, Elements

(* An index without records has one empty leaf.                            *)
LEMMA KeepsEmptyIndexLeaf == Invariant /\ EmptyIndexLeaf => Invariant'
<1> DEFINE made == Cells(<<>>, IndexMaxLocal, next)
           page == [kind |-> "ileaf", cells |-> <<>>]
<1> SUFFICES ASSUME Invariant, EmptyIndexLeaf PROVE Invariant'
  OBVIOUS
<1>1. /\ stage = "ileaves" /\ items = <<>> /\ above = <<>> /\ done' = done
      /\ CloseIndexPage(made, page, <<>>)
  BY DEF EmptyIndexLeaf
<1>2. /\ made.next \in Nat /\ made.next >= next
      /\ \A p \in DOMAIN made.pages : Fits(p, made.pages[p])
  <2>1. <<>> \in Seq(AnyRow)
    OBVIOUS
  <2> QED BY <2>1, ChainsFit, Limits DEF Invariant, Typed
<1>3. Fits(made.next, page)
  <2>1. Len(Weights("ileaf", <<>>)) = 0
    BY DEF Weights
  <2>2. PageBytes(page) = 8 + Total(Weights("ileaf", <<>>))
    BY DEF PageBytes
  <2>3. PageBytes(page) = 8
    BY <2>1, <2>2, TotalOfNone
  <2> QED BY <2>3, PageAssumption DEF Fits, DbHeader
<1>4. done' \in Nat /\ done' <= Len(items) /\ ~ (done' < Len(items)) /\ <<>> \in Seq(Record)
  BY <1>1 DEF Invariant, Typed, LevelTyped, Packing
<1> HIDE DEF made, page
<1> QED BY <1>1, <1>2, <1>3, <1>4, IndexPageCloses

(* A leaf of an index is closed, and the next record promoted over it.     *)
LEMMA KeepsCloseIndexLeaf == Invariant /\ CloseIndexLeaf => Invariant'
<1> DEFINE made == Cells(OpenItems, IndexMaxLocal, next)
           page == [kind |-> "ileaf", cells |-> made.cells]
           promotion == IF Left THEN <<Upcoming>> ELSE <<>>
<1> SUFFICES ASSUME Invariant, CloseIndexLeaf PROVE Invariant'
  OBVIOUS
<1>1. /\ stage = "ileaves" /\ taken > 0 /\ CloseIndexPage(made, page, promotion)
      /\ done' = done + taken + (IF Left THEN 1 ELSE 0)
  BY DEF CloseIndexLeaf
<1>2. /\ OpenItems \in Seq(Record) /\ Len(OpenItems) = taken /\ DOMAIN OpenItems = 1..taken
      /\ \A i \in 1..taken : OpenItems[i] = items[done + i] /\ items[done + i] \in Record
  BY <1>1, OpenItemsAre DEF Invariant, LevelTyped, Packing
<1>3. /\ done \in Nat /\ taken \in Nat /\ used \in Nat /\ next \in Nat /\ next >= 2
      /\ items \in Seq(Record) /\ Len(items) \in Nat /\ done + taken <= Len(items)
  BY <1>1 DEF Invariant, Typed, LevelTyped, Packing
<1>4. /\ made.cells \in Seq(Cell) /\ Len(made.cells) = taken
      /\ \A k \in 1..taken : made.cells[k].row = OpenItems[k]
      /\ made.next \in Nat /\ made.next >= next
      /\ \A p \in DOMAIN made.pages : Fits(p, made.pages[p])
  <2>1. OpenItems \in Seq(AnyRow)
    BY <1>2, RecordsAreRows
  <2>2. /\ made.cells \in Seq(Cell) /\ Len(made.cells) = Len(OpenItems)
        /\ \A k \in 1..Len(OpenItems) : made.cells[k].row = OpenItems[k]
        /\ made.next \in Nat /\ made.next >= next
        /\ \A p \in DOMAIN made.pages : Fits(p, made.pages[p])
    BY <1>3, <2>1, ChainsFit, Limits
  <2> HIDE DEF made
  <2> QED BY <1>2, <2>2
<1>5. Fits(made.next, page)
  <2>1. DOMAIN made.cells = 1..taken
    BY <1>3, <1>4
  <2> HIDE DEF made
  <2>2. PageBytes(page) = 8 + Total(Weights("ileaf", made.cells))
    BY DEF PageBytes
  <2>3. Weights("ileaf", made.cells) = [i \in 1..taken |-> RecordCost(i)]
    BY <1>2, <1>4, <2>1, WeightOf DEF Weights, RecordCost
  <2>4. used = Total([i \in 1..taken |-> RecordCost(i)]) /\ used <= PageSize - 8
    BY <1>1 DEF Invariant, Filled
  <2>5. PageBytes(page) = 8 + used
    BY <2>2, <2>3, <2>4
  <2> HIDE DEF page
  <2> QED BY <1>3, <1>4, <2>4, <2>5, PageAssumption DEF Fits
<1>6. promotion \in Seq(Record) /\ done' \in Nat /\ done' <= Len(items)
      /\ (done' < Len(items) => done < Len(items) /\ Len(promotion) > 0)
      /\ done < Len(items)
  <2>1. CASE Left
    <3>1. Upcoming \in Record
      BY <1>3, <2>1 DEF Left, Upcoming
    <3> QED BY <1>1, <1>3, <2>1, <3>1 DEF Left
  <2>2. CASE ~Left
    BY <1>1, <1>3, <2>2 DEF Left
  <2> QED BY <2>1, <2>2
<1> HIDE DEF made, page, promotion
<1> QED BY <1>1, <1>4, <1>5, <1>6, IndexPageCloses

(* A node is closed over its dividers and one child more.                  *)
LEMMA KeepsCloseIndexNode == Invariant /\ CloseIndexNode => Invariant'
<1> DEFINE group == SubSeq(dividers, done + 1, done + taken)
           made == Cells(group, IndexMaxLocal, next)
           past == done + taken + 1
           cells == [i \in DOMAIN made.cells |-> WithChild(made.cells[i], items[done + i])]
           page == [kind |-> "iinode", right |-> items[past], cells |-> cells]
           promotion == IF past <= Len(dividers) THEN <<dividers[past]>> ELSE <<>>
<1> SUFFICES ASSUME Invariant, CloseIndexNode PROVE Invariant'
  OBVIOUS
<1>1. /\ stage = "iinner" /\ done < Len(items) /\ CloseIndexPage(made, page, promotion)
      /\ done' = past
  BY DEF CloseIndexNode
<1>2. /\ done \in Nat /\ taken \in Nat /\ used \in Nat /\ next \in Nat /\ next >= 2
      /\ items \in Seq(Nat) /\ dividers \in Seq(Record) /\ Len(items) \in Nat /\ Len(dividers) \in Nat
      /\ Len(items) <= Len(dividers) + 1 /\ done + taken < Len(items)
  BY <1>1 DEF Invariant, Typed, LevelTyped, Separated
<1>3. /\ group \in Seq(Record) /\ Len(group) = taken
      /\ \A i \in 1..taken : group[i] = dividers[done + i]
  <2>1. group = [i \in 1..taken |-> dividers[done + i]]
    BY <1>2
  <2>2. \A i \in 1..taken : dividers[done + i] \in Record
    BY <1>2
  <2> HIDE DEF group
  <2> QED BY <1>2, <2>1, <2>2
<1> HIDE DEF group
<1>4. /\ made.cells \in Seq(Cell) /\ Len(made.cells) = taken
      /\ \A k \in 1..taken : made.cells[k].row = group[k]
      /\ made.next \in Nat /\ made.next >= next
      /\ \A p \in DOMAIN made.pages : Fits(p, made.pages[p])
  <2>1. group \in Seq(AnyRow)
    BY <1>3, RecordsAreRows
  <2>2. /\ made.cells \in Seq(Cell) /\ Len(made.cells) = Len(group)
        /\ \A k \in 1..Len(group) : made.cells[k].row = group[k]
        /\ made.next \in Nat /\ made.next >= next
        /\ \A p \in DOMAIN made.pages : Fits(p, made.pages[p])
    <3>1. IndexMaxLocal \in Nat /\ MinLocal <= IndexMaxLocal /\ next \in Nat
      BY <1>2, Limits
    <3> QED BY <2>1, <3>1, ChainsFit
  <2> HIDE DEF made
  <2> QED BY <1>3, <2>2
<1> HIDE DEF made
<1>5. Fits(made.next, page)
  <2>1. DOMAIN made.cells = 1..taken
    BY <1>2, <1>4
  <2>2. DOMAIN cells = 1..taken /\ \A i \in 1..taken : cells[i].row = group[i]
    BY <1>4, <2>1 DEF WithChild
  <2> HIDE DEF cells
  <2>3. PageBytes(page) = 12 + Total(Weights("iinode", cells))
    BY DEF PageBytes
  <2>4. Weights("iinode", cells) = [i \in 1..taken |-> SeparatorCost(i)]
    BY <1>3, <2>2, WeightOf DEF Weights, SeparatorCost
  <2>5. used = Total([i \in 1..taken |-> SeparatorCost(i)]) /\ used <= PageSize - 12
    BY <1>1 DEF Invariant, Filled
  <2>6. PageBytes(page) = 12 + used
    BY <2>3, <2>4, <2>5
  <2> HIDE DEF page
  <2> QED BY <1>2, <1>4, <2>5, <2>6, PageAssumption DEF Fits
<1>6. promotion \in Seq(Record) /\ done' \in Nat /\ done' <= Len(items)
      /\ (done' < Len(items) => done < Len(items) /\ Len(promotion) > 0)
  <2>1. past \in Nat /\ past <= Len(items) /\ done' = past
    BY <1>1, <1>2
  <2>2. CASE past <= Len(dividers)
    <3>1. dividers[past] \in Record
      BY <1>2, <2>1, <2>2
    <3> QED BY <1>1, <1>2, <2>1, <2>2, <3>1
  <2>3. CASE ~ (past <= Len(dividers))
    BY <1>1, <1>2, <2>1, <2>3
  <2> QED BY <2>2, <2>3
<1> HIDE DEF page, promotion
<1> QED BY <1>1, <1>4, <1>5, <1>6, IndexPageCloses

(* The one page of an index level becomes a root.                          *)
LEMMA KeepsIndexRoot == Invariant /\ IndexRoot => Invariant'
<1> SUFFICES ASSUME Invariant, IndexRoot PROVE Invariant'
  OBVIOUS
<1>1. /\ stage \in {"ileaves", "iinner"} /\ Len(above) = 1 /\ stage' = "object"
      /\ roots' = Append(roots, above[1])
      /\ UNCHANGED <<objects, pages, next, level>>
  BY DEF IndexRoot, IndexLevelDone
<1>2. above[1] \in Nat /\ Building
  <2>1. above \in Seq(Nat) /\ Building
    BY <1>1 DEF Invariant, LevelTyped
  <2>2. 1 \in 1..Len(above)
    BY <1>1
  <2>3. \A i \in 1..Len(above) : above[i] \in Nat
    BY <2>1
  <2> QED BY <2>1, <2>2, <2>3
<1>3. Typed' /\ AllFit'
  BY <1>1, <1>2 DEF Invariant, Typed, AllFit, level, Building
<1> QED BY <1>1, <1>3, Idle

(* An index level built becomes the input of the next, under what it       *)
(* promoted.                                                               *)
LEMMA KeepsNextIndexLevel == Invariant /\ NextIndexLevel => Invariant'
<1> SUFFICES ASSUME Invariant, NextIndexLevel PROVE Invariant'
  OBVIOUS
<1>1. /\ stage \in {"ileaves", "iinner"} /\ stage' = "iinner" /\ OnLevel(above, promoted)
      /\ UNCHANGED <<objects, roots, pages, next>>
  BY DEF NextIndexLevel, IndexLevelDone
<1>2. /\ above \in Seq(Nat) /\ promoted \in Seq(Record) /\ Building'
      /\ Len(above) <= Len(promoted) + 1
  BY <1>1 DEF Invariant, LevelTyped, Separated, Building
<1>3. Typed' /\ AllFit'
  BY <1>1 DEF Invariant, Typed, AllFit, OnLevel
<1>4. LevelTyped' /\ Separated' /\ Filled'
  BY <1>1, <1>2, <1>3, LevelStarts
<1> QED BY <1>3, <1>4 DEF Invariant

-----------------------------------------------------------------------------
(* Every step keeps the invariant.                                         *)
LEMMA InvariantKept == Invariant /\ [Next]_vars => Invariant'
BY InvariantStutters, KeepsSchemaOnly, KeepsBeginTable, KeepsBeginIndex, KeepsMasterLeaf,
   KeepsEmptyLeaf, KeepsPlaceCell, KeepsCellTooLarge, KeepsCloseLeaf, KeepsPlaceChild,
   KeepsCloseInner, KeepsRootFound, KeepsMasterRoot, KeepsNextLevel, KeepsEmptyIndexLeaf,
   KeepsPlaceRecord, KeepsCloseIndexLeaf, KeepsPlaceDivider, KeepsCloseIndexNode, KeepsIndexRoot,
   KeepsNextIndexLevel DEF Next

(* Every state of every call of write_database satisfies the invariant.    *)
THEOREM Inductive == Spec => []Invariant
<1>1. Init => Invariant
  BY InvariantInit
<1>2. Invariant /\ [Next]_vars => Invariant'
  BY InvariantKept
<1> QED BY <1>1, <1>2, PTL DEF Spec

(* PagesFit: no page of any database has to hold more than its size.       *)
THEOREM PagesFitAlways == Spec => []PagesFit
<1>1. Invariant => PagesFit
  BY DEF Invariant, AllFit, Fits, PagesFit
<1> QED BY <1>1, Inductive, PTL

-----------------------------------------------------------------------------
(* Links                                                                   *)

(* Every page from 2 on below n is named, and by one link alone.           *)
OnceNamed(L, n) ==
  /\ \A l \in L : l[4] \in 2..(n - 1)
  /\ \A q \in 2..(n - 1) : \E l \in L : l[4] = q
  /\ \A l, m \in L : l[4] = m[4] => l = m

(* The links C name each page of start..(end - 1), and each once.          *)
Names(C, start, end) ==
  /\ \A l \in C : l[4] \in start..(end - 1)
  /\ \A q \in start..(end - 1) : \E l \in C : l[4] = q
  /\ \A l, m \in C : l[4] = m[4] => l = m

(* Links to new pages are added to those there are.                        *)
LEMMA Extends ==
  ASSUME NEW L, NEW C, NEW n \in Nat, NEW m \in Nat, 2 <= n, n <= m,
         OnceNamed(L, n), Names(C, n, m)
  PROVE  OnceNamed(L \cup C, m)
<1>1. \A l \in L \cup C : l[4] \in 2..(m - 1)
  BY DEF OnceNamed, Names
<1>2. \A q \in 2..(m - 1) : \E l \in L \cup C : l[4] = q
  <2> TAKE q \in 2..(m - 1)
  <2>1. q \in 2..(n - 1) \/ q \in n..(m - 1)
    OBVIOUS
  <2> QED BY <2>1 DEF OnceNamed, Names
<1>3. ASSUME NEW l \in L \cup C, NEW k \in L \cup C, l[4] = k[4]
      PROVE  l = k
  <2>1. \A a \in L, b \in C : a[4] # b[4]
    BY DEF OnceNamed, Names
  <2> QED BY <1>3, <2>1 DEF OnceNamed, Names
<1> QED BY <1>1, <1>2, <1>3 DEF OnceNamed

(* The links Gone give way to links from elsewhere to the same pages.      *)
LEMMA Exchanges ==
  ASSUME NEW Kept, NEW Gone, NEW Came, NEW n,
         OnceNamed(Kept \cup Gone, n), Kept \cap Gone = {},
         \A c \in Came : \E g \in Gone : c[4] = g[4],
         \A g \in Gone : \E c \in Came : c[4] = g[4],
         \A c, d \in Came : c[4] = d[4] => c = d
  PROVE  OnceNamed(Kept \cup Came, n)
<1>1. \A l \in Kept \cup Came : l[4] \in 2..(n - 1)
  BY DEF OnceNamed
<1>2. \A q \in 2..(n - 1) : \E l \in Kept \cup Came : l[4] = q
  <2> TAKE q \in 2..(n - 1)
  <2>1. PICK l \in Kept \cup Gone : l[4] = q
    BY DEF OnceNamed
  <2> QED BY <2>1
<1>3. \A a \in Kept, c \in Came : a[4] # c[4]
  <2> SUFFICES ASSUME NEW a \in Kept, NEW c \in Came, a[4] = c[4] PROVE FALSE
    OBVIOUS
  <2>1. PICK g \in Gone : c[4] = g[4]
    OBVIOUS
  <2>2. a = g
    BY <2>1 DEF OnceNamed
  <2> QED BY <2>2
<1>4. ASSUME NEW l \in Kept \cup Came, NEW k \in Kept \cup Came, l[4] = k[4]
      PROVE  l = k
  BY <1>3, <1>4 DEF OnceNamed
<1> QED BY <1>1, <1>2, <1>4 DEF OnceNamed

(* The chains of these rows: every page of theirs is named by its cell or   *)
(* by the page before it, and by no other.                                 *)
LEMMA ChainsLinked ==
  ASSUME NEW rows \in Seq(AnyRow), NEW max \in Nat, MinLocal <= max, NEW start \in Nat
  PROVE  LET made == Cells(rows, max, start)
             n == Len(rows)
             first(k) == made.cells[k].first
         IN  /\ \A p \in DOMAIN made.pages :
                  /\ IsOverflow(made.pages[p])
                  /\ \/ made.pages[p].next = 0
                     \/ made.pages[p].next = p + 1 /\ p + 1 \in DOMAIN made.pages
             /\ \A k \in 1..n : first(k) = 0 \/ first(k) \in DOMAIN made.pages
             /\ \A q \in DOMAIN made.pages :
                  \/ \E p \in DOMAIN made.pages : q = p + 1 /\ made.pages[p].next = q
                  \/ \E k \in 1..n : first(k) = q
             /\ \A k, j \in 1..n : first(k) = first(j) /\ first(k) # 0 => k = j
             /\ \A k \in 1..n, p \in DOMAIN made.pages :
                  first(k) = made.pages[p].next => first(k) = 0
<1> DEFINE made == Cells(rows, max, start)
           n == Len(rows)
           first(k) == made.cells[k].first
           step(k) == Spill(rows[k].len, max)
<1>0. PICK free : CellsAre(rows, max, start, free)
  BY CellsMade
<1>1.   /\ Sums(free, start, Spills(rows, max), n)
        /\ \A k \in 0..n : free[k] \in Nat /\ free[k] >= start
        /\ \A k \in 1..n : free[k] = free[k - 1] + step(k)
        /\ made.next = free[n]
        /\ made.cells = [k \in 1..n |->
             [row   |-> rows[k],
              local |-> LocalPayload(rows[k].len, max),
              first |-> IF step(k) = 0 THEN 0 ELSE free[k - 1]]]
        /\ DOMAIN made.pages = start..(made.next - 1)
        /\ \A p \in DOMAIN made.pages :
             /\ IsOverflow(made.pages[p])
             /\ made.pages[p].next = IF p + 1 < free[ChainOf(free, n, p)] THEN p + 1 ELSE 0
  BY <1>0 DEF CellsAre
<1>2. n \in Nat /\ \A k \in 1..n : step(k) \in Nat
  <2>1. n \in Nat /\ \A k \in 1..n : rows[k] \in AnyRow
    OBVIOUS
  <2>2. \A k \in 1..n : rows[k].len \in Nat
    BY <2>1, RowsMeasured
  <2> QED BY <2>1, <2>2, SpillIsNatural
<1>3. /\ free[0] = start
      /\ \A k \in 1..n : first(k) = IF step(k) = 0 THEN 0 ELSE free[k - 1]
  BY <1>1, <1>2 DEF Sums
<1> DEFINE D == DOMAIN made.pages
           In(p, k) == k \in 1..n /\ free[k - 1] <= p /\ p < free[k]
<1>4. D = start..(free[n] - 1)
  BY <1>1
<1> HIDE DEF step, made
<1>5. \A k, j \in 0..n : k <= j => free[k] <= free[j]
  BY <1>0, ChainsApart
<1>6. \A p \in D : \E k : In(p, k)
  <2>1. \A p \in D : \E k : OnChain(free, n, p, k)
    BY <1>0, ChainsApart DEF made
  <2> QED BY <2>1 DEF OnChain
<1>7. \A p \in D : \A k, j : In(p, k) /\ In(p, j) => k = j
  <2>1. \A p \in D : \A k, j : OnChain(free, n, p, k) /\ OnChain(free, n, p, j) => k = j
    BY <1>0, ChainsApart DEF made
  <2>2. \A p, k : In(p, k) => OnChain(free, n, p, k)
    BY DEF OnChain
  <2> HIDE DEF In, D, n
  <2> QED BY <2>1, <2>2
<1>8. \A p \in D : \A k : In(p, k) =>
        /\ IsOverflow(made.pages[p])
        /\ made.pages[p].next = IF p + 1 < free[k] THEN p + 1 ELSE 0
  <2> SUFFICES ASSUME NEW p \in D, NEW k, In(p, k)
               PROVE  /\ IsOverflow(made.pages[p])
                      /\ made.pages[p].next = IF p + 1 < free[k] THEN p + 1 ELSE 0
    OBVIOUS
  <2>1. ChainOf(free, n, p) = k
    BY <1>7 DEF ChainOf
  <2> QED BY <1>1, <2>1
<1>9. \A p \in D : \A k : In(p, k) /\ p + 1 < free[k] => p + 1 \in D /\ In(p + 1, k)
  <2> SUFFICES ASSUME NEW p \in D, NEW k, In(p, k), p + 1 < free[k]
               PROVE  p + 1 \in D /\ In(p + 1, k)
    OBVIOUS
  <2>1. k \in 0..n /\ n \in 0..n /\ k <= n /\ k - 1 \in 0..n
    BY <1>2
  <2>2. free[k] <= free[n] /\ free[k] \in Nat /\ free[n] \in Nat /\ free[k - 1] \in Nat
    BY <1>1, <1>5, <2>1
  <2> QED BY <1>4, <2>2
<1>10. \A k \in 1..n : first(k) # 0 =>
         first(k) = free[k - 1] /\ first(k) \in D /\ In(first(k), k)
  <2> SUFFICES ASSUME NEW k \in 1..n, first(k) # 0
               PROVE  first(k) = free[k - 1] /\ free[k - 1] \in D /\ In(free[k - 1], k)
    OBVIOUS
  <2>1. first(k) = free[k - 1] /\ step(k) # 0
    BY <1>3
  <2>2. k \in 0..n /\ n \in 0..n /\ k <= n /\ k - 1 \in 0..n
    BY <1>2
  <2>3. /\ free[k] <= free[n] /\ free[k] \in Nat /\ free[n] \in Nat /\ free[k - 1] \in Nat
        /\ free[k - 1] >= start
    BY <1>1, <1>5, <2>2
  <2>4. free[k] = free[k - 1] + step(k) /\ step(k) \in Nat
    BY <1>1, <1>2
  <2> QED BY <1>4, <2>1, <2>3, <2>4
<1>11. \A p \in D :
         /\ IsOverflow(made.pages[p])
         /\ \/ made.pages[p].next = 0
            \/ made.pages[p].next = p + 1 /\ p + 1 \in D
  BY <1>6, <1>8, <1>9
<1>12. \A q \in D : \/ \E p \in D : q = p + 1 /\ made.pages[p].next = q
                    \/ \E k \in 1..n : first(k) = q
  <2> TAKE q \in D
  <2>1. PICK k : In(q, k)
    BY <1>6
  <2>2. k - 1 \in 0..n /\ free[k - 1] \in Nat /\ free[k - 1] >= start /\ free[k] \in Nat /\ k \in 1..n
    <3>1. k \in 1..n
      BY <2>1
    <3> HIDE DEF n, D, In, first
    <3>2. k \in 0..n /\ k - 1 \in 0..n
      BY <1>2, <3>1
    <3> QED BY <1>1, <3>1, <3>2
  <2>3. CASE q = free[k - 1]
    <3>1. step(k) # 0
      BY <1>1, <2>1, <2>2, <2>3
    <3> QED BY <1>3, <2>2, <2>3, <3>1
  <2>4. CASE q # free[k - 1]
    <3>1. q \in Nat /\ q < free[k] /\ free[k - 1] <= q /\ start <= q /\ q <= free[n] - 1
          /\ free[n] \in Nat
      BY <1>1, <1>2, <1>4, <2>1
    <3>2. q - 1 \in start..(free[n] - 1) /\ free[k - 1] <= q - 1 /\ q - 1 < free[k]
          /\ (q - 1) + 1 = q
      <4> DEFINE low == free[k - 1]
                 high == free[k]
                 end == free[n]
      <4>1. low \in Nat /\ high \in Nat /\ end \in Nat /\ start \in Nat /\ q \in Nat
        BY <2>2, <3>1
      <4>2. q < high /\ low <= q /\ start <= low /\ start <= q /\ q <= end - 1 /\ q # low
        BY <2>2, <2>4, <3>1
      <4> SUFFICES q - 1 \in start..(end - 1) /\ low <= q - 1 /\ q - 1 < high /\ (q - 1) + 1 = q
        OBVIOUS
      <4> HIDE DEF low, high, end
      <4> QED BY <4>1, <4>2
    <3>3. q - 1 \in D /\ In(q - 1, k) /\ (q - 1) + 1 = q
      BY <1>4, <2>2, <3>2
    <3>4. made.pages[q - 1].next = q
      BY <1>8, <3>1, <3>3
    <3> QED BY <3>3, <3>4
  <2> QED BY <2>3, <2>4
<1>13. \A k, j \in 1..n : first(k) = first(j) /\ first(k) # 0 => k = j
  BY <1>7, <1>10
<1>14. \A k \in 1..n, p \in D : first(k) = made.pages[p].next => first(k) = 0
  <2> SUFFICES ASSUME NEW k \in 1..n, NEW p \in D, first(k) = made.pages[p].next, first(k) # 0
               PROVE  FALSE
    OBVIOUS
  <2>1. first(k) = free[k - 1] /\ first(k) \in D /\ In(first(k), k)
    BY <1>10
  <2>2. PICK j : In(p, j)
    BY <1>6
  <2>3. first(k) = p + 1 /\ p + 1 < free[j] /\ In(p + 1, j)
    BY <1>8, <1>9, <2>2
  <2>4. k = j
    BY <1>7, <2>1, <2>3
  <2>5. free[j - 1] <= p /\ free[j - 1] = p + 1 /\ p \in Nat
    BY <1>1, <1>2, <1>4, <2>1, <2>2, <2>3, <2>4
  <2> QED BY <2>5
<1> QED BY <1>3, <1>10, <1>11, <1>12, <1>13, <1>14 DEF made

(* The links of the pages of f.                                            *)
PageLinks(f) == UNION {LinksOf(p, f[p]) : p \in DOMAIN f}

(* What is not yet on a page is named from where it waits: t[i] at i.      *)
Named(tag, t, I) == {<<0, tag, i, t[i]>> : i \in I}

(* The same, from the places move[i] of a page, or of another list.        *)
Moved(p, tag, move, t, I) == {<<p, tag, move[i], t[i]>> : i \in I}

(* What t names at I passes from one place that names it to another.       *)
LEMMA Moves ==
  ASSUME NEW Kept, NEW n, NEW from, NEW t, NEW I, NEW p, NEW to, NEW move,
         OnceNamed(Kept \cup Named(from, t, I), n),
         \A l \in Kept : ~ (l[2] = from /\ l[3] \in I)
  PROVE  OnceNamed(Kept \cup Moved(p, to, move, t, I), n)
<1> DEFINE Gone == Named(from, t, I)
           Came == Moved(p, to, move, t, I)
<1>1. \A g \in Gone : \E i \in I : g = <<0, from, i, t[i]>> /\ g[2] = from /\ g[3] = i /\ g[4] = t[i]
  BY DEF Named
<1>2. \A c \in Came : \E i \in I : c = <<p, to, move[i], t[i]>> /\ c[4] = t[i]
  BY DEF Moved
<1>3. \A i \in I : \E g \in Gone : g[4] = t[i] /\ g[3] = i
  <2> TAKE i \in I
  <2>1. <<0, from, i, t[i]>> \in Gone
    BY DEF Named
  <2> QED BY <2>1
<1>4. \A i \in I : \E c \in Came : c[4] = t[i]
  <2> TAKE i \in I
  <2>1. <<p, to, move[i], t[i]>> \in Came
    BY DEF Moved
  <2> QED BY <2>1
<1> HIDE DEF Gone, Came
<1>5. OnceNamed(Kept \cup Gone, n)
  BY DEF Gone
<1>6. Kept \cap Gone = {}
  BY <1>1
<1>7. \A c \in Came : \E g \in Gone : c[4] = g[4]
  BY <1>2, <1>3
<1>8. \A g \in Gone : \E c \in Came : c[4] = g[4]
  BY <1>1, <1>4
<1>9. \A c, d \in Came : c[4] = d[4] => c = d
  <2> SUFFICES ASSUME NEW c \in Came, NEW d \in Came, c[4] = d[4] PROVE c = d
    OBVIOUS
  <2>1. PICK i \in I : c = <<p, to, move[i], t[i]>> /\ c[4] = t[i]
    BY <1>2
  <2>2. PICK j \in I : d = <<p, to, move[j], t[j]>> /\ d[4] = t[j]
    BY <1>2
  <2>3. PICK g \in Gone : g[4] = t[i] /\ g[3] = i
    BY <1>3
  <2>4. PICK h \in Gone : h[4] = t[j] /\ h[3] = j
    BY <1>3
  <2>5. g[4] = h[4]
    BY <2>1, <2>2, <2>3, <2>4
  <2>6. g = h
    BY <1>5, <2>5 DEF OnceNamed
  <2>7. i = j
    BY <2>3, <2>4, <2>6
  <2> QED BY <2>1, <2>2, <2>7
<1> QED BY <1>5, <1>6, <1>7, <1>8, <1>9, Exchanges DEF Came

(* One more page, one more link.                                           *)
LEMMA Adds ==
  ASSUME NEW L, NEW n \in Nat, 2 <= n, OnceNamed(L, n), NEW tag, NEW i
  PROVE  OnceNamed(L \cup {<<0, tag, i, n>>}, n + 1)
<1>1. Names({<<0, tag, i, n>>}, n, n + 1)
  BY DEF Names
<1> QED BY <1>1, Extends

(* The links of two lots of pages are those of either.                     *)
LEMMA PageLinksOver ==
  ASSUME NEW f, NEW g, DOMAIN f \cap DOMAIN g = {}
  PROVE  PageLinks(Over(f, g)) = PageLinks(f) \cup PageLinks(g)
<1>1. /\ DOMAIN Over(f, g) = DOMAIN f \cup DOMAIN g
      /\ \A p \in DOMAIN g : Over(f, g)[p] = g[p]
      /\ \A p \in DOMAIN f : Over(f, g)[p] = f[p]
  BY DEF Over
<1>2. \A l : l \in PageLinks(Over(f, g)) <=>
               \E p \in DOMAIN f \cup DOMAIN g : l \in LinksOf(p, Over(f, g)[p])
  BY <1>1 DEF PageLinks
<1>3. \A l : l \in PageLinks(f) \cup PageLinks(g) <=>
               \/ \E p \in DOMAIN f : l \in LinksOf(p, f[p])
               \/ \E p \in DOMAIN g : l \in LinksOf(p, g[p])
  BY DEF PageLinks
<1> QED BY <1>1, <1>2, <1>3

(* The links of one page.                                                  *)
LEMMA PageLinksAt ==
  ASSUME NEW p, NEW page
  PROVE  PageLinks(At(p, page)) = LinksOf(p, page)
<1>1. DOMAIN At(p, page) = {p} /\ At(p, page)[p] = page
  BY Single
<1> QED BY <1>1 DEF PageLinks

(* What a page names is a spill, a child or the next of a chain.           *)
LEMMA PageTags ==
  /\ \A p, page : \A l \in LinksOf(p, page) : l[2] \in {"spill", "child", "next"}
  /\ \A f : \A l \in PageLinks(f) : l[2] \in {"spill", "child", "next"}
<1>1. \A p, page : \A l \in LinksOf(p, page) : l[2] \in {"spill", "child", "next"}
  BY DEF LinksOf
<1> QED BY <1>1 DEF PageLinks

(* The chains of cells, with the cells' own links, name their pages.       *)
Chained(cells) == {i \in DOMAIN cells : cells[i].first # 0}
Firsts(cells) == [i \in DOMAIN cells |-> cells[i].first]
CellLinks(a, tag, cells) == {<<a, tag, i, cells[i].first>> : i \in Chained(cells)}

(* The chains of cells, with the cells' own links, name the pages made     *)
(* for them, each once.                                                    *)
LEMMA ChainsNamed ==
  ASSUME NEW rows \in Seq(AnyRow), NEW max \in Nat, MinLocal <= max, NEW start \in Nat, 2 <= start,
         NEW a, NEW tag
  PROVE  LET made == Cells(rows, max, start)
         IN  Names(PageLinks(made.pages) \cup CellLinks(a, tag, made.cells), start, made.next)
<1> DEFINE made == Cells(rows, max, start)
           n == Len(rows)
           D == DOMAIN made.pages
           first(k) == made.cells[k].first
           Own == PageLinks(made.pages)
           Cell1 == CellLinks(a, tag, made.cells)
<1>1. /\ \A p \in D :
           /\ IsOverflow(made.pages[p])
           /\ \/ made.pages[p].next = 0
              \/ made.pages[p].next = p + 1 /\ p + 1 \in D
      /\ \A k \in 1..n : first(k) = 0 \/ first(k) \in D
      /\ \A q \in D : \/ \E p \in D : q = p + 1 /\ made.pages[p].next = q
                      \/ \E k \in 1..n : first(k) = q
      /\ \A k, j \in 1..n : first(k) = first(j) /\ first(k) # 0 => k = j
      /\ \A k \in 1..n, p \in D : first(k) = made.pages[p].next => first(k) = 0
  BY ChainsLinked
<1>2. made.next \in Nat /\ D = start..(made.next - 1) /\ DOMAIN made.cells = 1..n
  BY ChainsFit
<1> HIDE DEF made, n
<1>3. \A l : l \in Own <=>
         \E p \in D : made.pages[p].next # 0 /\ l = <<p, "next", 0, made.pages[p].next>>
  <2>1. \A p \in D : made.pages[p].kind = "overflow"
    BY <1>1 DEF IsOverflow
  <2>2. \A p \in D : LinksOf(p, made.pages[p]) =
          IF made.pages[p].next # 0 THEN {<<p, "next", 0, made.pages[p].next>>} ELSE {}
    BY <2>1 DEF LinksOf
  <2> QED BY <2>2 DEF PageLinks
<1>4. \A l : l \in Cell1 <=> \E k \in 1..n : first(k) # 0 /\ l = <<a, tag, k, first(k)>>
  BY <1>2 DEF CellLinks, Chained
<1> HIDE DEF Own, Cell1, first
<1>5. \A l \in Own \cup Cell1 : l[4] \in D
  <2> SUFFICES ASSUME NEW l \in Own \cup Cell1 PROVE l[4] \in D
    OBVIOUS
  <2>1. CASE l \in Own
    <3>1. PICK p \in D : made.pages[p].next # 0 /\ l = <<p, "next", 0, made.pages[p].next>>
      BY <1>3, <2>1
    <3> QED BY <1>1, <3>1
  <2>2. CASE l \in Cell1
    <3>1. PICK k \in 1..n : first(k) # 0 /\ l = <<a, tag, k, first(k)>>
      BY <1>4, <2>2
    <3> QED BY <1>1, <3>1
  <2> QED BY <2>1, <2>2
<1>6. \A q \in D : \E l \in Own \cup Cell1 : l[4] = q
  <2> TAKE q \in D
  <2>1. q # 0 \/ q = 0
    OBVIOUS
  <2>2. CASE \E p \in D : q = p + 1 /\ made.pages[p].next = q
    <3>1. PICK p \in D : q = p + 1 /\ made.pages[p].next = q
      BY <2>2
    <3>2. q # 0
      BY <1>2, <3>1
    <3>3. <<p, "next", 0, q>> \in Own
      BY <1>3, <3>1, <3>2
    <3> QED BY <3>3
  <2>3. CASE \E k \in 1..n : first(k) = q
    <3>1. PICK k \in 1..n : first(k) = q
      BY <2>3
    <3>2. q # 0
      BY <1>2
    <3>3. <<a, tag, k, q>> \in Cell1
      BY <1>4, <3>1, <3>2
    <3> QED BY <3>3
  <2> QED BY <1>1, <2>2, <2>3
<1>7. \A l, m \in Own \cup Cell1 : l[4] = m[4] => l = m
  <2>1. \A l, m \in Own : l[4] = m[4] => l = m
    <3> SUFFICES ASSUME NEW l \in Own, NEW m \in Own, l[4] = m[4] PROVE l = m
      OBVIOUS
    <3>1. PICK p \in D : made.pages[p].next # 0 /\ l = <<p, "next", 0, made.pages[p].next>>
      BY <1>3
    <3>2. PICK q \in D : made.pages[q].next # 0 /\ m = <<q, "next", 0, made.pages[q].next>>
      BY <1>3
    <3>3. p + 1 = q + 1
      BY <1>1, <3>1, <3>2
    <3>4. p = q
      BY <1>2, <3>3
    <3> QED BY <3>1, <3>2, <3>4
  <2>2. \A l, m \in Cell1 : l[4] = m[4] => l = m
    <3> SUFFICES ASSUME NEW l \in Cell1, NEW m \in Cell1, l[4] = m[4] PROVE l = m
      OBVIOUS
    <3>1. PICK k \in 1..n : first(k) # 0 /\ l = <<a, tag, k, first(k)>>
      BY <1>4
    <3>2. PICK j \in 1..n : first(j) # 0 /\ m = <<a, tag, j, first(j)>>
      BY <1>4
    <3>3. k = j
      BY <1>1, <3>1, <3>2
    <3> QED BY <3>1, <3>2, <3>3
  <2>3. \A l \in Own, m \in Cell1 : l[4] # m[4]
    <3> SUFFICES ASSUME NEW l \in Own, NEW m \in Cell1, l[4] = m[4] PROVE FALSE
      OBVIOUS
    <3>1. PICK p \in D : made.pages[p].next # 0 /\ l = <<p, "next", 0, made.pages[p].next>>
      BY <1>3
    <3>2. PICK j \in 1..n : first(j) # 0 /\ m = <<a, tag, j, first(j)>>
      BY <1>4
    <3> QED BY <1>1, <3>1, <3>2
  <2> QED BY <2>1, <2>2, <2>3
<1>8. Names(Own \cup Cell1, start, made.next)
  BY <1>2, <1>5, <1>6, <1>7 DEF Names
<1> QED BY <1>8 DEF Own, Cell1, made

-----------------------------------------------------------------------------
(* Every page is used once                                                 *)

PagesOf(kids) == [i \in DOMAIN kids |-> kids[i].page]
Waiting == (done + 1)..Len(items)

(* The pages under the items that are on no closed page yet.               *)
Unplaced ==
  IF stage = "leaves" THEN Named("cell", Firsts(items), Waiting \cap Chained(items))
  ELSE IF stage = "inner" THEN Named("item", PagesOf(items), Waiting)
  ELSE IF stage = "iinner" THEN Named("item", items, Waiting)
  ELSE {}

(* The pages of the level being built.                                     *)
AboveLinks ==
  IF stage \in {"leaves", "inner"} THEN Named("above", PagesOf(above), DOMAIN above)
  ELSE IF stage \in {"ileaves", "iinner"} THEN Named("above", above, DOMAIN above)
  ELSE {}

AllLinks == PageLinks(pages) \cup RootLinks \cup Unplaced \cup AboveLinks

(* Until a cell is refused, every page is named once: by a page, as a root, *)
(* or by what is still to be placed.                                       *)
Linked == stage # "failed" => OnceNamed(AllLinks, next)

(* Pages are numbered without a gap; page 1 is written last of all.        *)
Numbered == DOMAIN pages = (IF stage = "written" THEN 1 ELSE 2)..(next - 1)

Wired == Linked /\ Numbered

(* A closed page takes over the links to its items, and is itself named by  *)
(* the level above.                                                        *)
LEMMA Closing ==
  ASSUME NEW P, NEW R, NEW A, NEW from, NEW to, NEW t, NEW I, NEW J, NEW move, NEW p, NEW i,
         NEW n \in Nat, 2 <= n, I \cap J = {},
         OnceNamed(P \cup R \cup Named(from, t, I \cup J) \cup A, n),
         \A l \in P \cup R \cup A : l[2] # from
  PROVE  OnceNamed((P \cup Moved(p, to, move, t, I)) \cup R \cup Named(from, t, J)
                     \cup (A \cup {<<0, "above", i, n>>}), n + 1)
<1> DEFINE Kept == P \cup R \cup A \cup Named(from, t, J)
<1>1. Named(from, t, I \cup J) = Named(from, t, I) \cup Named(from, t, J)
  BY DEF Named
<1>2. P \cup R \cup Named(from, t, I \cup J) \cup A = Kept \cup Named(from, t, I)
  BY <1>1
<1>3. \A l \in Kept : ~ (l[2] = from /\ l[3] \in I)
  <2>1. \A l \in Named(from, t, J) : l[3] \in J
    BY DEF Named
  <2> QED BY <2>1
<1> HIDE DEF Kept
<1>4. OnceNamed(Kept \cup Moved(p, to, move, t, I), n)
  <2>1. OnceNamed(Kept \cup Named(from, t, I), n)
    BY <1>2
  <2> QED BY <1>3, <2>1, Moves
<1> DEFINE Held == Kept \cup Moved(p, to, move, t, I)
<1>5. OnceNamed(Held \cup {<<0, "above", i, n>>}, n + 1)
  <2> HIDE DEF Held
  <2>1. OnceNamed(Held, n)
    BY <1>4 DEF Held
  <2> QED BY <2>1, Adds
<1>6. Held \cup {<<0, "above", i, n>>}
        = (P \cup Moved(p, to, move, t, I)) \cup R \cup Named(from, t, J)
            \cup (A \cup {<<0, "above", i, n>>})
  BY DEF Kept
<1> QED BY <1>5, <1>6

(* One more page on the level above is one more link.                      *)
LEMMA KidAppended ==
  ASSUME NEW kids \in Seq(Kid), NEW p \in Nat, NEW k \in Int
  PROVE  LET longer == Append(kids, [page |-> p, key |-> k])
         IN  Named("above", PagesOf(longer), DOMAIN longer)
               = Named("above", PagesOf(kids), DOMAIN kids) \cup {<<0, "above", Len(kids) + 1, p>>}
<1> DEFINE longer == Append(kids, [page |-> p, key |-> k])
           n == Len(kids)
<1>1. n \in Nat /\ DOMAIN kids = 1..n /\ DOMAIN longer = 1..(n + 1)
  BY DEF Kid
<1>2. \A i \in 1..n : longer[i] = kids[i]
  BY DEF Kid
<1>3. longer[n + 1].page = p
  BY DEF Kid
<1> HIDE DEF longer, n
<1>4. \A i \in 1..(n + 1) : PagesOf(longer)[i] = IF i = n + 1 THEN p ELSE PagesOf(kids)[i]
  <2> TAKE i \in 1..(n + 1)
  <2>1. i = n + 1 \/ i \in 1..n
    BY <1>1
  <2>2. n + 1 \notin 1..n
    BY <1>1
  <2> QED BY <1>1, <1>2, <1>3, <2>1, <2>2 DEF PagesOf
<1>5. 1..(n + 1) = 1..n \cup {n + 1} /\ n + 1 \notin 1..n
  BY <1>1
<1>6. Named("above", PagesOf(longer), 1..(n + 1))
        = Named("above", PagesOf(kids), 1..n) \cup {<<0, "above", n + 1, p>>}
  BY <1>4, <1>5 DEF Named
<1> QED BY <1>1, <1>6 DEF longer, n

(* The same of an index, whose levels are page numbers.                    *)
LEMMA PageAppended ==
  ASSUME NEW kids \in Seq(Nat), NEW p \in Nat
  PROVE  Named("above", Append(kids, p), DOMAIN Append(kids, p))
           = Named("above", kids, DOMAIN kids) \cup {<<0, "above", Len(kids) + 1, p>>}
<1> DEFINE longer == Append(kids, p)
           n == Len(kids)
<1>1. n \in Nat /\ DOMAIN kids = 1..n /\ DOMAIN longer = 1..(n + 1)
  OBVIOUS
<1>2. (\A i \in 1..n : longer[i] = kids[i]) /\ longer[n + 1] = p
  OBVIOUS
<1> HIDE DEF longer, n
<1>3. 1..(n + 1) = 1..n \cup {n + 1} /\ n + 1 \notin 1..n
  BY <1>1
<1>4. Named("above", longer, 1..(n + 1))
        = Named("above", kids, 1..n) \cup {<<0, "above", n + 1, p>>}
  BY <1>2, <1>3 DEF Named
<1> QED BY <1>1, <1>4 DEF longer, n

(* Pages added past the last one keep the numbering.                       *)
LEMMA PagesAdded ==
  ASSUME Invariant, Numbered, stage # "written", stage' # "written", NEW g, NEW m \in Nat,
         next <= m, DOMAIN g = next..(m - 1), pages' = Over(pages, g), next' = m
  PROVE  Numbered' /\ PageLinks(pages') = PageLinks(pages) \cup PageLinks(g)
<1>1. next \in Nat /\ next >= 2
  BY DEF Invariant, Typed
<1>2. DOMAIN pages = 2..(next - 1)
  BY DEF Numbered
<1>3. DOMAIN pages' = 2..(m - 1)
  <2>1. DOMAIN Over(pages, g) = DOMAIN pages \cup DOMAIN g
    BY DEF Over
  <2>2. 2..(next - 1) \cup next..(m - 1) = 2..(m - 1)
    BY <1>1
  <2> QED BY <1>2, <2>1, <2>2
<1>4. DOMAIN pages \cap DOMAIN g = {}
  BY <1>1, <1>2
<1> QED BY <1>3, <1>4, PageLinksOver DEF Numbered

(* No link of a page or of the level above has a tag of what waits.        *)
LEMMA OtherTags ==
  /\ \A l \in PageLinks(pages) \cup RootLinks \cup AboveLinks : l[2] \notin {"cell", "item"}
  /\ \A l \in PageLinks(pages) \cup RootLinks \cup Unplaced : l[2] # "above"
<1>1. \A l \in PageLinks(pages) : l[2] \in {"spill", "child", "next"}
  BY PageTags
<1>2. \A l \in RootLinks : l[2] = "root"
  BY DEF RootLinks
<1>3. \A l \in AboveLinks : l[2] = "above"
  BY DEF AboveLinks, Named
<1>4. \A l \in Unplaced : l[2] \in {"cell", "item"}
  BY DEF Unplaced, Named
<1> QED BY <1>1, <1>2, <1>3, <1>4

-----------------------------------------------------------------------------

(* The steps that name no other page than before                           *)

(* At first there is no page and no link.                                  *)
LEMMA WiredInit == Init => Wired
<1> SUFFICES ASSUME Init PROVE Wired
  OBVIOUS
<1>1. PageLinks(pages) = {} /\ RootLinks = {}
  BY DEF Init, PageLinks, RootLinks
<1>2. Unplaced = {} /\ AboveLinks = {}
  BY DEF Init, Unplaced, AboveLinks
<1>3. OnceNamed({}, 2)
  BY DEF OnceNamed
<1>4. AllLinks = {} /\ next = 2
  BY <1>1, <1>2 DEF AllLinks, Init
<1>5. DOMAIN pages = 2..(next - 1)
  BY DEF Init
<1> QED BY <1>3, <1>4, <1>5 DEF Wired, Linked, Numbered, Init

(* A step that moves no link and makes no page loses none.                 *)
LEMMA WiresRest ==
  ASSUME Wired, pages' = pages, next' = next, RootLinks' = RootLinks,
         stage # "failed", stage # "written", stage' # "written",
         stage' # "failed" => Unplaced' = Unplaced /\ AboveLinks' = AboveLinks
  PROVE  Wired'
<1>1. Numbered'
  BY DEF Wired, Numbered
<1>2. stage' # "failed" => AllLinks' = AllLinks
  BY DEF AllLinks
<1>3. Linked'
  BY <1>2 DEF Wired, Linked
<1> QED BY <1>1, <1>3 DEF Wired

(* Nothing changed, nothing lost.                                          *)
LEMMA WiresStutter == Wired /\ UNCHANGED vars => Wired'
BY DEF Wired, Linked, Numbered, AllLinks, Unplaced, AboveLinks, RootLinks, Waiting, vars, level

(* An item on the open page still waits there.                             *)
LEMMA WiresPlace ==
  ASSUME Wired, PlaceCell \/ PlaceChild \/ PlaceRecord \/ PlaceDivider
  PROVE  Wired'
<1>1. /\ UNCHANGED <<objects, roots, pages, next, items, dividers, done, above, promoted, stage>>
      /\ stage \in {"leaves", "inner", "ileaves", "iinner"}
  BY DEF PlaceCell, PlaceChild, PlaceRecord, PlaceDivider
<1>2. RootLinks' = RootLinks /\ Unplaced' = Unplaced /\ AboveLinks' = AboveLinks
  BY <1>1 DEF RootLinks, Unplaced, AboveLinks, Waiting
<1> QED BY <1>1, <1>2, WiresRest

(* A refusal names nothing.                                                *)
LEMMA WiresCellTooLarge == Wired /\ CellTooLarge => Wired'
<1> SUFFICES ASSUME Wired, CellTooLarge PROVE Wired'
  OBVIOUS
<1>1. pages' = pages /\ next' = next /\ roots' = roots /\ stage = "leaves" /\ stage' = "failed"
  BY DEF CellTooLarge
<1>2. RootLinks' = RootLinks
  BY <1>1 DEF RootLinks
<1> QED BY <1>1, <1>2, WiresRest

(* A root that is a page is one more link; 0 is none.                      *)
LEMMA RootAppended ==
  ASSUME NEW r \in Nat, roots \in Seq(Nat), roots' = Append(roots, r)
  PROVE  RootLinks' = RootLinks \cup (IF r # 0 THEN {<<0, "root", Len(roots) + 1, r>>} ELSE {})
<1> DEFINE n == Len(roots)
<1>1. n \in Nat /\ DOMAIN roots = 1..n /\ DOMAIN roots' = 1..(n + 1)
  OBVIOUS
<1>2. (\A i \in 1..n : roots'[i] = roots[i]) /\ roots'[n + 1] = r
  OBVIOUS
<1> HIDE DEF n
<1>3. 1..(n + 1) = 1..n \cup {n + 1} /\ n + 1 \notin 1..n
  BY <1>1
<1>4. \A l : l \in RootLinks' <=> \E i \in 1..(n + 1) : roots'[i] # 0 /\ l = <<0, "root", i, roots'[i]>>
  BY <1>1 DEF RootLinks
<1>5. \A l : l \in RootLinks <=> \E i \in 1..n : roots[i] # 0 /\ l = <<0, "root", i, roots[i]>>
  BY <1>1 DEF RootLinks
<1>6. \A l : l \in RootLinks' <=> l \in RootLinks \/ (r # 0 /\ l = <<0, "root", n + 1, r>>)
  <2> SUFFICES ASSUME NEW l
               PROVE  l \in RootLinks' <=> l \in RootLinks \/ (r # 0 /\ l = <<0, "root", n + 1, r>>)
    OBVIOUS
  <2>1. ASSUME l \in RootLinks' PROVE l \in RootLinks \/ (r # 0 /\ l = <<0, "root", n + 1, r>>)
    <3>1. PICK i \in 1..(n + 1) : roots'[i] # 0 /\ l = <<0, "root", i, roots'[i]>>
      BY <1>4, <2>1
    <3> QED BY <1>2, <1>3, <1>5, <3>1
  <2>2. ASSUME l \in RootLinks PROVE l \in RootLinks'
    <3>1. PICK i \in 1..n : roots[i] # 0 /\ l = <<0, "root", i, roots[i]>>
      BY <1>5, <2>2
    <3> QED BY <1>2, <1>3, <1>4, <3>1
  <2>3. ASSUME r # 0, l = <<0, "root", n + 1, r>> PROVE l \in RootLinks'
    BY <1>2, <1>3, <1>4, <2>3
  <2> QED BY <2>1, <2>2, <2>3
<1>7. RootLinks' = RootLinks \cup (IF r # 0 THEN {<<0, "root", n + 1, r>>} ELSE {})
  BY <1>6
<1> QED BY <1>7 DEF n

(* An object without pages adds no root.                                   *)
LEMMA WiresSchemaOnly == Invariant /\ Wired /\ SchemaOnly => Wired'
<1> SUFFICES ASSUME Invariant, Wired, SchemaOnly PROVE Wired'
  OBVIOUS
<1>1. /\ pages' = pages /\ next' = next /\ stage = "object" /\ stage' = "object"
      /\ roots' = Append(roots, 0)
  BY DEF SchemaOnly
<1>2. roots \in Seq(Nat) /\ 0 \in Nat
  BY DEF Invariant, Typed
<1>3. RootLinks' = RootLinks
  BY <1>1, <1>2, RootAppended
<1>4. Unplaced' = Unplaced /\ AboveLinks' = AboveLinks
  BY <1>1 DEF Unplaced, AboveLinks
<1> QED BY <1>1, <1>3, <1>4, WiresRest

(* The records of an index have no pages yet.                              *)
LEMMA WiresBeginIndex == Wired /\ BeginIndex => Wired'
<1> SUFFICES ASSUME Wired, BeginIndex PROVE Wired'
  OBVIOUS
<1>1. /\ pages' = pages /\ next' = next /\ roots' = roots /\ stage = "object" /\ stage' = "ileaves"
      /\ above' = <<>>
  BY DEF BeginIndex, OnLevel
<1>2. RootLinks' = RootLinks
  BY <1>1 DEF RootLinks
<1>3. Unplaced' = {} /\ Unplaced = {} /\ AboveLinks = {} /\ AboveLinks' = {}
  BY <1>1 DEF Unplaced, AboveLinks, Named
<1> QED BY <1>1, <1>2, <1>3, WiresRest

-----------------------------------------------------------------------------
(* The steps that make cells with their chains                             *)

(* The cells of a table are waiting to be placed as soon as they are made.  *)
LEMMA WiresBeginTable == Invariant /\ Wired /\ BeginTable => Wired'
<1> SUFFICES ASSUME Invariant, Wired, BeginTable PROVE Wired'
  OBVIOUS
<1> DEFINE rows == IF Building THEN This.rows ELSE MasterRows
           made == TreeCells(rows)
<1>1. /\ stage = "object" /\ stage' = "leaves" /\ roots' = roots
      /\ items' = made.cells /\ done' = 0 /\ above' = <<>>
      /\ pages' = Over(pages, made.pages) /\ next' = made.next
  BY DEF BeginTable, OnLevel
<1>2. rows \in Seq(AnyRow) /\ next \in Nat /\ next >= 2
  BY ThisRowsTyped DEF Invariant, Typed, BeginTable
<1>3. made = Cells(rows, TableMaxLocal, next) /\ TableMaxLocal \in Nat /\ MinLocal <= TableMaxLocal
  BY Limits DEF TreeCells
<1> HIDE DEF rows, made
<1>4. /\ made.next \in Nat /\ made.next >= next /\ DOMAIN made.pages = next..(made.next - 1)
      /\ made.cells \in Seq(Cell)
  BY <1>2, <1>3, ChainsFit
<1>5. Names(PageLinks(made.pages) \cup CellLinks(0, "cell", made.cells), next, made.next)
  BY <1>2, <1>3, ChainsNamed
<1>6. Numbered' /\ PageLinks(pages') = PageLinks(pages) \cup PageLinks(made.pages)
  BY <1>1, <1>4, PagesAdded DEF Wired
<1>7. RootLinks' = RootLinks /\ Unplaced = {} /\ AboveLinks = {} /\ AboveLinks' = {}
  BY <1>1 DEF RootLinks, Unplaced, AboveLinks, Named
<1>8. Unplaced' = CellLinks(0, "cell", made.cells)
  <2>1. Waiting' \cap Chained(items') = Chained(made.cells)
    <3>1. DOMAIN made.cells = 1..Len(made.cells) /\ Len(made.cells) \in Nat
      BY <1>4
    <3> QED BY <1>1, <3>1 DEF Waiting, Chained
  <2>2. Named("cell", Firsts(made.cells), Chained(made.cells)) = CellLinks(0, "cell", made.cells)
    BY DEF Named, CellLinks, Firsts, Chained
  <2> QED BY <1>1, <2>1, <2>2 DEF Unplaced
<1>9. OnceNamed(AllLinks, next)
  BY <1>1 DEF Wired, Linked
<1>10. OnceNamed(AllLinks \cup (PageLinks(made.pages) \cup CellLinks(0, "cell", made.cells)), made.next)
  BY <1>2, <1>4, <1>5, <1>9, Extends
<1>11. AllLinks' = AllLinks \cup (PageLinks(made.pages) \cup CellLinks(0, "cell", made.cells))
  BY <1>6, <1>7, <1>8 DEF AllLinks
<1> QED BY <1>1, <1>6, <1>10, <1>11 DEF Wired, Linked

(* sqlite_master on page 1: its cells are placed at once.                  *)
LEMMA WiresMasterLeaf == Invariant /\ Wired /\ MasterLeaf => Wired'
<1> SUFFICES ASSUME Invariant, Wired, MasterLeaf PROVE Wired'
  OBVIOUS
<1> DEFINE made == TreeCells(MasterRows)
           leaf == [kind |-> "leaf", cells |-> made.cells]
<1>1. /\ stage = "object" /\ stage' = "written" /\ roots' = roots
      /\ pages' = Over(pages, Over(made.pages, At(1, leaf))) /\ next' = made.next
  BY DEF MasterLeaf
<1>2. MasterRows \in Seq(AnyRow) /\ next \in Nat /\ next >= 2
  BY MasterRowsTyped, RecordsAreRows DEF Invariant, Typed, MasterLeaf, AnyRow
<1>3. made = Cells(MasterRows, TableMaxLocal, next) /\ TableMaxLocal \in Nat /\ MinLocal <= TableMaxLocal
  BY Limits DEF TreeCells
<1> HIDE DEF made
<1>4. /\ made.next \in Nat /\ made.next >= next /\ DOMAIN made.pages = next..(made.next - 1)
      /\ made.cells \in Seq(Cell)
  BY <1>2, <1>3, ChainsFit
<1>5. Names(PageLinks(made.pages) \cup CellLinks(1, "spill", made.cells), next, made.next)
  BY <1>2, <1>3, ChainsNamed
<1>6. DOMAIN pages = 2..(next - 1)
  BY <1>1 DEF Wired, Numbered
<1>7. DOMAIN Over(made.pages, At(1, leaf)) = DOMAIN made.pages \cup {1} /\ DOMAIN At(1, leaf) = {1}
  BY DEF Over, At
<1>8. /\ DOMAIN made.pages \cap DOMAIN At(1, leaf) = {}
      /\ DOMAIN pages \cap DOMAIN Over(made.pages, At(1, leaf)) = {}
  BY <1>2, <1>4, <1>6, <1>7
<1>9. PageLinks(pages') = PageLinks(pages) \cup PageLinks(made.pages) \cup LinksOf(1, leaf)
  <2>1. PageLinks(pages') = PageLinks(pages) \cup PageLinks(Over(made.pages, At(1, leaf)))
    BY <1>1, <1>8, PageLinksOver
  <2>2. PageLinks(Over(made.pages, At(1, leaf))) = PageLinks(made.pages) \cup PageLinks(At(1, leaf))
    BY <1>8, PageLinksOver
  <2> QED BY <2>1, <2>2, PageLinksAt
<1>10. DOMAIN pages' = 1..(made.next - 1)
  <2>1. DOMAIN pages' = DOMAIN pages \cup DOMAIN Over(made.pages, At(1, leaf))
    BY <1>1, OverKeeps
  <2> QED BY <1>2, <1>4, <1>6, <1>7, <2>1
<1>11. LinksOf(1, leaf) = CellLinks(1, "spill", made.cells)
  BY DEF LinksOf, CellLinks, Chained
<1> HIDE DEF leaf
<1>12. RootLinks' = RootLinks /\ Unplaced = {} /\ AboveLinks = {} /\ AboveLinks' = {} /\ Unplaced' = {}
  BY <1>1 DEF RootLinks, Unplaced, AboveLinks
<1>13. OnceNamed(AllLinks, next)
  BY <1>1 DEF Wired, Linked
<1>14. OnceNamed(AllLinks \cup (PageLinks(made.pages) \cup CellLinks(1, "spill", made.cells)), made.next)
  BY <1>2, <1>4, <1>5, <1>13, Extends
<1>15. AllLinks' = AllLinks \cup (PageLinks(made.pages) \cup CellLinks(1, "spill", made.cells))
  BY <1>9, <1>11, <1>12 DEF AllLinks
<1> QED BY <1>1, <1>10, <1>14, <1>15 DEF Wired, Linked, Numbered

-----------------------------------------------------------------------------

(* The steps that close a page                                             *)

(* A page of a table takes over the links to the items I of the level; the *)
(* items J still wait.                                                     *)
LEMMA Packs ==
  ASSUME Invariant, Wired, stage \in {"leaves", "inner"}, NEW page, NEW key \in Int,
         Close(page, key), roots' = roots, stage' = stage,
         NEW from, NEW to, NEW t, NEW I, NEW J, NEW move, from \in {"cell", "item"}, I \cap J = {},
         Unplaced = Named(from, t, I \cup J), Unplaced' = Named(from, t, J),
         LinksOf(next, page) = Moved(next, to, move, t, I)
  PROVE  Wired'
<1>1. /\ pages' = Over(pages, At(next, page)) /\ next' = next + 1
      /\ above' = Append(above, [page |-> next, key |-> key])
  BY DEF Close
<1>2. next \in Nat /\ next >= 2 /\ above \in Seq(Kid)
  BY DEF Invariant, Typed, LevelTyped
<1>3. Numbered' /\ PageLinks(pages') = PageLinks(pages) \cup LinksOf(next, page)
  <2>1. DOMAIN At(next, page) = next..((next + 1) - 1)
    BY <1>2 DEF At
  <2>2. Numbered' /\ PageLinks(pages') = PageLinks(pages) \cup PageLinks(At(next, page))
    <3> DEFINE g == At(next, page)
               m == next + 1
    <3>1. /\ DOMAIN g = next..(m - 1) /\ pages' = Over(pages, g) /\ next' = m
          /\ m \in Nat /\ next <= m /\ stage # "written" /\ stage' # "written" /\ Numbered
      BY <1>1, <1>2, <2>1 DEF Wired
    <3> HIDE DEF g, m
    <3>2. Numbered' /\ PageLinks(pages') = PageLinks(pages) \cup PageLinks(g)
      BY <3>1, PagesAdded
    <3> QED BY <3>2 DEF g
  <2> QED BY <2>2, PageLinksAt
<1>4. AboveLinks' = AboveLinks \cup {<<0, "above", Len(above) + 1, next>>}
  <2>1. /\ AboveLinks = Named("above", PagesOf(above), DOMAIN above)
        /\ AboveLinks' = Named("above", PagesOf(above'), DOMAIN above')
    BY DEF AboveLinks
  <2> QED BY <1>1, <1>2, <2>1, KidAppended
<1>5. RootLinks' = RootLinks
  BY DEF RootLinks
<1>6. OnceNamed(PageLinks(pages) \cup RootLinks \cup Named(from, t, I \cup J) \cup AboveLinks, next)
  BY DEF Wired, Linked, AllLinks
<1>7. \A l \in PageLinks(pages) \cup RootLinks \cup AboveLinks : l[2] # from
  BY OtherTags
<1>8. OnceNamed((PageLinks(pages) \cup Moved(next, to, move, t, I)) \cup RootLinks \cup Named(from, t, J)
                  \cup (AboveLinks \cup {<<0, "above", Len(above) + 1, next>>}), next + 1)
  BY <1>2, <1>6, <1>7, Closing
<1>9. AllLinks' = (PageLinks(pages) \cup Moved(next, to, move, t, I)) \cup RootLinks \cup Named(from, t, J)
                    \cup (AboveLinks \cup {<<0, "above", Len(above) + 1, next>>})
  BY <1>3, <1>4, <1>5 DEF AllLinks
<1> QED BY <1>1, <1>3, <1>8, <1>9 DEF Wired, Linked

(* An empty leaf takes over nothing.                                       *)
LEMMA WiresEmptyLeaf == Invariant /\ Wired /\ EmptyLeaf => Wired'
<1> DEFINE page == [kind |-> "leaf", cells |-> <<>>]
           t == Firsts(items)
           I == {}
           move == <<>>
<1> SUFFICES ASSUME Invariant, Wired, EmptyLeaf PROVE Wired'
  OBVIOUS
<1>1. /\ stage = "leaves" /\ stage' = stage /\ roots' = roots /\ items = <<>> /\ items' = items
      /\ Close(page, 0)
  BY DEF EmptyLeaf
<1>2. Unplaced = Named("cell", t, I \cup I) /\ Unplaced' = Named("cell", t, I)
  <2>1. Chained(items) = {} /\ Chained(items') = {}
    BY <1>1 DEF Chained
  <2> QED BY <1>1, <2>1 DEF Unplaced
<1>3. LinksOf(next, page) = Moved(next, "spill", move, t, I)
  BY DEF LinksOf, Moved
<1>4. I \cap I = {} /\ 0 \in Int
  OBVIOUS
<1> HIDE DEF page, t, I, move
<1> QED BY <1>1, <1>2, <1>3, <1>4, Packs

(* What waits splits into what the page takes and what is left.            *)
LEMMA WaitingSplits ==
  ASSUME Typed, NEW past \in Nat, done <= past, past <= Len(items), Len(items) \in Nat
  PROVE  /\ Waiting = (done + 1)..past \cup (past + 1)..Len(items)
         /\ (done + 1)..past \cap (past + 1)..Len(items) = {}
BY DEF Typed, Waiting

(* A leaf takes over the chains of the cells on it, in their order.        *)
LEMMA WiresCloseLeaf == Invariant /\ Wired /\ CloseLeaf => Wired'
<1> DEFINE page == [kind |-> "leaf", cells |-> OpenItems]
           key == items[done + taken].row.key
           past == done + taken
           t == Firsts(items)
           I == (done + 1)..past \cap Chained(items)
           J == (past + 1)..Len(items) \cap Chained(items)
           move == [i \in Int |-> i - done]
<1> SUFFICES ASSUME Invariant, Wired, CloseLeaf PROVE Wired'
  OBVIOUS
<1>1. /\ stage = "leaves" /\ stage' = stage /\ roots' = roots /\ items' = items
      /\ taken > 0 /\ done' = past /\ Close(page, key)
  BY DEF CloseLeaf, Close
<1>2. /\ OpenItems \in Seq(Cell) /\ Len(OpenItems) = taken /\ DOMAIN OpenItems = 1..taken
      /\ \A i \in 1..taken : OpenItems[i] = items[done + i] /\ items[done + i] \in Cell
  BY <1>1, OpenItemsAre DEF Invariant, LevelTyped, Packing
<1>3. key \in Int
  <2>1. items[done + taken] \in Cell
    BY <1>1, <1>2 DEF Invariant, Typed
  <2>2. items[done + taken].row \in AnyRow
    BY <2>1 DEF Cell
  <2> QED BY <2>2, RowsMeasured
<1>4. /\ done \in Nat /\ taken \in Nat /\ past \in Nat /\ done <= past /\ past <= Len(items)
      /\ Len(items) \in Nat /\ DOMAIN items = 1..Len(items)
  BY <1>1 DEF Invariant, Typed, LevelTyped, Packing
<1>5. Waiting \cap Chained(items) = I \cup J /\ I \cap J = {} /\ Waiting' \cap Chained(items') = J
  <2>1. /\ Waiting = (done + 1)..past \cup (past + 1)..Len(items)
        /\ (done + 1)..past \cap (past + 1)..Len(items) = {}
    BY <1>4, WaitingSplits DEF Invariant
  <2>2. Waiting' = (past + 1)..Len(items)
    BY <1>1 DEF Waiting
  <2> QED BY <1>1, <2>1, <2>2
<1>6. Unplaced = Named("cell", t, I \cup J) /\ Unplaced' = Named("cell", t, J)
  BY <1>1, <1>5 DEF Unplaced
<1>7. LinksOf(next, page) = Moved(next, "spill", move, t, I)
  <2>1. \A l : l \in LinksOf(next, page) <=>
          \E i \in 1..taken : OpenItems[i].first # 0 /\ l = <<next, "spill", i, OpenItems[i].first>>
    BY <1>2 DEF LinksOf
  <2>2. \A l : l \in Moved(next, "spill", move, t, I) <=>
          \E j \in I : l = <<next, "spill", move[j], t[j]>>
    BY DEF Moved
  <2>3. \A j \in I : /\ j - done \in 1..taken /\ move[j] = j - done /\ done + (j - done) = j
                     /\ t[j] = items[j].first /\ t[j] # 0
    BY <1>4 DEF Chained, Firsts
  <2>4. \A i \in 1..taken : OpenItems[i].first # 0 =>
          done + i \in I /\ move[done + i] = i /\ t[done + i] = OpenItems[i].first
    BY <1>2, <1>4 DEF Chained, Firsts
  <2>5. \A j \in I : OpenItems[j - done].first = t[j]
    BY <1>2, <2>3
  <2> HIDE DEF page, t, I, move
  <2>6. ASSUME NEW l, l \in LinksOf(next, page) PROVE l \in Moved(next, "spill", move, t, I)
    BY <2>1, <2>2, <2>4, <2>6
  <2>7. ASSUME NEW l, l \in Moved(next, "spill", move, t, I) PROVE l \in LinksOf(next, page)
    <3>1. PICK j \in I : l = <<next, "spill", move[j], t[j]>>
      BY <2>2, <2>7
    <3>2. l = <<next, "spill", j - done, OpenItems[j - done].first>> /\ OpenItems[j - done].first # 0
      BY <2>3, <2>5, <3>1
    <3> QED BY <2>1, <2>3, <3>2
  <2> QED BY <2>6, <2>7
<1> HIDE DEF page, key, t, I, J, move
<1> QED BY <1>1, <1>3, <1>5, <1>6, <1>7, Packs

(* An interior page takes over its children, the last as its right-most    *)
(* pointer.                                                                *)
LEMMA WiresCloseInner == Invariant /\ Wired /\ CloseInner => Wired'
<1> DEFINE page == Interior(OpenItems)
           key == Last(OpenItems).key
           past == done + taken
           t == PagesOf(items)
           I == (done + 1)..past
           J == (past + 1)..Len(items)
           move == [i \in Int |-> IF i = past THEN 0 ELSE i - done]
<1> SUFFICES ASSUME Invariant, Wired, CloseInner PROVE Wired'
  OBVIOUS
<1>1. /\ stage = "inner" /\ stage' = stage /\ roots' = roots /\ items' = items
      /\ taken > 0 /\ done' = past /\ Close(page, key)
  BY DEF CloseInner, Close
<1>2. /\ OpenItems \in Seq(Kid) /\ Len(OpenItems) = taken /\ DOMAIN OpenItems = 1..taken
      /\ \A i \in 1..taken : OpenItems[i] = items[done + i] /\ items[done + i] \in Kid
  BY <1>1, OpenItemsAre DEF Invariant, LevelTyped, Packing
<1>3. /\ done \in Nat /\ taken \in Nat /\ past \in Nat /\ done <= past /\ past <= Len(items)
      /\ Len(items) \in Nat /\ DOMAIN items = 1..Len(items)
  BY <1>1 DEF Invariant, Typed, LevelTyped, Packing
<1>4. key \in Int
  <2>1. Last(OpenItems) \in Kid
    BY <1>1, <1>2, <1>3 DEF Last
  <2> QED BY <2>1 DEF Kid
<1>5. Waiting = I \cup J /\ I \cap J = {} /\ Waiting' = J
  <2>1. Waiting' = J
    BY <1>1 DEF Waiting
  <2> QED BY <1>3, <2>1, WaitingSplits DEF Invariant
<1>6. Unplaced = Named("item", t, I \cup J) /\ Unplaced' = Named("item", t, J)
  BY <1>1, <1>5 DEF Unplaced
<1>7. LinksOf(next, page) = Moved(next, "child", move, t, I)
  <2>1. page.kind = "inode" /\ page.right = items[past].page
        /\ page.cells = [i \in 1..(taken - 1) |-> [child |-> OpenItems[i].page, key |-> OpenItems[i].key]]
    BY <1>1, <1>2, <1>3 DEF Interior, Last
  <2>2. /\ DOMAIN page.cells = 1..(taken - 1)
        /\ \A i \in 1..(taken - 1) : page.cells[i].child = items[done + i].page
    BY <1>2, <1>3, <2>1
  <2>3. \A l : l \in LinksOf(next, page) <=>
          \/ \E i \in 1..(taken - 1) : l = <<next, "child", i, items[done + i].page>>
          \/ l = <<next, "child", 0, items[past].page>>
    BY <2>1, <2>2 DEF LinksOf
  <2>4. \A l : l \in Moved(next, "child", move, t, I) <=>
          \E j \in I : l = <<next, "child", move[j], t[j]>>
    BY DEF Moved
  <2>5. \A j \in I : t[j] = items[j].page /\ (j = past \/ j - done \in 1..(taken - 1))
                     /\ done + (j - done) = j
    BY <1>3 DEF PagesOf
  <2>6. \A i \in 1..(taken - 1) : done + i \in I /\ move[done + i] = i
    BY <1>3
  <2>7. past \in I /\ move[past] = 0
    BY <1>1, <1>3
  <2>8. \A j \in I : move[j] = IF j = past THEN 0 ELSE j - done
    BY <1>3
  <2> HIDE DEF page, t, I, move, past
  <2>9. ASSUME NEW l, l \in LinksOf(next, page) PROVE l \in Moved(next, "child", move, t, I)
    <3>1. CASE \E i \in 1..(taken - 1) : l = <<next, "child", i, items[done + i].page>>
      <4>1. PICK i \in 1..(taken - 1) : l = <<next, "child", i, items[done + i].page>>
        BY <3>1
      <4>2. l = <<next, "child", move[done + i], t[done + i]>> /\ done + i \in I
        BY <2>5, <2>6, <4>1
      <4> QED BY <2>4, <4>2
    <3>2. CASE l = <<next, "child", 0, items[past].page>>
      BY <2>4, <2>5, <2>7, <3>2
    <3> QED BY <2>3, <2>9, <3>1, <3>2
  <2>10. ASSUME NEW l, l \in Moved(next, "child", move, t, I) PROVE l \in LinksOf(next, page)
    <3>1. PICK j \in I : l = <<next, "child", move[j], t[j]>>
      BY <2>4, <2>10
    <3>2. CASE j = past
      BY <2>3, <2>5, <2>8, <3>1, <3>2
    <3>3. CASE j # past
      <4>1. j - done \in 1..(taken - 1) /\ l = <<next, "child", j - done, items[done + (j - done)].page>>
        BY <2>5, <2>8, <3>1, <3>3
      <4> QED BY <2>3, <4>1
    <3> QED BY <3>2, <3>3
  <2> QED BY <2>9, <2>10
<1> HIDE DEF page, key, t, I, J, move
<1> QED BY <1>1, <1>4, <1>5, <1>6, <1>7, Packs

(* A page of an index is laid after the chains of its cells, takes over the *)
(* links to the children I, and leaves the children J waiting.             *)
Laid(rows, made, page, t, I, J, move) ==
  /\ stage \in {"ileaves", "iinner"} /\ stage' = stage /\ roots' = roots
  /\ rows \in Seq(AnyRow) /\ made = Cells(rows, IndexMaxLocal, next)
  /\ pages' = Over(pages, Over(made.pages, At(made.next, page))) /\ next' = made.next + 1
  /\ above' = Append(above, made.next)
  /\ I \cap J = {} /\ Unplaced = Named("item", t, I \cup J) /\ Unplaced' = Named("item", t, J)
  /\ LinksOf(made.next, page) = CellLinks(made.next, "spill", made.cells)
                                  \cup Moved(made.next, "child", move, t, I)

(* So the page is named above, and the chains and the children by it.      *)
LEMMA IndexPacks ==
  ASSUME Invariant, Wired, NEW rows, NEW made, NEW page, NEW t, NEW I, NEW J, NEW move,
         Laid(rows, made, page, t, I, J, move)
  PROVE  Wired'
<1> DEFINE m == made.next
           chains == PageLinks(made.pages) \cup CellLinks(m, "spill", made.cells)
           P == PageLinks(pages) \cup chains
           both == Over(made.pages, At(m, page))
<1>0.   /\ stage \in {"ileaves", "iinner"} /\ stage' = stage /\ roots' = roots
        /\ rows \in Seq(AnyRow) /\ made = Cells(rows, IndexMaxLocal, next)
        /\ pages' = Over(pages, both) /\ next' = m + 1 /\ above' = Append(above, m)
        /\ I \cap J = {} /\ Unplaced = Named("item", t, I \cup J) /\ Unplaced' = Named("item", t, J)
        /\ LinksOf(m, page) = CellLinks(m, "spill", made.cells) \cup Moved(m, "child", move, t, I)
  BY DEF Laid
<1>1. next \in Nat /\ next >= 2 /\ above \in Seq(Nat)
  BY <1>0 DEF Invariant, Typed, LevelTyped
<1>2. /\ m \in Nat /\ m >= next /\ DOMAIN made.pages = next..(m - 1)
      /\ Names(chains, next, m)
  <2>1. IndexMaxLocal \in Nat /\ MinLocal <= IndexMaxLocal
    BY Limits
  <2>2. made.next \in Nat /\ made.next >= next /\ DOMAIN made.pages = next..(made.next - 1)
    BY <1>0, <1>1, <2>1, ChainsFit
  <2>3. Names(PageLinks(made.pages) \cup CellLinks(made.next, "spill", made.cells), next, made.next)
    BY <1>0, <1>1, <2>1, ChainsNamed
  <2> QED BY <2>2, <2>3
<1>3. DOMAIN both = next..((m + 1) - 1)
  <2>1. DOMAIN both = DOMAIN made.pages \cup {m}
    BY DEF Over, At
  <2> QED BY <1>1, <1>2, <2>1
<1>4. PageLinks(both) = PageLinks(made.pages) \cup LinksOf(m, page)
  <2>1. DOMAIN made.pages \cap DOMAIN At(m, page) = {}
    BY <1>1, <1>2 DEF At
  <2>2. PageLinks(both) = PageLinks(made.pages) \cup PageLinks(At(m, page))
    BY <2>1, PageLinksOver
  <2> QED BY <2>2, PageLinksAt
<1>5. Numbered' /\ PageLinks(pages') = PageLinks(pages) \cup PageLinks(both)
  <2> DEFINE n == m + 1
  <2>1. /\ DOMAIN both = next..(n - 1) /\ pages' = Over(pages, both) /\ next' = n
        /\ n \in Nat /\ next <= n /\ stage # "written" /\ stage' # "written" /\ Numbered
    <3>1. Numbered
      BY DEF Wired
    <3>2. n \in Nat /\ next <= n
      BY <1>1, <1>2
    <3> HIDE DEF both, m
    <3> QED BY <1>0, <1>3, <3>1, <3>2
  <2> HIDE DEF both, n
  <2> QED BY <2>1, PagesAdded
<1>6. PageLinks(pages') = P \cup Moved(m, "child", move, t, I)
  BY <1>0, <1>4, <1>5
<1>7. AboveLinks' = AboveLinks \cup {<<0, "above", Len(above) + 1, m>>}
  <2>1. /\ AboveLinks = Named("above", above, DOMAIN above)
        /\ AboveLinks' = Named("above", above', DOMAIN above')
    BY <1>0 DEF AboveLinks
  <2>2. m \in Nat
    BY <1>2
  <2> QED BY <1>0, <1>1, <2>1, <2>2, PageAppended
<1>8. RootLinks' = RootLinks
  BY <1>0 DEF RootLinks
<1>9. OnceNamed(AllLinks, next)
  BY <1>0 DEF Wired, Linked
<1> HIDE DEF chains, both, m
<1>10. OnceNamed(AllLinks \cup chains, m)
  BY <1>1, <1>2, <1>9, Extends
<1>11. OnceNamed(P \cup RootLinks \cup Named("item", t, I \cup J) \cup AboveLinks, m)
  <2>1. AllLinks \cup chains = P \cup RootLinks \cup Named("item", t, I \cup J) \cup AboveLinks
    BY <1>0 DEF AllLinks
  <2> QED BY <1>10, <2>1
<1>12. \A l \in P \cup RootLinks \cup AboveLinks : l[2] # "item"
  <2>1. P \subseteq PageLinks(pages')
    BY <1>6
  <2>2. \A l \in P : l[2] \in {"spill", "child", "next"}
    BY <2>1, PageTags
  <2> QED BY <2>2, OtherTags
<1> DEFINE k == Len(above) + 1
<1> HIDE DEF P, k
<1>13. OnceNamed((P \cup Moved(m, "child", move, t, I)) \cup RootLinks \cup Named("item", t, J)
                  \cup (AboveLinks \cup {<<0, "above", k, m>>}), m + 1)
  <2>1. m \in Nat /\ 2 <= m
    BY <1>1, <1>2
  <2> QED BY <1>0, <1>11, <1>12, <2>1, Closing
<1>14. AllLinks' = (P \cup Moved(m, "child", move, t, I)) \cup RootLinks \cup Named("item", t, J)
                     \cup (AboveLinks \cup {<<0, "above", k, m>>})
  BY <1>0, <1>6, <1>7, <1>8 DEF AllLinks, k
<1> QED BY <1>0, <1>5, <1>13, <1>14 DEF Wired, Linked

(* The links of a leaf of an index are its cells'.                         *)
LEMMA LeafLinks ==
  ASSUME NEW p, NEW cells, NEW kind, kind \in {"leaf", "ileaf"}
  PROVE  LinksOf(p, [kind |-> kind, cells |-> cells]) = CellLinks(p, "spill", cells)
<1> DEFINE page == [kind |-> kind, cells |-> cells]
<1>1. page.kind = kind /\ page.cells = cells
  OBVIOUS
<1> HIDE DEF page
<1>2. LinksOf(p, page) = CellLinks(p, "spill", cells)
  BY <1>1 DEF LinksOf, CellLinks, Chained
<1> QED BY <1>2 DEF page

(* An empty leaf of an index takes over nothing.                           *)
LEMMA WiresEmptyIndexLeaf == Invariant /\ Wired /\ EmptyIndexLeaf => Wired'
<1> DEFINE made == Cells(<<>>, IndexMaxLocal, next)
           page == [kind |-> "ileaf", cells |-> <<>>]
           I == {}
           move == <<>>
           rows == <<>>
<1> SUFFICES ASSUME Invariant, Wired, EmptyIndexLeaf PROVE Wired'
  OBVIOUS
<1>1. /\ stage = "ileaves" /\ stage' = stage /\ roots' = roots
      /\ pages' = Over(pages, Over(made.pages, At(made.next, page))) /\ next' = made.next + 1
      /\ above' = Append(above, made.next)
  BY DEF EmptyIndexLeaf, CloseIndexPage
<1>2. Unplaced = Named("item", rows, I \cup I) /\ Unplaced' = Named("item", rows, I)
  BY <1>1 DEF Unplaced, Named
<1>3. rows \in Seq(AnyRow) /\ made = Cells(rows, IndexMaxLocal, next)
  OBVIOUS
<1>4. LinksOf(made.next, page) = CellLinks(made.next, "spill", made.cells)
                                   \cup Moved(made.next, "child", move, rows, I)
  <2>1. made.cells \in Seq(Cell) /\ Len(made.cells) = Len(rows)
    BY <1>3, ChainsFit, Limits DEF Invariant, Typed
  <2>2. DOMAIN made.cells = {}
    <3>1. Len(rows) = 0
      OBVIOUS
    <3> HIDE DEF made, rows
    <3> QED BY <2>1, <3>1
  <2>3. LinksOf(made.next, page) = CellLinks(made.next, "spill", <<>>)
    BY LeafLinks
  <2> HIDE DEF made
  <2>4. CellLinks(made.next, "spill", <<>>) = {} /\ CellLinks(made.next, "spill", made.cells) = {}
    BY <2>2 DEF CellLinks, Chained
  <2>5. Moved(made.next, "child", move, rows, I) = {}
    BY DEF Moved
  <2> QED BY <2>3, <2>4, <2>5
<1>5. I \cap I = {}
  OBVIOUS
<1>6. Laid(rows, made, page, rows, I, I, move)
  <2> HIDE DEF made, page, I, move, rows
  <2> QED BY <1>1, <1>2, <1>3, <1>4, <1>5 DEF Laid
<1> QED BY <1>6, IndexPacks

(* A leaf of an index brings its chains; the record promoted is no page.   *)
LEMMA WiresCloseIndexLeaf == Invariant /\ Wired /\ CloseIndexLeaf => Wired'
<1> DEFINE made == Cells(OpenItems, IndexMaxLocal, next)
           page == [kind |-> "ileaf", cells |-> made.cells]
           I == {}
           move == <<>>
           t == <<>>
<1> SUFFICES ASSUME Invariant, Wired, CloseIndexLeaf PROVE Wired'
  OBVIOUS
<1>1. /\ stage = "ileaves" /\ stage' = stage /\ roots' = roots
      /\ pages' = Over(pages, Over(made.pages, At(made.next, page))) /\ next' = made.next + 1
      /\ above' = Append(above, made.next)
  BY DEF CloseIndexLeaf, CloseIndexPage
<1>2. OpenItems \in Seq(Record)
  BY <1>1, OpenItemsAre DEF Invariant, LevelTyped, Packing
<1>3. OpenItems \in Seq(AnyRow) /\ made = Cells(OpenItems, IndexMaxLocal, next)
  BY <1>2, RecordsAreRows
<1>4. Unplaced = Named("item", t, I \cup I) /\ Unplaced' = Named("item", t, I)
  BY <1>1 DEF Unplaced, Named
<1> HIDE DEF made
<1>5. LinksOf(made.next, page) = CellLinks(made.next, "spill", made.cells)
                                   \cup Moved(made.next, "child", move, t, I)
  <2>1. Moved(made.next, "child", move, t, I) = {}
    BY DEF Moved
  <2>2. LinksOf(made.next, page) = CellLinks(made.next, "spill", made.cells)
    BY LeafLinks
  <2> QED BY <2>1, <2>2
<1>6. I \cap I = {}
  OBVIOUS
<1>7. Laid(OpenItems, made, page, t, I, I, move)
  <2> HIDE DEF page, I, move, t
  <2> QED BY <1>1, <1>3, <1>4, <1>5, <1>6 DEF Laid
<1> QED BY <1>7, IndexPacks

(* A node brings the chains of its dividers and takes over one child more  *)
(* than those.                                                             *)
LEMMA WiresCloseIndexNode == Invariant /\ Wired /\ CloseIndexNode => Wired'
<1> DEFINE group == SubSeq(dividers, done + 1, done + taken)
           made == Cells(group, IndexMaxLocal, next)
           past == done + taken + 1
           cells == [i \in DOMAIN made.cells |-> WithChild(made.cells[i], items[done + i])]
           page == [kind |-> "iinode", right |-> items[past], cells |-> cells]
           I == (done + 1)..past
           J == (past + 1)..Len(items)
           move == [i \in Int |-> IF i = past THEN 0 ELSE i - done]
<1> SUFFICES ASSUME Invariant, Wired, CloseIndexNode PROVE Wired'
  OBVIOUS
<1>1.   /\ stage = "iinner" /\ stage' = stage /\ roots' = roots /\ items' = items /\ done' = past
        /\ pages' = Over(pages, Over(made.pages, At(made.next, page))) /\ next' = made.next + 1
        /\ above' = Append(above, made.next) /\ done < Len(items)
  BY DEF CloseIndexNode, CloseIndexPage
<1>2. /\ done \in Nat /\ taken \in Nat /\ next \in Nat /\ past \in Nat
      /\ items \in Seq(Nat) /\ dividers \in Seq(Record) /\ Len(items) \in Nat /\ Len(dividers) \in Nat
      /\ Len(items) <= Len(dividers) + 1 /\ done + taken < Len(items)
  BY <1>1 DEF Invariant, Typed, LevelTyped, Separated
<1>3. group \in Seq(AnyRow) /\ Len(group) = taken
  <2>1. group = [i \in 1..taken |-> dividers[done + i]]
    BY <1>2
  <2>2. \A i \in 1..taken : dividers[done + i] \in Record
    BY <1>2
  <2>3. group \in Seq(Record) /\ Len(group) = taken
    <3> HIDE DEF group
    <3> QED BY <1>2, <2>1, <2>2
  <2> QED BY <2>3, RecordsAreRows
<1> HIDE DEF group
<1>4. DOMAIN made.cells = 1..taken
  <2>1. made.cells \in Seq(Cell) /\ Len(made.cells) = Len(group)
    BY <1>2, <1>3, ChainsFit, Limits
  <2> HIDE DEF made
  <2> QED BY <1>3, <2>1
<1> DEFINE mine == made.cells
<1>5. /\ DOMAIN cells = 1..taken
      /\ \A i \in 1..taken : cells[i].first = mine[i].first /\ cells[i].child = items[done + i]
  BY <1>4 DEF WithChild
<1>6. Waiting = I \cup J /\ I \cap J = {} /\ Waiting' = J
  <2>1. Waiting' = J
    BY <1>1 DEF Waiting
  <2>2. done <= past /\ past <= Len(items)
    BY <1>2
  <2> QED BY <1>2, <2>1, <2>2, WaitingSplits DEF Invariant
<1>7. Unplaced = Named("item", items, I \cup J) /\ Unplaced' = Named("item", items, J)
  BY <1>1, <1>6 DEF Unplaced
<1>8. page.kind = "iinode" /\ page.cells = cells /\ page.right = items[past]
  OBVIOUS
<1> DEFINE q == made.next
<1>9. /\ \A j \in I : (j = past \/ j - done \in 1..taken) /\ done + (j - done) = j
      /\ \A i \in 1..taken : done + i \in I /\ move[done + i] = i
      /\ past \in I /\ move[past] = 0
      /\ \A j \in I : move[j] = IF j = past THEN 0 ELSE j - done
  BY <1>2
<1>10. LinksOf(q, page) = CellLinks(q, "spill", mine) \cup Moved(q, "child", move, items, I)
  <2> HIDE DEF page, cells, q, I, move, mine, past
  <2>1. \A l : l \in LinksOf(q, page) <=>
          \/ \E i \in 1..taken : mine[i].first # 0 /\ l = <<q, "spill", i, mine[i].first>>
          \/ \E i \in 1..taken : l = <<q, "child", i, items[done + i]>>
          \/ l = <<q, "child", 0, items[past]>>
    BY <1>5, <1>8 DEF LinksOf
  <2>2. \A l : l \in CellLinks(q, "spill", mine) <=>
          \E i \in 1..taken : mine[i].first # 0 /\ l = <<q, "spill", i, mine[i].first>>
    BY <1>4 DEF CellLinks, Chained, mine
  <2>3. \A l : l \in Moved(q, "child", move, items, I) <=>
          \E j \in I : l = <<q, "child", move[j], items[j]>>
    BY DEF Moved
  <2>4. ASSUME NEW l, \/ \E i \in 1..taken : l = <<q, "child", i, items[done + i]>>
                      \/ l = <<q, "child", 0, items[past]>>
        PROVE  l \in Moved(q, "child", move, items, I)
    <3>1. CASE \E i \in 1..taken : l = <<q, "child", i, items[done + i]>>
      <4>1. PICK i \in 1..taken : l = <<q, "child", i, items[done + i]>>
        BY <3>1
      <4>2. l = <<q, "child", move[done + i], items[done + i]>> /\ done + i \in I
        BY <1>9, <4>1
      <4> QED BY <2>3, <4>2
    <3>2. CASE l = <<q, "child", 0, items[past]>>
      BY <1>9, <2>3, <3>2
    <3> QED BY <2>4, <3>1, <3>2
  <2>5. ASSUME NEW l, l \in Moved(q, "child", move, items, I)
        PROVE  \/ \E i \in 1..taken : l = <<q, "child", i, items[done + i]>>
               \/ l = <<q, "child", 0, items[past]>>
    <3>1. PICK j \in I : l = <<q, "child", move[j], items[j]>>
      BY <2>3, <2>5
    <3>2. CASE j = past
      BY <1>9, <3>1, <3>2
    <3>3. CASE j # past
      <4>1. j - done \in 1..taken /\ l = <<q, "child", j - done, items[done + (j - done)]>>
        BY <1>9, <3>1, <3>3
      <4> QED BY <4>1
    <3> QED BY <3>2, <3>3
  <2>6. \A l : l \in LinksOf(q, page) <=>
          l \in CellLinks(q, "spill", mine) \/ l \in Moved(q, "child", move, items, I)
    BY <2>1, <2>2, <2>4, <2>5
  <2> QED BY <2>6
<1>11. Laid(group, made, page, items, I, J, move)
  <2>1. made = Cells(group, IndexMaxLocal, next)
    OBVIOUS
  <2> HIDE DEF made, page, I, J, move, past
  <2> QED BY <1>1, <1>3, <1>6, <1>7, <1>10, <2>1 DEF Laid
<1> QED BY <1>11, IndexPacks

-----------------------------------------------------------------------------
(* The steps that end a level                                              *)

(* The links to a finished level are all that is left of it.               *)
LevelPages == IF stage \in {"leaves", "inner"} THEN PagesOf(above) ELSE above

(* At its end nothing of a level waits but the pages built.                *)
LEMMA LevelOver ==
  ASSUME Invariant, Wired, LevelDone \/ IndexLevelDone
  PROVE  /\ OnceNamed((PageLinks(pages) \cup RootLinks) \cup Named("above", LevelPages, DOMAIN above), next)
         /\ \A l \in PageLinks(pages) \cup RootLinks : l[2] # "above"
         /\ DOMAIN above = 1..Len(above) /\ Len(above) \in Nat
<1>1. done = Len(items) /\ stage \in {"leaves", "inner", "ileaves", "iinner"}
  BY DEF LevelDone, IndexLevelDone
<1>2. done \in Nat /\ (above \in Seq(Kid) \/ above \in Seq(Nat))
  BY <1>1 DEF Invariant, Typed, LevelTyped
<1>3. Unplaced = {}
  <2>1. Waiting = {}
    BY <1>1, <1>2 DEF Waiting
  <2> QED BY <2>1 DEF Unplaced, Named
<1>4. AboveLinks = Named("above", LevelPages, DOMAIN above)
  BY <1>1 DEF AboveLinks, LevelPages
<1>5. OnceNamed(AllLinks, next)
  BY <1>1 DEF Wired, Linked
<1>6. AllLinks = (PageLinks(pages) \cup RootLinks) \cup Named("above", LevelPages, DOMAIN above)
  BY <1>3, <1>4 DEF AllLinks
<1>7. DOMAIN above = 1..Len(above) /\ Len(above) \in Nat
  BY <1>2
<1> QED BY <1>5, <1>6, <1>7, OtherTags

(* The level built becomes the input of the next.                          *)
LEMMA LevelRises ==
  ASSUME Invariant, Wired, LevelDone \/ IndexLevelDone, pages' = pages, next' = next, roots' = roots,
         items' = above, done' = 0, above' = <<>>, stage' \in {"inner", "iinner"},
         Unplaced' = Named("item", LevelPages, Waiting')
  PROVE  Wired'
<1> DEFINE Kept == PageLinks(pages) \cup RootLinks
           t == LevelPages
           I == DOMAIN above
           move == [i \in I |-> i]
<1>1. stage \in {"leaves", "inner", "ileaves", "iinner"}
  BY DEF LevelDone, IndexLevelDone
<1>2. OnceNamed(Kept \cup Named("above", t, I), next) /\ \A l \in Kept : ~ (l[2] = "above" /\ l[3] \in I)
  BY LevelOver
<1>3. Moved(0, "item", move, t, I) = Named("item", t, I)
  BY DEF Moved, Named
<1>4. I = Waiting'
  BY LevelOver DEF Waiting
<1>5. PageLinks(pages') = PageLinks(pages) /\ RootLinks' = RootLinks /\ AboveLinks' = {}
  BY DEF RootLinks, AboveLinks, Named
<1>6. AllLinks' = Kept \cup Named("item", t, I)
  BY <1>4, <1>5 DEF AllLinks
<1>7. OnceNamed(Kept \cup Moved(0, "item", move, t, I), next)
  <2> HIDE DEF Kept, t, I, move
  <2> QED BY <1>2, Moves
<1>8. Linked'
  <2>1. Kept \cup Moved(0, "item", move, t, I) = AllLinks'
    BY <1>3, <1>6
  <2> QED BY <1>7, <2>1 DEF Linked
<1>9. Numbered'
  BY <1>1 DEF Wired, Numbered
<1> QED BY <1>8, <1>9 DEF Wired

(* The pages of a table's level wait to be children.                       *)
LEMMA WiresNextLevel == Invariant /\ Wired /\ NextLevel => Wired'
<1> SUFFICES ASSUME Invariant, Wired, NextLevel PROVE Wired'
  OBVIOUS
<1>1. /\ LevelDone /\ pages' = pages /\ next' = next /\ roots' = roots
      /\ items' = above /\ done' = 0 /\ above' = <<>> /\ stage' = "inner"
  BY DEF NextLevel, OnLevel
<1>2. Unplaced' = Named("item", LevelPages, Waiting')
  BY <1>1 DEF Unplaced, LevelPages, LevelDone
<1> QED BY <1>1, <1>2, LevelRises

(* The pages of an index level wait to be children.                        *)
LEMMA WiresNextIndexLevel == Invariant /\ Wired /\ NextIndexLevel => Wired'
<1> SUFFICES ASSUME Invariant, Wired, NextIndexLevel PROVE Wired'
  OBVIOUS
<1>1. /\ IndexLevelDone /\ pages' = pages /\ next' = next /\ roots' = roots
      /\ items' = above /\ done' = 0 /\ above' = <<>> /\ stage' = "iinner"
  BY DEF NextIndexLevel, OnLevel
<1>2. Unplaced' = Named("item", LevelPages, Waiting')
  BY <1>1 DEF Unplaced, LevelPages, IndexLevelDone
<1> QED BY <1>1, <1>2, LevelRises

(* The one page of the last level is the root of its object.               *)
LEMMA RootTaken ==
  ASSUME Invariant, Wired, LevelDone \/ IndexLevelDone, Len(above) = 1, pages' = pages, next' = next,
         roots' = Append(roots, LevelPages[1]), stage' = "object"
  PROVE  Wired'
<1> DEFINE Kept == PageLinks(pages) \cup RootLinks
           t == LevelPages
           I == DOMAIN above
           k == Len(roots) + 1
           move == [i \in I |-> k]
<1>1. stage \in {"leaves", "inner", "ileaves", "iinner"}
  BY DEF LevelDone, IndexLevelDone
<1>2. I = {1} /\ OnceNamed(Kept \cup Named("above", t, I), next)
      /\ \A l \in Kept : ~ (l[2] = "above" /\ l[3] \in I)
  BY LevelOver
<1>3. t[1] \in 2..(next - 1)
  <2>1. <<0, "above", 1, t[1]>> \in Kept \cup Named("above", t, I)
    BY <1>2 DEF Named
  <2> HIDE DEF Kept, t
  <2> QED BY <1>2, <2>1 DEF OnceNamed
<1>4. Moved(0, "root", move, t, I) = {<<0, "root", k, t[1]>>}
  BY <1>2 DEF Moved
<1>5. RootLinks' = RootLinks \cup {<<0, "root", k, t[1]>>}
  <2>1. roots \in Seq(Nat) /\ next \in Nat
    BY DEF Invariant, Typed
  <2>2. t[1] \in Nat /\ t[1] # 0
    BY <1>3, <2>1
  <2> DEFINE r == t[1]
  <2>3. r \in Nat /\ r # 0 /\ roots' = Append(roots, r)
    BY <2>2
  <2> HIDE DEF r
  <2>4. RootLinks' = RootLinks \cup {<<0, "root", k, r>>}
    BY <2>1, <2>3, RootAppended
  <2> QED BY <2>4 DEF r
<1>6. AllLinks' = Kept \cup Moved(0, "root", move, t, I)
  <2>1. PageLinks(pages') = PageLinks(pages) /\ Unplaced' = {} /\ AboveLinks' = {}
    BY DEF Unplaced, AboveLinks
  <2> QED BY <1>4, <1>5, <2>1 DEF AllLinks
<1>7. OnceNamed(Kept \cup Moved(0, "root", move, t, I), next)
  <2> HIDE DEF Kept, t, I, move
  <2> QED BY <1>2, Moves
<1>8. Linked'
  BY <1>6, <1>7 DEF Linked
<1>9. Numbered'
  BY <1>1 DEF Wired, Numbered
<1> QED BY <1>8, <1>9 DEF Wired

(* The root of a table is named as a root.                                 *)
LEMMA WiresRootFound == Invariant /\ Wired /\ RootFound => Wired'
<1> SUFFICES ASSUME Invariant, Wired, RootFound PROVE Wired'
  OBVIOUS
<1>1. /\ LevelDone /\ Len(above) = 1 /\ roots' = Append(roots, above[1].page) /\ stage' = "object"
      /\ pages' = pages /\ next' = next
  BY DEF RootFound
<1>2. DOMAIN above = 1..1
  BY <1>1, LevelOver
<1>3. LevelPages[1] = above[1].page
  BY <1>1, <1>2 DEF LevelPages, PagesOf, LevelDone
<1> QED BY <1>1, <1>3, RootTaken

(* The root of an index is named as a root.                                *)
LEMMA WiresIndexRoot == Invariant /\ Wired /\ IndexRoot => Wired'
<1> SUFFICES ASSUME Invariant, Wired, IndexRoot PROVE Wired'
  OBVIOUS
<1>1. /\ IndexLevelDone /\ Len(above) = 1 /\ roots' = Append(roots, above[1]) /\ stage' = "object"
      /\ pages' = pages /\ next' = next
  BY DEF IndexRoot
<1>2. LevelPages[1] = above[1]
  BY <1>1 DEF LevelPages, IndexLevelDone
<1> QED BY <1>1, <1>2, RootTaken

(* Page 1 takes over the links to the last level of sqlite_master.         *)
LEMMA WiresMasterRoot == Invariant /\ Wired /\ MasterRoot => Wired'
<1> DEFINE Kept == PageLinks(pages) \cup RootLinks
           page == Interior(above)
           t == LevelPages
           I == DOMAIN above
           n == Len(above)
           move == [i \in I |-> IF i = n THEN 0 ELSE i]
<1> SUFFICES ASSUME Invariant, Wired, MasterRoot PROVE Wired'
  OBVIOUS
<1>1. /\ LevelDone /\ pages' = Over(pages, At(1, page)) /\ stage' = "written"
      /\ roots' = roots /\ next' = next /\ above # <<>> /\ stage \in {"leaves", "inner"}
  BY DEF MasterRoot, LevelDone
<1>2. I = 1..n /\ n \in Nat /\ OnceNamed(Kept \cup Named("above", t, I), next)
      /\ \A l \in Kept : ~ (l[2] = "above" /\ l[3] \in I)
  BY <1>1, LevelOver
<1>3. n \in I /\ above \in Seq(Kid)
  <2>1. above \in Seq(Kid)
    BY <1>1 DEF Invariant, LevelTyped
  <2> QED BY <1>1, <1>2, <2>1
<1>4. LinksOf(1, page) = Moved(1, "child", move, t, I)
  <2>1. /\ page.kind = "inode" /\ page.right = above[n].page
        /\ page.cells = [i \in 1..(n - 1) |-> [child |-> above[i].page, key |-> above[i].key]]
    BY DEF Interior, Last
  <2>2. DOMAIN page.cells = 1..(n - 1) /\ \A i \in 1..(n - 1) : page.cells[i].child = above[i].page
    BY <2>1
  <2>3. \A l : l \in LinksOf(1, page) <=>
          \/ \E i \in 1..(n - 1) : l = <<1, "child", i, above[i].page>>
          \/ l = <<1, "child", 0, above[n].page>>
    BY <2>1, <2>2 DEF LinksOf
  <2>4. \A l : l \in Moved(1, "child", move, t, I) <=> \E j \in I : l = <<1, "child", move[j], t[j]>>
    BY DEF Moved
  <2>5. \A j \in I : /\ t[j] = above[j].page /\ move[j] = IF j = n THEN 0 ELSE j
                     /\ j = n \/ j \in 1..(n - 1)
    BY <1>1, <1>2 DEF LevelPages, PagesOf
  <2>6. \A i \in 1..(n - 1) : i \in I /\ i # n
    <3>1. n \in Nat /\ I = 1..n
      BY <1>2
    <3> HIDE DEF n, I
    <3> QED BY <3>1
  <2> HIDE DEF page, t, I, move, n
  <2>7. ASSUME NEW l, l \in LinksOf(1, page) PROVE l \in Moved(1, "child", move, t, I)
    BY <1>3, <2>3, <2>4, <2>5, <2>6, <2>7
  <2>8. ASSUME NEW l, l \in Moved(1, "child", move, t, I) PROVE l \in LinksOf(1, page)
    BY <2>3, <2>4, <2>5, <2>8
  <2> QED BY <2>7, <2>8
<1>5. next \in Nat /\ next >= 2 /\ DOMAIN pages = 2..(next - 1)
  BY <1>1 DEF Invariant, Typed, Wired, Numbered
<1>6. PageLinks(pages') = PageLinks(pages) \cup LinksOf(1, page)
  <2>1. DOMAIN pages \cap DOMAIN At(1, page) = {}
    BY <1>5 DEF At
  <2>2. PageLinks(Over(pages, At(1, page))) = PageLinks(pages) \cup PageLinks(At(1, page))
    BY <2>1, PageLinksOver
  <2> QED BY <1>1, <2>2, PageLinksAt
<1>7. Numbered'
  <2>1. DOMAIN pages' = DOMAIN pages \cup {1}
    BY <1>1 DEF Over, At
  <2>2. 2..(next - 1) \cup {1} = 1..(next - 1)
    BY <1>5
  <2>3. DOMAIN pages' = 1..(next' - 1)
    BY <1>1, <1>5, <2>1, <2>2
  <2> QED BY <1>1, <2>3 DEF Numbered
<1>8. AllLinks' = Kept \cup Moved(1, "child", move, t, I)
  <2>1. RootLinks' = RootLinks /\ Unplaced' = {} /\ AboveLinks' = {}
    BY <1>1 DEF RootLinks, Unplaced, AboveLinks
  <2> HIDE DEF page, t, I, move
  <2> QED BY <1>4, <1>6, <2>1 DEF AllLinks
<1>9. OnceNamed(Kept \cup Moved(1, "child", move, t, I), next)
  <2> HIDE DEF Kept, t, I, move, n
  <2> QED BY <1>2, Moves
<1>10. Linked'
  BY <1>1, <1>8, <1>9 DEF Linked
<1> QED BY <1>7, <1>10 DEF Wired

(* No step makes the program lose a page or name one twice.                *)
LEMMA WiredKept == Invariant /\ Wired /\ [Next]_vars => Wired'
<1> SUFFICES ASSUME Invariant, Wired, [Next]_vars PROVE Wired'
  OBVIOUS
<1> QED BY WiresStutter, WiresPlace, WiresCellTooLarge, WiresSchemaOnly, WiresBeginIndex, WiresBeginTable,
           WiresMasterLeaf, WiresEmptyLeaf, WiresCloseLeaf, WiresCloseInner, WiresRootFound, WiresMasterRoot,
           WiresNextLevel, WiresEmptyIndexLeaf, WiresCloseIndexLeaf, WiresCloseIndexNode, WiresIndexRoot,
           WiresNextIndexLevel DEF Next

(* Links that name each page from 2 on once are as many as the pages.      *)
LEMMA Counted ==
  ASSUME NEW L, NEW n \in Nat, n >= 2, OnceNamed(L, n)
  PROVE  {l[4] : l \in L} = 2..(n - 1) /\ Cardinality(L) = n - 2
<1> DEFINE named == [q \in 2..(n - 1) |-> CHOOSE l \in L : l[4] = q]
<1>1. {l[4] : l \in L} = 2..(n - 1)
  BY DEF OnceNamed
<1>2. \A q \in 2..(n - 1) : named[q] \in L /\ named[q][4] = q
  BY DEF OnceNamed
<1>3. \A l \in L : l[4] \in 2..(n - 1) /\ named[l[4]] = l
  <2> TAKE l \in L
  <2>1. l[4] \in 2..(n - 1)
    BY DEF OnceNamed
  <2>2. named[l[4]] \in L /\ named[l[4]][4] = l[4]
    BY <1>2, <2>1
  <2> HIDE DEF named
  <2> QED BY <2>1, <2>2 DEF OnceNamed
<1>4. named \in [2..(n - 1) -> L]
  BY <1>2
<1> HIDE DEF named
<1>5. named \in Bijection(2..(n - 1), L)
  <2>1. \A p, q \in 2..(n - 1) : named[p] = named[q] => p = q
    BY <1>2
  <2>2. \A l \in L : \E q \in 2..(n - 1) : named[q] = l
    BY <1>3
  <2> QED BY <1>4, <2>1, <2>2 DEF Bijection, Injection, Surjection, IsInjective
<1>6. ExistsBijection(2..(n - 1), L)
  BY <1>5 DEF ExistsBijection
<1>7. IsFiniteSet(2..(n - 1)) /\ Cardinality(2..(n - 1)) = n - 2
  <2>1. IsFiniteSet(2..(n - 1)) /\ Cardinality(2..(n - 1)) = IF 2 > n - 1 THEN 0 ELSE (n - 1) - 2 + 1
    BY FS_Interval
  <2> QED BY <2>1
<1>8. Cardinality(L) = n - 2
  BY <1>6, <1>7, FS_Bijection
<1> QED BY <1>1, <1>8

(* When the file is written nothing waits: the pages and the roots name    *)
(* every page once.                                                        *)
LEMMA WiredMeans == Invariant /\ Wired => EveryPageUsedOnce
<1> SUFFICES ASSUME Invariant, Wired, stage = "written"
             PROVE  /\ DOMAIN pages = 1..(next - 1)
                    /\ {l[4] : l \in Links \cup RootLinks} = 2..(next - 1)
                    /\ Cardinality(Links \cup RootLinks) = next - 2
  BY DEF EveryPageUsedOnce
<1>1. OnceNamed(AllLinks, next) /\ DOMAIN pages = 1..(next - 1)
  BY DEF Wired, Linked, Numbered
<1>2. AllLinks = Links \cup RootLinks
  BY DEF AllLinks, Unplaced, AboveLinks, Links, PageLinks
<1>3. next \in Nat /\ next >= 2
  BY DEF Invariant, Typed
<1>4. OnceNamed(Links \cup RootLinks, next)
  BY <1>1, <1>2
<1> QED BY <1>1, <1>3, <1>4, Counted

(* EveryPageUsedOnce, of every database write_database is called with.     *)
THEOREM EveryPageUsedOnceAlways == Spec => []EveryPageUsedOnce
<1>1. Init => Invariant /\ Wired
  BY InvariantInit, WiredInit
<1>2. (Invariant /\ Wired) /\ [Next]_vars => (Invariant /\ Wired)'
  BY InvariantKept, WiredKept
<1>3. Invariant /\ Wired => EveryPageUsedOnce
  BY WiredMeans
<1> QED BY <1>1, <1>2, <1>3, PTL DEF Spec
=============================================================================
