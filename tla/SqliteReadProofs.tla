-------------------------- MODULE SqliteReadProofs --------------------------
(***************************************************************************)
(* Of every file write_database completes, whatever the tables, the records *)
(* and the page size: reading sqlite_master and then each table by its root *)
(* returns the rows that were written.                                     *)
(*                                                                         *)
(* The invariant is a certificate S: what the walk of each page returns.    *)
(* A page is never written over, and the pages it names were there before   *)
(* it, so a step only adds entries to S.                                   *)
(***************************************************************************)
EXTENDS SqliteTreeProofs, SequenceTheorems

-----------------------------------------------------------------------------
(* Sequences laid end to end                                               *)

(* One sequence more goes to the end.                                      *)
LEMMA FlattenAppend ==
  ASSUME NEW T, NEW s \in Seq(Seq(T)), NEW x \in Seq(T)
  PROVE  FlattenSeq(Append(s, x)) = FlattenSeq(s) \o x
<1> DEFINE t == Append(s, x)
           n == Len(s)
<1>1. /\ n \in Nat /\ Len(t) = n + 1 /\ t[n + 1] = x
      /\ \A i \in 1..n : t[i] = s[i]
  OBVIOUS
<1>2. PICK g : Joined(g, t) /\ FlattenSeq(t) = g[n + 1]
  <2>1. Len(t) \in Nat /\ Len(t) # 0
    BY <1>1
  <2> QED BY <1>1, <2>1, FlattenSteps
<1> HIDE DEF t
<1>3. \A i \in 1..(n + 1) : g[i] = IF i = 1 THEN t[i] ELSE g[i - 1] \o t[i]
  BY <1>1, <1>2 DEF Joined
<1>4. CASE n = 0
  <2>1. FlattenSeq(s) = <<>>
    BY <1>4 DEF FlattenSeq
  <2>2. g[1] = x
    BY <1>1, <1>3, <1>4
  <2> QED BY <1>2, <1>4, <2>1, <2>2, ConcatEmptySeq DEF t
<1>5. CASE n # 0
  <2>1. PICK f : Joined(f, s) /\ FlattenSeq(s) = f[n]
    BY <1>1, <1>5, FlattenSteps
  <2>2. \A i \in 1..n : f[i] = IF i = 1 THEN s[i] ELSE f[i - 1] \o s[i]
    BY <2>1 DEF Joined
  <2> HIDE DEF n
  <2> DEFINE Wrong == {i \in 1..n : f[i] # g[i]}
  <2>3. Wrong = {}
    <3>1. SUFFICES ASSUME Wrong # {} PROVE FALSE
      OBVIOUS
    <3>2. Wrong \subseteq Nat
      BY <1>1
    <3>3. PICK k \in Wrong : \A y \in Wrong : k <= y
      BY <3>1, <3>2, LeastNumber
    <3>4. k \in 1..n /\ k \in 1..(n + 1) /\ f[k] # g[k] /\ s[k] = t[k]
      BY <1>1
    <3>5. k # 1
      BY <1>3, <2>2, <3>4
    <3>6. k - 1 \in 1..n /\ ~ (k <= k - 1)
      BY <1>1, <3>4, <3>5
    <3>7. f[k - 1] = g[k - 1]
      BY <3>3, <3>6
    <3> QED BY <1>3, <2>2, <3>4, <3>5, <3>7
  <2>4. n \in 1..n /\ n + 1 \in 1..(n + 1) /\ n + 1 # 1 /\ (n + 1) - 1 = n
    BY <1>1, <1>5
  <2>5. g[n] = f[n]
    BY <2>3, <2>4
  <2>6. g[n + 1] = g[n] \o t[n + 1]
    BY <1>3, <2>4
  <2> QED BY <1>1, <1>2, <2>1, <2>5, <2>6 DEF t
<1> QED BY <1>4, <1>5

Regroups(T) == \A s, t, u \in Seq(T) : (s \o t) \o u = s \o (t \o u)

(* Where the brackets are makes no difference.                             *)
LEMMA Regrouped == \A T : Regroups(T)
<1> SUFFICES ASSUME NEW T, NEW s \in Seq(T), NEW t \in Seq(T), NEW u \in Seq(T)
             PROVE  (s \o t) \o u = s \o (t \o u)
  BY DEF Regroups
<1> DEFINE a == (s \o t) \o u
           b == s \o (t \o u)
           m == Len(s)
           n == Len(t)
           k == Len(u)
<1>1. /\ a \in Seq(T) /\ b \in Seq(T)
      /\ m \in Nat /\ n \in Nat /\ k \in Nat
      /\ Len(a) = m + n + k /\ Len(b) = m + n + k
  OBVIOUS
<1>2. ASSUME NEW i \in 1..(m + n + k)
      PROVE  a[i] = b[i]
  <2>1. CASE i <= m
    BY <2>1
  <2>2. CASE m < i /\ i <= m + n
    BY <2>2
  <2>3. CASE m + n < i
    BY <2>3
  <2> QED BY <2>1, <2>2, <2>3
<1> HIDE DEF a, b, m, n, k
<1>3. a = b
  BY <1>1, <1>2, SeqEqual
<1> QED BY <1>3 DEF a, b

(* Two runs of sequences, and then one after the other.                    *)
LEMMA FlattenConcat ==
  ASSUME NEW T, NEW s \in Seq(Seq(T)), NEW t \in Seq(Seq(T))
  PROVE  FlattenSeq(s \o t) = FlattenSeq(s) \o FlattenSeq(t)
<1>0. Regroups(T) /\ Regroups(Seq(T))
  BY Regrouped
<1> DEFINE Differ(u) == FlattenSeq(s \o u) # FlattenSeq(s) \o FlattenSeq(u)
           Wrong == {n \in Nat : \E u \in Seq(Seq(T)) : Len(u) = n /\ Differ(u)}
<1>1. SUFFICES ASSUME Wrong # {} PROVE FALSE
  <2>1. Len(t) \in Nat
    OBVIOUS
  <2> QED BY <2>1
<1>2. PICK n \in Wrong : \A m \in Wrong : n <= m
  BY <1>1, LeastNumber
<1>3. PICK u \in Seq(Seq(T)) : Len(u) = n /\ Differ(u)
  OBVIOUS
<1>4. FlattenSeq(s) \in Seq(T)
  BY FlattenedInSeq
<1>5. CASE u = <<>>
  <2>1. FlattenSeq(u) = <<>>
    BY <1>5 DEF FlattenSeq
  <2> QED BY <1>3, <1>4, <1>5, <2>1, ConcatEmptySeq
<1>6. CASE u # <<>>
  <2>1. PICK v \in Seq(Seq(T)), x \in Seq(T) : u = Append(v, x)
    BY <1>6, SequenceEmptyOrAppend
  <2>2. Len(v) \in Nat /\ n = Len(v) + 1
    BY <1>3, <2>1
  <2>3. Len(v) \notin Wrong
    <3>1. ~ (n <= Len(v))
      BY <2>2
    <3> QED BY <1>2, <3>1
  <2>4. FlattenSeq(s \o v) = FlattenSeq(s) \o FlattenSeq(v)
    BY <2>2, <2>3
  <2>5. s \o u = Append(s \o v, x) /\ s \o v \in Seq(Seq(T))
    <3>1. u = v \o <<x>> /\ <<x>> \in Seq(Seq(T)) /\ s \o v \in Seq(Seq(T))
      BY <2>1, AppendIsConcat
    <3>2. (s \o v) \o <<x>> = s \o (v \o <<x>>)
      <4> DEFINE w == <<x>>
      <4>1. w \in Seq(Seq(T))
        BY <3>1
      <4> HIDE DEF w
      <4>2. (s \o v) \o w = s \o (v \o w)
        BY <1>0, <4>1, Zenon DEF Regroups
      <4> QED BY <4>2 DEF w
    <3> QED BY <3>1, <3>2, AppendIsConcat
  <2>6. FlattenSeq(s \o u) = FlattenSeq(s \o v) \o x
    BY <2>5, FlattenAppend
  <2>7. FlattenSeq(u) = FlattenSeq(v) \o x
    BY <2>1, FlattenAppend
  <2>8. FlattenSeq(v) \in Seq(T)
    BY FlattenedInSeq
  <2>9. (FlattenSeq(s) \o FlattenSeq(v)) \o x = FlattenSeq(s) \o (FlattenSeq(v) \o x)
    <3> DEFINE a == FlattenSeq(s)
               b == FlattenSeq(v)
    <3>1. a \in Seq(T) /\ b \in Seq(T)
      BY <1>4, <2>8
    <3> HIDE DEF a, b
    <3>2. (a \o b) \o x = a \o (b \o x)
      BY <1>0, <3>1, Zenon DEF Regroups
    <3> QED BY <3>2 DEF a, b
  <2> QED BY <1>3, <2>4, <2>6, <2>7, <2>9
<1> QED BY <1>5, <1>6

-----------------------------------------------------------------------------
(* The chain of a record                                                   *)

(* What the k-th page of the chain of a cell holds.                        *)
SpillPage(cell, max, k) ==
  LET have == cell.local + (k - 1) * OverflowSize
      rest == cell.row.len - have
  IN  [kind |-> "overflow", row |-> cell.row,
       next |-> IF k < Spill(cell.row.len, max) THEN cell.first + k ELSE 0,
       from |-> have,
       to   |-> have + IF rest < OverflowSize THEN rest ELSE OverflowSize]

(* The chain of a cell is in these pages, from its first page on.          *)
Whole(f, cell, max) ==
  /\ cell.local = LocalPayload(cell.row.len, max)
  /\ \A k \in 1..Spill(cell.row.len, max) :
       /\ cell.first + k - 1 \in DOMAIN f
       /\ f[cell.first + k - 1] = SpillPage(cell, max, k)

(* Pages added leave a chain as it was.                                    *)
LEMMA WholeOver ==
  ASSUME NEW f, NEW g, DOMAIN f \cap DOMAIN g = {}, NEW cell, NEW max, Whole(f, cell, max)
  PROVE  Whole(Over(f, g), cell, max)
<1> DEFINE p(k) == cell.first + k - 1
           K == 1..Spill(cell.row.len, max)
<1>1. /\ cell.local = LocalPayload(cell.row.len, max)
      /\ \A k \in K : p(k) \in DOMAIN f /\ f[p(k)] = SpillPage(cell, max, k)
  BY DEF Whole
<1>2. \A q \in DOMAIN f : q \in DOMAIN Over(f, g) /\ Over(f, g)[q] = f[q]
  BY DEF Over
<1> HIDE DEF p, K
<1>3. \A k \in K : p(k) \in DOMAIN Over(f, g) /\ Over(f, g)[p(k)] = SpillPage(cell, max, k)
  BY <1>1, <1>2
<1> QED BY <1>1, <1>3 DEF Whole, p, K

(* The chain written for a cell is whole.                                  *)
LEMMA CellsWhole ==
  ASSUME NEW rows \in Seq(AnyRow), NEW max \in Nat, MinLocal <= max, NEW start \in Nat
  PROVE  LET made == Cells(rows, max, start)
         IN  \A i \in 1..Len(rows) : Whole(made.pages, made.cells[i], max)
<1> DEFINE made == Cells(rows, max, start)
           n == Len(rows)
           D == DOMAIN made.pages
<1>0. PICK free : CellsAre(rows, max, start, free) /\ ChainsAre(rows, max, start, free)
  BY CellsMade
<1>1. /\ \A k \in 0..n : free[k] \in Nat /\ free[k] >= start
      /\ \A k \in 1..n : free[k] = free[k - 1] + Spill(rows[k].len, max)
      /\ made.cells = [k \in 1..n |->
           [row   |-> rows[k],
            local |-> LocalPayload(rows[k].len, max),
            first |-> IF Spill(rows[k].len, max) = 0 THEN 0 ELSE free[k - 1]]]
  BY <1>0 DEF CellsAre
<1>2. /\ D = start..(free[n] - 1)
      /\ \A k, j \in 0..n : k <= j => free[k] <= free[j]
      /\ \A p \in D : \A k, j : OnChain(free, n, p, k) /\ OnChain(free, n, p, j) => k = j
  BY <1>0, ChainsApart
<1>3. \A p \in D : made.pages[p] = ChainPage(rows, made.cells, free, ChainOf(free, n, p), p)
  BY <1>0 DEF ChainsAre
<1>4. n \in Nat
  OBVIOUS
<1> HIDE DEF made, n, D
<1> SUFFICES ASSUME NEW i \in 1..n PROVE Whole(made.pages, made.cells[i], max)
  BY DEF made, n
<1> DEFINE spill == Spill(rows[i].len, max)
           cell == made.cells[i]
<1>5. /\ cell.row = rows[i] /\ cell.local = LocalPayload(rows[i].len, max)
      /\ cell.first = IF spill = 0 THEN 0 ELSE free[i - 1]
  BY <1>1, <1>4
<1>6. spill \in Nat /\ free[i - 1] \in Nat /\ free[i - 1] >= start /\ free[i] = free[i - 1] + spill
      /\ free[i] <= free[n] /\ free[i] \in Nat /\ free[n] \in Nat
  <2>1. i \in 0..n /\ i - 1 \in 0..n /\ n \in 0..n /\ i <= n
    BY <1>4
  <2>2. rows[i].len \in Nat
    BY RowsMeasured DEF n
  <2> HIDE DEF spill
  <2>3. spill \in Nat
    BY <2>2, SpillIsNatural DEF spill
  <2> QED BY <1>1, <1>2, <2>1, <2>3 DEF spill
<1> HIDE DEF cell, spill
<1>7. ASSUME NEW k \in 1..spill
      PROVE  /\ cell.first + k - 1 \in D
             /\ made.pages[cell.first + k - 1] = SpillPage(cell, max, k)
  <2> DEFINE p == cell.first + k - 1
  <2>1. cell.first = free[i - 1] /\ spill # 0
    BY <1>5, <1>6
  <2>2. p = free[i - 1] + k - 1 /\ k \in Nat /\ k >= 1 /\ k <= spill /\ p \in Nat
    BY <1>6, <2>1
  <2>3. p \in start..(free[n] - 1) /\ free[i - 1] <= p /\ p < free[i]
    BY <1>6, <2>2
  <2>4. p - free[i - 1] = k - 1 /\ (p + 1 < free[i] <=> k < spill) /\ p + 1 = cell.first + k
    BY <1>6, <2>1, <2>2
  <2> HIDE DEF p
  <2>5. OnChain(free, n, p, i) /\ p \in D
    BY <1>2, <2>3 DEF OnChain
  <2>6. ChainOf(free, n, p) = i
    <3>1. \A j : OnChain(free, n, p, j) <=> j \in 1..n /\ free[j - 1] <= p /\ p < free[j]
      BY DEF OnChain
    <3>2. ChainOf(free, n, p) \in 1..n /\ OnChain(free, n, p, ChainOf(free, n, p))
      BY <2>5, <3>1 DEF ChainOf
    <3> QED BY <1>2, <2>5, <3>2
  <2>7. made.pages[p] = ChainPage(rows, made.cells, free, i, p)
    BY <1>3, <2>5, <2>6
  <2>8. ChainPage(rows, made.cells, free, i, p) = SpillPage(cell, max, k)
    <3>1. made.cells[i] = cell
      BY DEF cell
    <3>2. (IF p + 1 < free[i] THEN p + 1 ELSE 0)
            = (IF k < Spill(cell.row.len, max) THEN cell.first + k ELSE 0)
      BY <1>5, <2>4 DEF spill
    <3> QED BY <1>5, <2>4, <3>1, <3>2 DEF ChainPage, SpillPage
  <2> QED BY <2>5, <2>7, <2>8 DEF p
<1> QED BY <1>5, <1>7 DEF Whole, D, cell, spill

(* leaf_cell finds the record of a cell whose chain is whole.              *)
LEMMA WholeReads ==
  ASSUME NEW f, NEW cell \in Cell, NEW max \in Nat, MinLocal <= max, Whole(f, cell, max)
  PROVE  ReadRow(f, cell, max) = cell.row
<1> DEFINE local == LocalPayload(cell.row.len, max)
           n == (cell.row.len - local + OverflowSize - 1) \div OverflowSize
           Step(h, k) == IF k = 1 THEN cell.first
                         ELSE IF h[k - 1] \in DOMAIN f /\ f[h[k - 1]].kind = "overflow"
                              THEN f[h[k - 1]].next ELSE 0
           link == CHOOSE h : h = [k \in 1..n |->
                     IF k = 1 THEN cell.first
                     ELSE IF h[k - 1] \in DOMAIN f /\ f[h[k - 1]].kind = "overflow"
                          THEN f[h[k - 1]].next ELSE 0]
           Grows(k) ==
             LET have == local + (k - 1) * OverflowSize
                 page == f[link[k]]
             IN  /\ link[k] \in DOMAIN f /\ page.kind = "overflow"
                 /\ page.row = cell.row /\ page.from = have
                 /\ page.to = have + (IF cell.row.len - have < OverflowSize
                                      THEN cell.row.len - have ELSE OverflowSize)
<1>1. ReadRow(f, cell, max) =
        IF cell.local = local /\ \A k \in 1..n : Grows(k) THEN cell.row ELSE Truncated
  BY DEF ReadRow
<1>2. n = Spill(cell.row.len, max) /\ cell.row.len \in Nat /\ cell.first \in Nat
  <2>1. n = Spill(cell.row.len, max)
    BY DEF Spill
  <2>2. cell.row \in AnyRow /\ cell.first \in Nat
    BY DEF Cell
  <2> HIDE DEF n
  <2> QED BY <2>1, <2>2, RowsMeasured
<1>3. n \in Nat
  <2> DEFINE len == cell.row.len
  <2>1. len \in Nat /\ n = Spill(len, max)
    BY <1>2
  <2> HIDE DEF n, len
  <2> QED BY <2>1, SpillIsNatural
<1>4. cell.local = local
  BY DEF Whole
<1>5. \A k \in 1..n : /\ cell.first + k - 1 \in DOMAIN f
                      /\ f[cell.first + k - 1] = SpillPage(cell, max, k)
  BY <1>2 DEF Whole
<1>6. \A k \in 1..n : /\ f[cell.first + k - 1].kind = "overflow"
                      /\ f[cell.first + k - 1].next = IF k < n THEN cell.first + k ELSE 0
  <2>1. \A k : /\ SpillPage(cell, max, k).kind = "overflow"
               /\ SpillPage(cell, max, k).next =
                    IF k < Spill(cell.row.len, max) THEN cell.first + k ELSE 0
    BY DEF SpillPage
  <2> HIDE DEF n
  <2> QED BY <1>2, <1>5, <2>1
<1> DEFINE place == [k \in 1..n |-> cell.first + k - 1]
<1> HIDE DEF n
<1>7. ASSUME NEW h, \A k \in 1..n : (k # 1 => h[k - 1] = cell.first + (k - 1) - 1)
      PROVE  \A k \in 1..n : Step(h, k) = cell.first + k - 1
  <2> SUFFICES ASSUME NEW k \in 1..n PROVE Step(h, k) = cell.first + k - 1
    OBVIOUS
  <2>1. CASE k = 1
    BY <1>2, <2>1
  <2>2. CASE k # 1
    <3>1. k - 1 \in 1..n /\ k - 1 < n
      BY <1>3, <2>2
    <3>2. h[k - 1] = cell.first + (k - 1) - 1
      BY <1>7, <2>2
    <3>3. /\ h[k - 1] \in DOMAIN f /\ f[h[k - 1]].kind = "overflow"
          /\ f[h[k - 1]].next = cell.first + (k - 1)
      BY <1>5, <1>6, <3>1, <3>2
    <3>4. cell.first + (k - 1) = cell.first + k - 1
      BY <1>2, <3>1
    <3> QED BY <2>2, <3>3, <3>4
  <2> QED BY <2>1, <2>2
<1>8. place = [k \in 1..n |-> Step(place, k)]
  <2>1. \A k \in 1..n : (k # 1 => place[k - 1] = cell.first + (k - 1) - 1)
    BY <1>3
  <2> HIDE DEF place, Step
  <2>2. \A k \in 1..n : Step(place, k) = cell.first + k - 1
    BY <1>7, <2>1
  <2> QED BY <2>2 DEF place
<1>9. link = [k \in 1..n |-> Step(link, k)]
  <2> HIDE DEF place
  <2> QED BY <1>8
<1> HIDE DEF link
<1>10. \A k \in 1..n : link[k] = cell.first + k - 1
  <2> DEFINE Wrong == {k \in 1..n : link[k] # cell.first + k - 1}
  <2>1. SUFFICES ASSUME Wrong # {} PROVE FALSE
    OBVIOUS
  <2>2. Wrong \subseteq Nat
    BY <1>3
  <2>3. PICK x \in Wrong : \A y \in Wrong : x <= y
    BY <2>1, <2>2, LeastNumber
  <2>4. x \in 1..n /\ link[x] # cell.first + x - 1
    OBVIOUS
  <2>5. link[x] = Step(link, x)
    BY <1>9, <2>4
  <2>6. x # 1
    BY <1>2, <2>4, <2>5
  <2>7. x - 1 \in 1..n /\ ~ (x <= x - 1) /\ x - 1 < n
    BY <1>3, <2>4, <2>6
  <2>8. link[x - 1] = cell.first + (x - 1) - 1
    BY <2>3, <2>7
  <2>9. /\ link[x - 1] \in DOMAIN f /\ f[link[x - 1]].kind = "overflow"
        /\ f[link[x - 1]].next = cell.first + (x - 1)
    BY <1>5, <1>6, <2>7, <2>8
  <2>10. cell.first + (x - 1) = cell.first + x - 1
    BY <1>2, <2>4
  <2> QED BY <2>4, <2>5, <2>6, <2>9, <2>10
<1>11. ASSUME NEW k \in 1..n
       PROVE  Grows(k)
  <2>1. link[k] \in DOMAIN f /\ f[link[k]] = SpillPage(cell, max, k)
    BY <1>5, <1>10
  <2> HIDE DEF local
  <2> QED BY <1>4, <2>1 DEF SpillPage
<1> HIDE DEF Grows, local
<1> QED BY <1>1, <1>4, <1>11

-----------------------------------------------------------------------------
(* What the walk of a page returns                                         *)

ReadOut == AnyRow \cup {Truncated}

ChildPages(page) == {page.cells[i].child : i \in DOMAIN page.cells} \cup {page.right}

(* What page p holds, given what its children do: they are there already,   *)
(* before it unless it is page 1, and none is page 1.                      *)
PageReads(f, S, p) ==
  LET page == f[p]
  IN  /\ page.kind = "leaf" =>
           /\ \A i \in DOMAIN page.cells :
                page.cells[i] \in Cell /\ Whole(f, page.cells[i], TableMaxLocal)
           /\ S[p] = [i \in DOMAIN page.cells |-> page.cells[i].row]
      /\ page.kind = "inode" =>
           /\ \A c \in ChildPages(page) : c \in DOMAIN f /\ c # 1 /\ (p = 1 \/ c < p)
           /\ S[p] = FlattenSeq([i \in DOMAIN page.cells |-> S[page.cells[i].child]])
                       \o S[page.right]
      /\ page.kind \notin {"leaf", "inode"} => S[p] = <<Truncated>>

Certified(f, S) ==
  /\ DOMAIN f \subseteq Nat
  /\ S \in [DOMAIN f -> Seq(ReadOut)]
  /\ \A p \in DOMAIN f : PageReads(f, S, p)

(* One step of the walk, h what it returns of the other pages.             *)
Walked(f, h, p) ==
  LET page == f[p]
  IN  IF page.kind = "leaf"
      THEN [i \in DOMAIN page.cells |-> ReadRow(f, page.cells[i], TableMaxLocal)]
      ELSE IF page.kind = "inode"
      THEN FlattenSeq([i \in DOMAIN page.cells |-> h[page.cells[i].child]]) \o h[page.right]
      ELSE <<Truncated>>

(* A step looks at the children of the page, and at nothing else.          *)
LEMMA WalkedAgree ==
  ASSUME NEW f, NEW g, NEW h, NEW p,
         f[p].kind = "inode" => \A c \in ChildPages(f[p]) : g[c] = h[c]
  PROVE  Walked(f, g, p) = Walked(f, h, p)
<1>1. CASE f[p].kind = "inode"
  <2> DEFINE cells == f[p].cells
             right == f[p].right
  <2>1. (\A i \in DOMAIN cells : g[cells[i].child] = h[cells[i].child]) /\ g[right] = h[right]
    BY <1>1 DEF ChildPages
  <2>2. /\ Walked(f, g, p) = FlattenSeq([i \in DOMAIN cells |-> g[cells[i].child]]) \o g[right]
        /\ Walked(f, h, p) = FlattenSeq([i \in DOMAIN cells |-> h[cells[i].child]]) \o h[right]
    BY <1>1 DEF Walked
  <2> HIDE DEF cells, right
  <2>3. [i \in DOMAIN cells |-> g[cells[i].child]] = [i \in DOMAIN cells |-> h[cells[i].child]]
    BY <2>1
  <2> QED BY <2>1, <2>2, <2>3
<1>2. CASE f[p].kind # "inode"
  BY <1>2 DEF Walked
<1> QED BY <1>1, <1>2

(* The certificate is a fixed point of the walk.                           *)
LEMMA CertificateWalks ==
  ASSUME NEW f, NEW S, Certified(f, S)
  PROVE  S = [p \in DOMAIN f |-> Walked(f, S, p)]
<1>1. S = [p \in DOMAIN f |-> S[p]]
  BY DEF Certified
<1>2. ASSUME NEW p \in DOMAIN f
      PROVE  S[p] = Walked(f, S, p)
  <2>0. PageReads(f, S, p)
    BY DEF Certified
  <2>1. CASE f[p].kind = "leaf"
    <3> DEFINE cells == f[p].cells
    <3>1. /\ S[p] = [i \in DOMAIN cells |-> cells[i].row]
          /\ \A i \in DOMAIN cells : cells[i] \in Cell /\ Whole(f, cells[i], TableMaxLocal)
      BY <2>0, <2>1 DEF PageReads
    <3>2. Walked(f, S, p) = [i \in DOMAIN cells |-> ReadRow(f, cells[i], TableMaxLocal)]
      BY <2>1 DEF Walked
    <3> HIDE DEF cells
    <3>3. \A i \in DOMAIN cells : ReadRow(f, cells[i], TableMaxLocal) = cells[i].row
      BY <3>1, Limits, WholeReads
    <3> QED BY <3>1, <3>2, <3>3
  <2>2. CASE f[p].kind = "inode"
    BY <2>0, <2>2 DEF PageReads, Walked
  <2>3. CASE f[p].kind \notin {"leaf", "inode"}
    BY <2>0, <2>3 DEF PageReads, Walked
  <2> QED BY <2>1, <2>2, <2>3
<1> QED BY <1>1, <1>2

(* The walk of a page returns what the certificate has for it.             *)
LEMMA WalkReturns ==
  ASSUME NEW f, NEW S, Certified(f, S)
  PROVE  \A p \in DOMAIN f : WalkTable(f, p) = S[p]
<1> DEFINE walk == CHOOSE h : h = [p \in DOMAIN f |-> Walked(f, h, p)]
<1>1. \A p : WalkTable(f, p) = walk[p]
  BY DEF WalkTable, Walked
<1>2. S = [p \in DOMAIN f |-> Walked(f, S, p)]
  BY CertificateWalks
<1>3. walk = [p \in DOMAIN f |-> Walked(f, walk, p)]
  BY <1>2
<1> HIDE DEF walk
<1>4. \A p \in DOMAIN f : walk[p] = Walked(f, walk, p)
  <2> DEFINE W(p) == Walked(f, walk, p)
  <2>1. walk = [p \in DOMAIN f |-> W(p)]
    BY <1>3
  <2> HIDE DEF W
  <2>2. \A p \in DOMAIN f : walk[p] = W(p)
    BY <2>1
  <2> QED BY <2>2 DEF W
<1>5. \A p \in DOMAIN f : S[p] = Walked(f, S, p)
  <2> DEFINE W(p) == Walked(f, S, p)
  <2>1. S = [p \in DOMAIN f |-> W(p)]
    BY <1>2
  <2> HIDE DEF W
  <2>2. \A p \in DOMAIN f : S[p] = W(p)
    BY <2>1
  <2> QED BY <2>2 DEF W
<1>6. \A p \in DOMAIN f : f[p].kind = "inode" =>
        \A c \in ChildPages(f[p]) : c \in DOMAIN f /\ c # 1 /\ (p = 1 \/ c < p)
  BY DEF Certified, PageReads
<1>7. \A p \in DOMAIN f \ {1} : walk[p] = S[p]
  <2> DEFINE Wrong == {p \in DOMAIN f \ {1} : walk[p] # S[p]}
  <2>1. SUFFICES ASSUME Wrong # {} PROVE FALSE
    OBVIOUS
  <2>2. Wrong \subseteq Nat
    BY DEF Certified
  <2>3. PICK p \in Wrong : \A q \in Wrong : p <= q
    BY <2>1, <2>2, LeastNumber
  <2>4. f[p].kind = "inode" => \A c \in ChildPages(f[p]) : walk[c] = S[c]
    <3> SUFFICES ASSUME f[p].kind = "inode", NEW c \in ChildPages(f[p]) PROVE walk[c] = S[c]
      OBVIOUS
    <3>1. c \in DOMAIN f /\ c # 1 /\ c < p /\ c \in Nat /\ p \in Nat
      BY <1>6, <2>2 DEF Certified
    <3>2. ~ (p <= c)
      BY <3>1
    <3> QED BY <2>3, <3>1, <3>2
  <2>5. Walked(f, walk, p) = Walked(f, S, p)
    BY <2>4, WalkedAgree
  <2> QED BY <1>4, <1>5, <2>5
<1>8. \A p \in DOMAIN f : walk[p] = S[p]
  <2> SUFFICES ASSUME NEW p \in DOMAIN f, p = 1 PROVE walk[p] = S[p]
    BY <1>7
  <2>1. f[p].kind = "inode" => \A c \in ChildPages(f[p]) : walk[c] = S[c]
    BY <1>6, <1>7
  <2>2. Walked(f, walk, p) = Walked(f, S, p)
    BY <2>1, WalkedAgree
  <2> QED BY <1>4, <1>5, <2>2
<1> QED BY <1>1, <1>8

-----------------------------------------------------------------------------
(* Adding pages                                                            *)

(* Pages added in two steps.                                               *)
LEMMA OverTwice ==
  ASSUME NEW f, NEW g, NEW h
  PROVE  Over(f, Over(g, h)) = Over(Over(f, g), h)
<1> DEFINE l == Over(f, Over(g, h))
           r == Over(Over(f, g), h)
           D == DOMAIN f \cup DOMAIN g \cup DOMAIN h
           F(p) == IF p \in DOMAIN h THEN h[p] ELSE IF p \in DOMAIN g THEN g[p] ELSE f[p]
<1>1. l = [p \in D |-> F(p)]
  BY DEF Over
<1>2. r = [p \in D |-> F(p)]
  BY DEF Over
<1> QED BY <1>1, <1>2

(* What was there reads as it did.                                         *)
LEMMA ReadsKept ==
  ASSUME NEW f, NEW g, NEW S, NEW R, NEW p \in DOMAIN f,
         DOMAIN f \cap DOMAIN g = {}, DOMAIN S = DOMAIN f, DOMAIN R = DOMAIN g,
         PageReads(f, S, p)
  PROVE  PageReads(Over(f, g), Over(S, R), p)
<1> DEFINE F == Over(f, g)
           T == Over(S, R)
           page == f[p]
<1>1. /\ \A q \in DOMAIN f : q \in DOMAIN F /\ F[q] = f[q] /\ T[q] = S[q]
      /\ F[p] = page
  BY DEF Over
<1> HIDE DEF F, T
<1>2. CASE page.kind = "leaf"
  <2> DEFINE cells == page.cells
  <2>1. /\ \A i \in DOMAIN cells : cells[i] \in Cell /\ Whole(f, cells[i], TableMaxLocal)
        /\ S[p] = [i \in DOMAIN cells |-> cells[i].row]
    BY <1>2 DEF PageReads
  <2> HIDE DEF cells
  <2>2. \A i \in DOMAIN cells : cells[i] \in Cell /\ Whole(F, cells[i], TableMaxLocal)
    BY <2>1, WholeOver DEF F
  <2>3. T[p] = [i \in DOMAIN cells |-> cells[i].row]
    BY <1>1, <2>1
  <2> QED BY <1>1, <1>2, <2>2, <2>3 DEF PageReads, cells, F, T
<1>3. CASE page.kind = "inode"
  <2> DEFINE cells == page.cells
             right == page.right
  <2>1. /\ \A c \in ChildPages(page) : c \in DOMAIN f /\ c # 1 /\ (p = 1 \/ c < p)
        /\ S[p] = FlattenSeq([i \in DOMAIN cells |-> S[cells[i].child]]) \o S[right]
    BY <1>3 DEF PageReads
  <2>2. right \in DOMAIN f /\ \A i \in DOMAIN cells : cells[i].child \in DOMAIN f
    BY <2>1 DEF ChildPages
  <2> HIDE DEF cells, right, page
  <2>3. [i \in DOMAIN cells |-> T[cells[i].child]] = [i \in DOMAIN cells |-> S[cells[i].child]]
    BY <1>1, <2>2
  <2>4. T[p] = FlattenSeq([i \in DOMAIN cells |-> T[cells[i].child]]) \o T[right]
    BY <1>1, <2>1, <2>2, <2>3
  <2>5. \A c \in ChildPages(page) : c \in DOMAIN F /\ c # 1 /\ (p = 1 \/ c < p)
    BY <1>1, <2>1
  <2> QED BY <1>1, <1>3, <2>4, <2>5 DEF PageReads, cells, right, F, T
<1>4. CASE page.kind \notin {"leaf", "inode"}
  BY <1>1, <1>4 DEF PageReads, F, T
<1> QED BY <1>2, <1>3, <1>4

(* With these pages the certificate holds of what was there and of them.   *)
Added(f, g, S, R) ==
  /\ Certified(Over(f, g), Over(S, R))
  /\ \A p \in DOMAIN f : p \in DOMAIN Over(f, g) /\ Over(S, R)[p] = S[p]
  /\ \A p \in DOMAIN g : p \in DOMAIN Over(f, g) /\ Over(S, R)[p] = R[p]

(* A certificate of the pages there and of those added.                    *)
LEMMA CertificateGrows ==
  ASSUME NEW f, NEW g, NEW S, NEW R, Certified(f, S),
         DOMAIN f \cap DOMAIN g = {}, DOMAIN g \subseteq Nat, R \in [DOMAIN g -> Seq(ReadOut)],
         \A p \in DOMAIN g : PageReads(Over(f, g), Over(S, R), p)
  PROVE  Added(f, g, S, R)
<1> DEFINE F == Over(f, g)
           T == Over(S, R)
<1>1. /\ DOMAIN f \subseteq Nat /\ DOMAIN S = DOMAIN f /\ DOMAIN R = DOMAIN g
      /\ \A p \in DOMAIN f : S[p] \in Seq(ReadOut) /\ PageReads(f, S, p)
      /\ \A p \in DOMAIN g : R[p] \in Seq(ReadOut)
  BY DEF Certified
<1>2. /\ DOMAIN F = DOMAIN f \cup DOMAIN g
      /\ T = [p \in DOMAIN F |-> T[p]]
      /\ \A p \in DOMAIN f : p \in DOMAIN F /\ T[p] = S[p]
      /\ \A p \in DOMAIN g : p \in DOMAIN F /\ T[p] = R[p]
  BY <1>1 DEF Over
<1>3. \A p \in DOMAIN f : PageReads(F, T, p)
  BY <1>1, ReadsKept
<1> HIDE DEF F, T
<1>4. \A p \in DOMAIN F : T[p] \in Seq(ReadOut)
  BY <1>1, <1>2
<1>5. T \in [DOMAIN F -> Seq(ReadOut)]
  BY <1>2, <1>4
<1>6. \A p \in DOMAIN F : PageReads(F, T, p)
  BY <1>2, <1>3 DEF F, T
<1>7. DOMAIN F \subseteq Nat
  BY <1>1, <1>2
<1> QED BY <1>2, <1>5, <1>6, <1>7 DEF Added, Certified, F, T

(* The certificate of pages that are none of a table.                      *)
Refused(g) == [p \in DOMAIN g |-> <<Truncated>>]

(* Overflow pages and index pages add nothing to what can be read.         *)
LEMMA RefusedGrows ==
  ASSUME NEW f, NEW g, NEW S, Certified(f, S),
         DOMAIN f \cap DOMAIN g = {}, DOMAIN g \subseteq Nat,
         \A p \in DOMAIN g : g[p].kind \notin {"leaf", "inode"}
  PROVE  Added(f, g, S, Refused(g))
<1> DEFINE R == Refused(g)
<1>1. DOMAIN R = DOMAIN g /\ \A p \in DOMAIN g : R[p] = <<Truncated>>
  BY DEF Refused
<1>2. R \in [DOMAIN g -> Seq(ReadOut)]
  BY DEF Refused, ReadOut
<1> HIDE DEF R
<1>3. ASSUME NEW p \in DOMAIN g
      PROVE  PageReads(Over(f, g), Over(S, R), p)
  <2>1. Over(f, g)[p] = g[p] /\ Over(S, R)[p] = <<Truncated>>
    BY <1>1 DEF Over
  <2> HIDE DEF R
  <2> QED BY <2>1 DEF PageReads
<1> QED BY <1>2, <1>3, CertificateGrows DEF R

(* With this page added what was read is read, and of the page, out.       *)
Grown(f, S, q, page, out) ==
  LET F == Over(f, At(q, page))
      T == Over(S, At(q, out))
  IN  /\ Certified(F, T)
      /\ \A p \in DOMAIN f : p \in DOMAIN F /\ T[p] = S[p]
      /\ q \in DOMAIN F /\ T[q] = out

(* One page more, and what is read there.                                  *)
LEMMA PageGrows ==
  ASSUME NEW f, NEW S, Certified(f, S), NEW q \in Nat, q \notin DOMAIN f,
         NEW page, NEW out \in Seq(ReadOut),
         PageReads(Over(f, At(q, page)), Over(S, At(q, out)), q)
  PROVE  Grown(f, S, q, page, out)
<1> DEFINE g == At(q, page)
           R == At(q, out)
<1>1. DOMAIN g = {q} /\ R[q] = out /\ R \in [{q} -> Seq(ReadOut)]
  BY DEF At
<1> HIDE DEF g, R
<1>2. DOMAIN f \cap DOMAIN g = {} /\ DOMAIN g \subseteq Nat /\ R \in [DOMAIN g -> Seq(ReadOut)]
  BY <1>1
<1>3. \A p \in DOMAIN g : PageReads(Over(f, g), Over(S, R), p)
  <2>1. PageReads(Over(f, g), Over(S, R), q)
    BY DEF g, R
  <2> QED BY <1>1, <2>1
<1>4. Added(f, g, S, R)
  BY <1>2, <1>3, CertificateGrows
<1>5. q \in DOMAIN Over(f, g) /\ Over(S, R)[q] = out
  BY <1>1, <1>4 DEF Added
<1> QED BY <1>4, <1>5 DEF Added, Grown, g, R

-----------------------------------------------------------------------------
(* What the pages of a level hold together                                 *)

Held(S, kids) == [i \in DOMAIN kids |-> S[kids[i].page]]
Flat(S, kids) == FlattenSeq(Held(S, kids))
InFile(f, kids) == \A i \in DOMAIN kids : kids[i].page \in DOMAIN f

(* It is a sequence of rows.                                               *)
LEMMA HeldTyped ==
  ASSUME NEW f, NEW S, Certified(f, S), NEW kids \in Seq(Kid), InFile(f, kids)
  PROVE  /\ Held(S, kids) \in Seq(Seq(ReadOut)) /\ Len(Held(S, kids)) = Len(kids)
         /\ Flat(S, kids) \in Seq(ReadOut)
<1>1. Len(kids) \in Nat /\ DOMAIN kids = 1..Len(kids)
  OBVIOUS
<1>2. \A i \in DOMAIN kids : S[kids[i].page] \in Seq(ReadOut)
  BY DEF Certified, InFile
<1> DEFINE n == Len(kids)
           out(i) == S[kids[i].page]
<1>3. Held(S, kids) = [i \in 1..n |-> out(i)] /\ \A i \in 1..n : out(i) \in Seq(ReadOut)
  BY <1>1, <1>2 DEF Held
<1> HIDE DEF out, n
<1>4. n \in Nat
  BY <1>1 DEF n
<1>5. Held(S, kids) \in Seq(Seq(ReadOut)) /\ Len(Held(S, kids)) = n
  BY <1>3, <1>4
<1>6. Flat(S, kids) \in Seq(ReadOut)
  BY <1>5, FlattenedInSeq DEF Flat
<1> QED BY <1>5, <1>6 DEF n

(* It depends on the pages of the level only.                              *)
LEMMA FlatKept ==
  ASSUME NEW f, NEW S, NEW T, NEW kids, InFile(f, kids), \A p \in DOMAIN f : T[p] = S[p]
  PROVE  Flat(T, kids) = Flat(S, kids)
<1>1. \A i \in DOMAIN kids : T[kids[i].page] = S[kids[i].page]
  BY DEF InFile
<1>2. Held(T, kids) = Held(S, kids)
  BY <1>1 DEF Held
<1> QED BY <1>2 DEF Flat

(* One page more adds its rows.                                            *)
LEMMA FlatAppend ==
  ASSUME NEW f, NEW S, Certified(f, S), NEW kids \in Seq(Kid), InFile(f, kids),
         NEW kid \in Kid, kid.page \in DOMAIN f
  PROVE  Flat(S, Append(kids, kid)) = Flat(S, kids) \o S[kid.page]
<1> DEFINE n == Len(kids)
           more == Append(kids, kid)
           held == Held(S, kids)
           out == S[kid.page]
<1>1. /\ n \in Nat /\ DOMAIN kids = 1..n /\ DOMAIN more = 1..(n + 1)
      /\ more[n + 1] = kid /\ \A i \in 1..n : more[i] = kids[i]
  OBVIOUS
<1>2. /\ held \in Seq(Seq(ReadOut)) /\ Len(held) = n /\ out \in Seq(ReadOut)
      /\ \A i \in 1..n : held[i] = S[kids[i].page]
  <2>1. held \in Seq(Seq(ReadOut)) /\ Len(held) = n
    BY HeldTyped
  <2>2. out \in Seq(ReadOut)
    BY DEF Certified
  <2>3. \A i \in 1..n : held[i] = S[kids[i].page]
    BY <1>1 DEF Held
  <2> QED BY <2>1, <2>2, <2>3
<1>3. Held(S, more) = [i \in 1..(n + 1) |-> S[more[i].page]]
  BY <1>1 DEF Held
<1> HIDE DEF n, more, held, out
<1>4. \A i \in 1..(n + 1) : S[more[i].page] = IF i = n + 1 THEN out ELSE held[i]
  <2>1. \A i \in 1..(n + 1) : i = n + 1 \/ i \in 1..n
    BY <1>1
  <2> QED BY <1>1, <1>2, <2>1 DEF out
<1> DEFINE W == Seq(ReadOut)
           joint == Append(held, out)
<1>5. held \in Seq(W) /\ out \in W
  BY <1>2
<1> HIDE DEF W
<1>6. /\ joint \in Seq(W) /\ Len(joint) = n + 1 /\ joint[n + 1] = out
      /\ \A i \in 1..n : joint[i] = held[i]
  BY <1>1, <1>2, <1>5
<1> HIDE DEF joint
<1>8. joint = [i \in 1..(n + 1) |-> joint[i]]
  BY <1>1, <1>6
<1>9. \A i \in 1..(n + 1) : joint[i] = IF i = n + 1 THEN out ELSE held[i]
  BY <1>1, <1>6
<1>10. Held(S, more) = Append(held, out)
  <2>1. \A i \in 1..(n + 1) : S[more[i].page] = joint[i]
    BY <1>4, <1>9
  <2> QED BY <1>3, <1>8, <2>1 DEF joint
<1>7. FlattenSeq(Append(held, out)) = FlattenSeq(held) \o out
  BY <1>2, FlattenAppend
<1> QED BY <1>7, <1>10 DEF Flat, more, held, out

(* A run of a sequence and the run after it.                               *)
LEMMA AdjacentRuns ==
  ASSUME NEW W, NEW s \in Seq(W), NEW d \in Nat, NEW t \in Nat, d + t <= Len(s)
  PROVE  SubSeq(s, 1, d) \o SubSeq(s, d + 1, d + t) = SubSeq(s, 1, d + t)
<1> DEFINE a == SubSeq(s, 1, d)
           b == SubSeq(s, d + 1, d + t)
           c == SubSeq(s, 1, d + t)
<1>1. /\ a \in Seq(W) /\ Len(a) = d /\ \A i \in 1..d : a[i] = s[i]
      /\ b \in Seq(W) /\ Len(b) = t /\ \A i \in 1..t : b[i] = s[d + i]
      /\ c \in Seq(W) /\ Len(c) = d + t /\ \A i \in 1..(d + t) : c[i] = s[i]
  <2>1. Len(s) \in Nat /\ \A i \in 1..Len(s) : s[i] \in W
    OBVIOUS
  <2>2. a \in Seq(W) /\ Len(a) = d /\ \A i \in 1..d : a[i] = s[i]
    BY <2>1
  <2>3. b \in Seq(W) /\ Len(b) = t /\ \A i \in 1..t : b[i] = s[d + i]
    BY <2>1
  <2>4. c \in Seq(W) /\ Len(c) = d + t /\ \A i \in 1..(d + t) : c[i] = s[i]
    BY <2>1
  <2> QED BY <2>2, <2>3, <2>4
<1> HIDE DEF a, b, c
<1> DEFINE ab == a \o b
<1>2. /\ ab \in Seq(W) /\ Len(ab) = d + t
      /\ \A i \in 1..(d + t) : ab[i] = IF i <= d THEN a[i] ELSE b[i - d]
  <2>1. ab \in Seq(W) /\ Len(ab) = Len(a) + Len(b)
    BY <1>1
  <2>2. ASSUME NEW i \in 1..(Len(a) + Len(b))
        PROVE  ab[i] = IF i <= Len(a) THEN a[i] ELSE b[i - Len(a)]
    BY <1>1
  <2> HIDE DEF ab
  <2> QED BY <1>1, <2>1, <2>2
<1> HIDE DEF ab
<1>3. \A i \in 1..(d + t) : ab[i] = c[i]
  <2> SUFFICES ASSUME NEW i \in 1..(d + t) PROVE ab[i] = c[i]
    OBVIOUS
  <2>1. ab[i] = (IF i <= d THEN a[i] ELSE b[i - d]) /\ c[i] = s[i] /\ i \in Nat
    BY <1>1, <1>2
  <2>2. CASE i <= d
    <3>1. i \in 1..d
      BY <2>1, <2>2
    <3>2. a[i] = s[i]
      BY <1>1, <3>1
    <3> QED BY <2>1, <2>2, <3>2
  <2>3. CASE ~ (i <= d)
    <3>1. i - d \in 1..t /\ d + (i - d) = i
      BY <2>1, <2>3
    <3>2. b[i - d] = s[d + (i - d)]
      BY <1>1, <3>1
    <3> QED BY <2>1, <2>3, <3>1, <3>2
  <2> QED BY <2>2, <2>3
<1>4. ab = c
  BY <1>1, <1>2, <1>3, SeqEqual
<1> QED BY <1>4 DEF a, b, c, ab

Splits(S, kids, d, t) ==
  Flat(S, SubSeq(kids, 1, d + t))
    = Flat(S, SubSeq(kids, 1, d)) \o Flat(S, SubSeq(kids, d + 1, d + t))

(* A run of pages and the run after it.                                    *)
LEMMA FlatSplit ==
  ASSUME NEW f, NEW S, Certified(f, S), NEW kids \in Seq(Kid), InFile(f, kids),
         NEW d \in Nat, NEW t \in Nat, d + t <= Len(kids)
  PROVE  Splits(S, kids, d, t)
<1> DEFINE held == Held(S, kids)
           n == Len(kids)
<1>1. /\ held \in Seq(Seq(ReadOut)) /\ Len(held) = n /\ n \in Nat /\ DOMAIN kids = 1..n
      /\ \A i \in 1..n : held[i] = S[kids[i].page]
  BY HeldTyped DEF Held
<1>2. ASSUME NEW a \in 1..(n + 1), NEW b \in 0..n
      PROVE  Held(S, SubSeq(kids, a, b)) = SubSeq(held, a, b)
  <2> DEFINE part == SubSeq(kids, a, b)
             m == IF a <= b THEN b - a + 1 ELSE 0
  <2>1. /\ m \in Nat /\ DOMAIN part = 1..m /\ \A i \in 1..m : part[i] = kids[a + i - 1]
        /\ \A i \in 1..m : a + i - 1 \in 1..n
    BY <1>1
  <2>2. /\ SubSeq(held, a, b) = [i \in 1..m |-> held[a + i - 1]]
    <3> HIDE DEF held
    <3> QED BY <1>1
  <2>3. Held(S, part) = [i \in 1..m |-> S[part[i].page]]
    BY <2>1 DEF Held
  <2> HIDE DEF part, m, held
  <2>4. \A i \in 1..m : S[part[i].page] = held[a + i - 1]
    BY <1>1, <2>1
  <2>5. Held(S, part) = SubSeq(held, a, b)
    BY <2>2, <2>3, <2>4
  <2> QED BY <2>5 DEF part
<1> HIDE DEF held, n
<1>3. /\ 1 \in 1..(n + 1) /\ d + t \in 0..n /\ d \in 0..n /\ d + 1 \in 1..(n + 1)
      /\ d \in 0..n /\ d + t \in d..n
  BY <1>1 DEF n
<1>4. /\ Held(S, SubSeq(kids, 1, d + t)) = SubSeq(held, 1, d + t)
      /\ Held(S, SubSeq(kids, 1, d)) = SubSeq(held, 1, d)
      /\ Held(S, SubSeq(kids, d + 1, d + t)) = SubSeq(held, d + 1, d + t)
  BY <1>2, <1>3
<1>5. SubSeq(held, 1, d) \o SubSeq(held, d + 1, d + t) = SubSeq(held, 1, d + t)
  <2> DEFINE W == Seq(ReadOut)
  <2>1. held \in Seq(W) /\ d \in Nat /\ t \in Nat /\ d + t <= Len(held)
    BY <1>1 DEF n
  <2> HIDE DEF W
  <2> QED BY <2>1, AdjacentRuns
<1>6. SubSeq(held, 1, d) \in Seq(Seq(ReadOut)) /\ SubSeq(held, d + 1, d + t) \in Seq(Seq(ReadOut))
  BY <1>1, <1>3
<1>7. FlattenSeq(SubSeq(held, 1, d) \o SubSeq(held, d + 1, d + t))
        = FlattenSeq(SubSeq(held, 1, d)) \o FlattenSeq(SubSeq(held, d + 1, d + t))
  BY <1>6, FlattenConcat
<1> QED BY <1>4, <1>5, <1>7 DEF Flat, Splits

(* An interior page over these pages reads as they do together.            *)
LEMMA InteriorReads ==
  ASSUME NEW f, NEW S, Certified(f, S), NEW group \in Seq(Kid), Len(group) > 0, InFile(f, group)
  PROVE  /\ ChildPages(Interior(group)) \subseteq DOMAIN f
         /\ FlattenSeq([i \in DOMAIN Interior(group).cells |-> S[Interior(group).cells[i].child]])
              \o S[Interior(group).right] = Flat(S, group)
<1> DEFINE n == Len(group)
           page == Interior(group)
           front == SubSeq(group, 1, n - 1)
           last == group[n]
<1>1. /\ n \in Nat /\ n >= 1 /\ DOMAIN group = 1..n
      /\ \A i \in 1..n : group[i] \in Kid
  OBVIOUS
<1>2. /\ page.right = last.page
      /\ page.cells = [i \in 1..(n - 1) |-> [child |-> group[i].page, key |-> group[i].key]]
  BY DEF Interior, Last
<1>3. /\ front \in Seq(Kid) /\ last \in Kid /\ DOMAIN front = 1..(n - 1)
      /\ \A i \in 1..(n - 1) : front[i] = group[i]
      /\ group = Append(front, last)
  BY <1>1
<1> HIDE DEF n, page, front, last
<1>4. /\ last.page \in DOMAIN f /\ InFile(f, front)
      /\ \A i \in 1..n : group[i].page \in DOMAIN f
  BY <1>1, <1>3 DEF InFile, last
<1>5. /\ DOMAIN page.cells = 1..(n - 1)
      /\ \A i \in 1..(n - 1) : page.cells[i].child = front[i].page
  <2>1. \A i \in 1..(n - 1) : page.cells[i].child = group[i].page
    BY <1>2
  <2>2. DOMAIN page.cells = 1..(n - 1)
    BY <1>2
  <2> QED BY <1>3, <2>1, <2>2
<1>6. [i \in DOMAIN page.cells |-> S[page.cells[i].child]] = Held(S, front)
  BY <1>3, <1>5 DEF Held
<1>7. Flat(S, group) = Flat(S, front) \o S[last.page]
  BY <1>3, <1>4, FlatAppend
<1>8. ChildPages(page) \subseteq DOMAIN f
  <2>1. \A i \in DOMAIN page.cells : page.cells[i].child \in DOMAIN f
    BY <1>3, <1>4, <1>5 DEF InFile
  <2> QED BY <1>2, <1>4, <2>1 DEF ChildPages
<1> QED BY <1>2, <1>6, <1>7, <1>8 DEF Flat, page

-----------------------------------------------------------------------------
(* The invariant                                                           *)

(* The rows of the table in hand, sqlite_master's when all are built.      *)
TreeRows == IF Building THEN This.rows ELSE MasterRows

RowsOf(cells) == [i \in DOMAIN cells |-> cells[i].row]

(* The leaves closed so far read as the rows before the open one, and the   *)
(* pages of a level above as those of the level below that they are over.  *)
Packed(S) ==
  stage \in {"leaves", "inner"} =>
    /\ InFile(pages, above)
    /\ Building => This.kind = "table"
    /\ stage = "leaves" =>
         /\ \A i \in DOMAIN items : Whole(pages, items[i], TableMaxLocal)
         /\ RowsOf(items) = TreeRows
         /\ Flat(S, above) = SubSeq(TreeRows, 1, done)
    /\ stage = "inner" =>
         /\ InFile(pages, items)
         /\ Flat(S, items) = TreeRows
         /\ Flat(S, above) = Flat(S, SubSeq(items, 1, done))

(* Every root taken reads as the rows of its table.                        *)
Rooted(S) ==
  /\ \A i \in DOMAIN roots : objects[i].kind = "table" =>
       roots[i] \in DOMAIN pages /\ S[roots[i]] = objects[i].rows
  /\ stage \in {"ileaves", "iinner"} => This.kind = "index"
  /\ stage = "written" => ~Building /\ 1 \in DOMAIN pages /\ S[1] = MasterRows

Readable(S) == Certified(pages, S) /\ Packed(S) /\ Rooted(S)

ReadsBack == \E S : Readable(S)

(* With no page nothing is promised.                                       *)
LEMMA ReadsBackInit == Init => ReadsBack
<1> SUFFICES ASSUME Init PROVE ReadsBack
  OBVIOUS
<1>1. pages = <<>> /\ roots = <<>> /\ stage = "object"
  BY DEF Init
<1>2. DOMAIN pages = {} /\ DOMAIN roots = {}
  BY <1>1
<1>3. PICK S : S = [p \in {} |-> 0]
  OBVIOUS
<1>4. S \in [DOMAIN pages -> Seq(ReadOut)]
  BY <1>2, <1>3
<1>5. Certified(pages, S)
  BY <1>2, <1>4 DEF Certified
<1>6. Packed(S) /\ Rooted(S)
  BY <1>1, <1>2 DEF Packed, Rooted
<1> QED BY <1>5, <1>6 DEF ReadsBack, Readable

(* A step that only fills the open page leaves all of this alone.          *)
LEMMA ReadsBackFilling ==
  ASSUME ReadsBack, UNCHANGED <<objects, roots, pages, items, done, above, stage>>
  PROVE  ReadsBack'
<1>1. PICK S : Readable(S)
  BY DEF ReadsBack
<1>2. Building' = Building /\ This' = This /\ MasterRows' = MasterRows
  BY DEF Building, This, MasterRows
<1>3. TreeRows' = TreeRows
  BY <1>2 DEF TreeRows
<1>4. Packed(S)'
  BY <1>1, <1>2, <1>3 DEF Readable, Packed
<1>5. Rooted(S)'
  BY <1>1, <1>2 DEF Readable, Rooted
<1>6. Certified(pages, S)'
  BY <1>1 DEF Readable
<1> QED BY <1>4, <1>5, <1>6 DEF ReadsBack, Readable

(* The four steps that do only that, and doing nothing.                    *)
LEMMA ReadsBackPlace ==
  ReadsBack /\ (PlaceCell \/ PlaceChild \/ PlaceRecord \/ PlaceDivider \/ UNCHANGED vars) => ReadsBack'
<1> SUFFICES ASSUME ReadsBack,
                    PlaceCell \/ PlaceChild \/ PlaceRecord \/ PlaceDivider \/ UNCHANGED vars
             PROVE  ReadsBack'
  OBVIOUS
<1>1. UNCHANGED <<objects, roots, pages, items, done, above, stage>>
  BY DEF PlaceCell, PlaceChild, PlaceRecord, PlaceDivider, vars, level
<1> QED BY <1>1, ReadsBackFilling

(* Roots already taken stay good.                                          *)
LEMMA RootsStay ==
  ASSUME NEW S, Rooted(S), NEW T, \A p \in DOMAIN pages : p \in DOMAIN pages' /\ T[p] = S[p],
         objects' = objects, roots' = roots,
         stage' # "written", stage' \in {"ileaves", "iinner"} => This.kind = "index"
  PROVE  Rooted(T)'
<1>1. This' = This
  BY DEF This
<1> QED BY <1>1 DEF Rooted

(* A call that fails has written what it had written.                      *)
LEMMA ReadsBackCellTooLarge == ReadsBack /\ CellTooLarge => ReadsBack'
<1> SUFFICES ASSUME ReadsBack, CellTooLarge PROVE ReadsBack'
  OBVIOUS
<1>1. PICK S : Readable(S)
  BY DEF ReadsBack
<1>2. stage' = "failed" /\ pages' = pages /\ objects' = objects /\ roots' = roots
  BY DEF CellTooLarge
<1>3. Rooted(S)'
  BY <1>1, <1>2, RootsStay DEF Readable
<1>4. Packed(S)'
  BY <1>2 DEF Packed
<1>5. Certified(pages, S)'
  BY <1>1, <1>2 DEF Readable
<1> QED BY <1>3, <1>4, <1>5 DEF ReadsBack, Readable

(* The root of the object in hand is added to those taken.                 *)
LEMMA RootAdded ==
  ASSUME Typed, Building, NEW S, Rooted(S), NEW root \in Nat,
         roots' = Append(roots, root), objects' = objects, pages' = pages, stage' = "object",
         This.kind = "table" => root \in DOMAIN pages /\ S[root] = This.rows
  PROVE  Rooted(S)'
<1>1. /\ roots \in Seq(Nat) /\ Len(roots) \in Nat /\ DOMAIN roots = 1..Len(roots)
      /\ DOMAIN roots' = 1..(Len(roots) + 1)
      /\ \A i \in 1..Len(roots) : roots'[i] = roots[i]
      /\ roots'[Len(roots) + 1] = root
  BY DEF Typed
<1>2. ASSUME NEW i \in DOMAIN roots', objects[i].kind = "table"
      PROVE  roots'[i] \in DOMAIN pages /\ S[roots'[i]] = objects[i].rows
  <2>1. CASE i \in 1..Len(roots)
    BY <1>1, <1>2, <2>1 DEF Rooted
  <2>2. CASE i = Len(roots) + 1
    BY <1>1, <1>2, <2>2 DEF This
  <2> QED BY <1>1, <2>1, <2>2
<1> QED BY <1>2 DEF Rooted

(* A trigger or a virtual table has no page.                               *)
LEMMA ReadsBackSchemaOnly == Invariant /\ ReadsBack /\ SchemaOnly => ReadsBack'
<1> SUFFICES ASSUME Invariant, ReadsBack, SchemaOnly PROVE ReadsBack'
  OBVIOUS
<1>1. PICK S : Readable(S)
  BY DEF ReadsBack
<1>2. /\ Building /\ This.kind = "schema" /\ stage = "object" /\ stage' = stage
      /\ roots' = Append(roots, 0) /\ objects' = objects /\ pages' = pages
  BY DEF SchemaOnly
<1>3. Rooted(S)'
  BY <1>1, <1>2, RootAdded DEF Readable, Invariant
<1>4. Packed(S)'
  BY <1>2 DEF Packed
<1>5. Certified(pages, S)'
  BY <1>1, <1>2 DEF Readable
<1> QED BY <1>3, <1>4, <1>5 DEF ReadsBack, Readable

(* An index begins, or goes on with its next level.                        *)
LEMMA ReadsBackIndexLevel == ReadsBack /\ (BeginIndex \/ NextIndexLevel) => ReadsBack'
<1> SUFFICES ASSUME ReadsBack, BeginIndex \/ NextIndexLevel PROVE ReadsBack'
  OBVIOUS
<1>1. PICK S : Readable(S)
  BY DEF ReadsBack
<1>2. /\ stage' \in {"ileaves", "iinner"} /\ pages' = pages /\ objects' = objects /\ roots' = roots
      /\ This.kind = "index"
  BY <1>1 DEF BeginIndex, NextIndexLevel, IndexLevelDone, Readable, Rooted
<1>3. Rooted(S)'
  BY <1>1, <1>2, RootsStay DEF Readable
<1>4. Packed(S)'
  BY <1>2 DEF Packed
<1>5. Certified(pages, S)'
  BY <1>1, <1>2 DEF Readable
<1> QED BY <1>3, <1>4, <1>5 DEF ReadsBack, Readable

(* The root of an index is that of no table.                               *)
LEMMA ReadsBackIndexRoot == Invariant /\ ReadsBack /\ IndexRoot => ReadsBack'
<1> SUFFICES ASSUME Invariant, ReadsBack, IndexRoot PROVE ReadsBack'
  OBVIOUS
<1>1. PICK S : Readable(S)
  BY DEF ReadsBack
<1>2. /\ stage \in {"ileaves", "iinner"} /\ stage' = "object" /\ Len(above) = 1
      /\ roots' = Append(roots, above[1]) /\ objects' = objects /\ pages' = pages
  BY DEF IndexRoot, IndexLevelDone
<1>3. Building /\ above[1] \in Nat /\ This.kind = "index"
  <2>1. Building /\ above \in Seq(Nat)
    BY <1>2 DEF Invariant, LevelTyped
  <2>2. This.kind = "index"
    BY <1>1, <1>2 DEF Readable, Rooted
  <2>3. above[1] \in Nat
    <3>1. Len(above) = 1
      BY <1>2
    <3>2. DOMAIN above = 1..1 /\ \A i \in DOMAIN above : above[i] \in Nat
      BY <2>1, <3>1, Elements
    <3> QED BY <3>2
  <2> QED BY <2>1, <2>2, <2>3
<1>4. Rooted(S)'
  BY <1>1, <1>2, <1>3, RootAdded DEF Readable, Invariant
<1>5. Packed(S)'
  BY <1>2 DEF Packed
<1>6. Certified(pages, S)'
  BY <1>1, <1>2 DEF Readable
<1> QED BY <1>4, <1>5, <1>6 DEF ReadsBack, Readable

(* A chain among the pages added is whole among all.                       *)
LEMMA WholeAdded ==
  ASSUME NEW f, NEW g, NEW cell, NEW max, Whole(g, cell, max)
  PROVE  Whole(Over(f, g), cell, max)
<1> DEFINE p(k) == cell.first + k - 1
           K == 1..Spill(cell.row.len, max)
<1>1. /\ cell.local = LocalPayload(cell.row.len, max)
      /\ \A k \in K : p(k) \in DOMAIN g /\ g[p(k)] = SpillPage(cell, max, k)
  BY DEF Whole
<1>2. \A q \in DOMAIN g : q \in DOMAIN Over(f, g) /\ Over(f, g)[q] = g[q]
  BY DEF Over
<1> HIDE DEF p, K
<1>3. \A k \in K : p(k) \in DOMAIN Over(f, g) /\ Over(f, g)[p(k)] = SpillPage(cell, max, k)
  BY <1>1, <1>2
<1> QED BY <1>1, <1>3 DEF Whole, p, K

(* The cells of rows, and what their chains add to the pages.              *)
Spelled(f, S, rows, made) ==
  /\ made.cells \in Seq(Cell) /\ RowsOf(made.cells) = rows
  /\ made.next \in Nat /\ made.next >= next /\ DOMAIN made.pages = next..(made.next - 1)
  /\ \A i \in DOMAIN made.cells : Whole(Over(f, made.pages), made.cells[i], TableMaxLocal)
  /\ Added(f, made.pages, S, Refused(made.pages))

(* The chains of a table are written before its leaves.                    *)
LEMMA ChainsRead ==
  ASSUME Invariant, Numbered, stage # "written", NEW S, Certified(pages, S),
         NEW rows \in Seq(AnyRow), NEW made, made = TreeCells(rows)
  PROVE  Spelled(pages, S, rows, made)
<1>1. next \in Nat /\ next >= 2 /\ DOMAIN pages = 2..(next - 1)
  BY DEF Invariant, Typed, Numbered
<1>2. made = Cells(rows, TableMaxLocal, next) /\ TableMaxLocal \in Nat /\ MinLocal <= TableMaxLocal
  BY Limits DEF TreeCells
<1>3. /\ made.cells \in Seq(Cell) /\ Len(made.cells) = Len(rows)
      /\ \A k \in 1..Len(rows) : made.cells[k].row = rows[k]
      /\ made.next \in Nat /\ made.next >= next /\ DOMAIN made.pages = next..(made.next - 1)
  BY <1>1, <1>2, ChainsFit
<1>4. \A i \in 1..Len(rows) : Whole(made.pages, made.cells[i], TableMaxLocal)
  BY <1>1, <1>2, CellsWhole
<1>5. \A p \in DOMAIN made.pages : made.pages[p].kind = "overflow"
  <2>1. PICK free : CellsAre(rows, TableMaxLocal, next, free)
    BY <1>1, <1>2, CellsMade
  <2> QED BY <1>2, <2>1 DEF CellsAre, IsOverflow
<1>6. /\ Len(rows) \in Nat /\ DOMAIN made.cells = 1..Len(rows)
      /\ rows = [i \in 1..Len(rows) |-> rows[i]]
  BY <1>3
<1>7. RowsOf(made.cells) = rows
  BY <1>3, <1>6 DEF RowsOf
<1>8. \A i \in DOMAIN made.cells : Whole(Over(pages, made.pages), made.cells[i], TableMaxLocal)
  BY <1>4, <1>6, WholeAdded
<1> DEFINE g == made.pages
<1>9. /\ DOMAIN pages \cap DOMAIN g = {} /\ DOMAIN g \subseteq Nat
      /\ \A p \in DOMAIN g : g[p].kind \notin {"leaf", "inode"}
  BY <1>1, <1>3, <1>5
<1> HIDE DEF g
<1>10. Added(pages, g, S, Refused(g))
  BY <1>9, RefusedGrows
<1> QED BY <1>3, <1>7, <1>8, <1>10 DEF Spelled, g

(* Nothing reads as nothing.                                               *)
LEMMA FlatOfNone ==
  ASSUME NEW S
  PROVE  Flat(S, <<>>) = <<>>
<1>1. Held(S, <<>>) = <<>>
  BY DEF Held
<1>2. FlattenSeq(<<>>) = <<>>
  BY DEF FlattenSeq
<1> QED BY <1>1, <1>2 DEF Flat

(* A table begins with its cells made and their chains written.            *)
LEMMA ReadsBackBeginTable == Invariant /\ Wired /\ ReadsBack /\ BeginTable => ReadsBack'
<1> SUFFICES ASSUME Invariant, Wired, ReadsBack, BeginTable PROVE ReadsBack'
  OBVIOUS
<1>1. PICK S : Readable(S)
  BY DEF ReadsBack
<1>2. PICK made : made = TreeCells(TreeRows)
  OBVIOUS
<1>3. /\ stage = "object" /\ stage' = "leaves" /\ objects' = objects /\ roots' = roots
      /\ items' = made.cells /\ done' = 0 /\ above' = <<>>
      /\ pages' = Over(pages, made.pages)
      /\ Building => This.kind = "table"
  BY <1>2 DEF BeginTable, OnLevel, TreeRows
<1>4. TreeRows \in Seq(AnyRow)
  BY ThisRowsTyped DEF Invariant, TreeRows
<1>5. Spelled(pages, S, TreeRows, made)
  BY <1>1, <1>2, <1>3, <1>4, ChainsRead DEF Readable, Wired
<1>6. PICK T : T = Over(S, Refused(made.pages))
  OBVIOUS
<1>7. Certified(pages, T)' /\ \A p \in DOMAIN pages : p \in DOMAIN pages' /\ T[p] = S[p]
  BY <1>3, <1>5, <1>6 DEF Spelled, Added
<1>8. Rooted(T)'
  BY <1>1, <1>3, <1>7, RootsStay DEF Readable
<1>9. This' = This /\ Building' = Building /\ MasterRows' = MasterRows /\ TreeRows' = TreeRows
  BY <1>3 DEF This, Building, MasterRows, TreeRows
<1>10. Packed(T)'
  <2>1. InFile(pages, above)'
    BY <1>3 DEF InFile
  <2>2. (\A i \in DOMAIN items : Whole(pages, items[i], TableMaxLocal))' /\ RowsOf(items)' = TreeRows
    BY <1>3, <1>5 DEF Spelled
  <2>3. Flat(T, above)' = SubSeq(TreeRows, 1, 0)
    <3> DEFINE rows == TreeRows
    <3>1. rows \in Seq(AnyRow)
      BY <1>4
    <3> HIDE DEF rows
    <3>2. SubSeq(rows, 1, 0) = <<>>
      BY <3>1
    <3>3. Flat(T, above') = <<>>
      BY <1>3, FlatOfNone
    <3> QED BY <3>2, <3>3 DEF rows
  <2> QED BY <1>3, <1>9, <2>1, <2>2, <2>3 DEF Packed
<1> QED BY <1>7, <1>8, <1>10 DEF ReadsBack, Readable


-----------------------------------------------------------------------------
(* One page more                                                           *)

(* A leaf over cells whose chains are there reads as their rows.           *)
LEMMA LeafGrows ==
  ASSUME NEW f, NEW S, Certified(f, S), NEW q \in Nat, q \notin DOMAIN f,
         NEW cells \in Seq(Cell), \A i \in DOMAIN cells : Whole(f, cells[i], TableMaxLocal)
  PROVE  Grown(f, S, q, [kind |-> "leaf", cells |-> cells], RowsOf(cells))
<1> DEFINE page == [kind |-> "leaf", cells |-> cells]
           out == RowsOf(cells)
           F == Over(f, At(q, page))
           T == Over(S, At(q, out))
<1>1. Len(cells) \in Nat /\ DOMAIN cells = 1..Len(cells) /\ \A i \in 1..Len(cells) : cells[i] \in Cell
  OBVIOUS
<1>2. out \in Seq(ReadOut)
  <2>1. \A i \in 1..Len(cells) : cells[i].row \in ReadOut
    BY <1>1 DEF Cell, ReadOut
  <2>2. out = [i \in 1..Len(cells) |-> cells[i].row]
    BY <1>1 DEF RowsOf
  <2> QED BY <1>1, <2>1, <2>2
<1>3. /\ DOMAIN At(q, page) = {q} /\ At(q, page)[q] = page
      /\ DOMAIN At(q, out) = {q} /\ At(q, out)[q] = out
  BY Single
<1> HIDE DEF page, out
<1>4. F[q] = page /\ T[q] = out
  BY <1>3 DEF Over
<1>5. \A i \in DOMAIN cells : cells[i] \in Cell /\ Whole(F, cells[i], TableMaxLocal)
  <2> DEFINE g == At(q, page)
  <2>1. DOMAIN f \cap DOMAIN g = {}
    BY <1>3
  <2> HIDE DEF g
  <2>2. \A i \in DOMAIN cells : Whole(Over(f, g), cells[i], TableMaxLocal)
    BY <2>1, WholeOver
  <2> QED BY <1>1, <2>2 DEF g
<1> HIDE DEF F, T
<1>6. PageReads(F, T, q)
  BY <1>4, <1>5 DEF PageReads, page, out, RowsOf
<1>7. Grown(f, S, q, page, out)
  <2>1. PageReads(Over(f, At(q, page)), Over(S, At(q, out)), q)
    BY <1>6 DEF F, T
  <2> QED BY <1>2, <2>1, PageGrows
<1> QED BY <1>7 DEF page, out

(* An interior page over pages that are there reads as they do together.   *)
LEMMA InteriorGrows ==
  ASSUME NEW f, NEW S, Certified(f, S), NEW q \in Nat, q \notin DOMAIN f,
         NEW group \in Seq(Kid), Len(group) > 0, InFile(f, group),
         \A p \in DOMAIN f : p # 1 /\ (q = 1 \/ p < q)
  PROVE  Grown(f, S, q, Interior(group), Flat(S, group))
<1> DEFINE page == Interior(group)
           out == Flat(S, group)
           F == Over(f, At(q, page))
           T == Over(S, At(q, out))
           cells == page.cells
           right == page.right
<1>1. /\ ChildPages(page) \subseteq DOMAIN f /\ page.kind = "inode"
      /\ FlattenSeq([i \in DOMAIN cells |-> S[cells[i].child]]) \o S[right] = out
  BY InteriorReads DEF Interior
<1>2. out \in Seq(ReadOut)
  BY HeldTyped
<1>3. /\ DOMAIN At(q, page) = {q} /\ At(q, page)[q] = page
      /\ DOMAIN At(q, out) = {q} /\ At(q, out)[q] = out
  BY Single
<1>4. DOMAIN S = DOMAIN f
  BY DEF Certified
<1>5. right \in DOMAIN f /\ \A i \in DOMAIN cells : cells[i].child \in DOMAIN f
  BY <1>1 DEF ChildPages
<1> HIDE DEF page, out, cells, right
<1>6. /\ F[q] = page /\ T[q] = out
      /\ \A p \in DOMAIN f : p \in DOMAIN F /\ T[p] = S[p]
  BY <1>3, <1>4 DEF Over
<1> HIDE DEF F, T
<1>7. [i \in DOMAIN cells |-> T[cells[i].child]] = [i \in DOMAIN cells |-> S[cells[i].child]]
  BY <1>5, <1>6
<1>8. T[q] = FlattenSeq([i \in DOMAIN cells |-> T[cells[i].child]]) \o T[right]
  BY <1>1, <1>5, <1>6, <1>7
<1>9. \A c \in ChildPages(page) : c \in DOMAIN F /\ c # 1 /\ (q = 1 \/ c < q)
  BY <1>1, <1>6
<1>10. PageReads(F, T, q)
  BY <1>1, <1>6, <1>8, <1>9 DEF PageReads, cells, right
<1>11. Grown(f, S, q, page, out)
  <2>1. PageReads(Over(f, At(q, page)), Over(S, At(q, out)), q)
    BY <1>10 DEF F, T
  <2> QED BY <1>2, <2>1, PageGrows
<1> QED BY <1>11 DEF page, out

(* The page closed adds what it reads as to what its level holds.          *)
LEMMA LevelGrows ==
  ASSUME Invariant, stage \in {"leaves", "inner"}, NEW S, Certified(pages, S),
         InFile(pages, above), NEW page, NEW key \in Int, Close(page, key),
         NEW out, Grown(pages, S, next, page, out), NEW T, T = Over(S, At(next, out))
  PROVE  /\ Certified(pages, T)'
         /\ \A p \in DOMAIN pages : p \in DOMAIN pages' /\ T[p] = S[p]
         /\ InFile(pages, above)'
         /\ Flat(T, above)' = Flat(S, above) \o out
<1>1. pages' = Over(pages, At(next, page)) /\ above' = Append(above, [page |-> next, key |-> key])
  BY DEF Close
<1>2. /\ Certified(pages', T) /\ next \in DOMAIN pages' /\ T[next] = out
      /\ \A p \in DOMAIN pages : p \in DOMAIN pages' /\ T[p] = S[p]
  BY <1>1 DEF Grown
<1> DEFINE kid == [page |-> next, key |-> key]
<1>3. kid \in Kid /\ above \in Seq(Kid) /\ kid.page = next
  BY DEF Invariant, Typed, LevelTyped, Kid
<1> HIDE DEF kid
<1>4. InFile(pages', above)
  BY <1>2 DEF InFile
<1>5. Flat(T, Append(above, kid)) = Flat(T, above) \o T[kid.page]
  BY <1>2, <1>3, <1>4, FlatAppend
<1>6. Flat(T, above) = Flat(S, above)
  BY <1>2, FlatKept
<1>7. above' = Append(above, kid)
  BY <1>1 DEF kid
<1>8. InFile(pages', above')
  <2>1. \A i \in DOMAIN above' : above'[i] = kid \/ (i \in DOMAIN above /\ above'[i] = above[i])
    BY <1>3, <1>7
  <2> QED BY <1>2, <1>3, <1>4, <2>1 DEF InFile
<1>9. Certified(pages, T)' /\ InFile(pages, above)' /\ Flat(T, above)' = Flat(T, above')
  BY <1>2, <1>8
<1> QED BY <1>2, <1>3, <1>5, <1>6, <1>7, <1>9

-----------------------------------------------------------------------------
(* Closing a page of a table                                               *)

(* A leaf with the rows next in the table.                                 *)
LEMMA LeafCloses ==
  ASSUME Invariant, Numbered, stage = "leaves", NEW S, Readable(S),
         NEW cells \in Seq(Cell), \A i \in DOMAIN cells : Whole(pages, cells[i], TableMaxLocal),
         NEW key \in Int, Close([kind |-> "leaf", cells |-> cells], key),
         SubSeq(TreeRows, 1, done) \o RowsOf(cells) = SubSeq(TreeRows, 1, done + taken),
         UNCHANGED <<objects, roots, items, stage>>
  PROVE  ReadsBack'
<1> DEFINE page == [kind |-> "leaf", cells |-> cells]
           out == RowsOf(cells)
<1>1. /\ pages' = Over(pages, At(next, page)) /\ done' = done + taken
      /\ next \in Nat /\ DOMAIN pages = 2..(next - 1)
  BY DEF Close, Invariant, Typed, Numbered
<1>2. next \notin DOMAIN pages
  BY <1>1
<1>3. /\ Certified(pages, S) /\ Rooted(S) /\ InFile(pages, above)
      /\ Building => This.kind = "table"
      /\ \A i \in DOMAIN items : Whole(pages, items[i], TableMaxLocal)
      /\ RowsOf(items) = TreeRows /\ Flat(S, above) = SubSeq(TreeRows, 1, done)
  BY DEF Readable, Packed
<1>4. Grown(pages, S, next, page, out)
  BY <1>1, <1>2, <1>3, LeafGrows
<1>5. PICK T : T = Over(S, At(next, out))
  OBVIOUS
<1> HIDE DEF page, out
<1>6. stage \in {"leaves", "inner"} /\ Close(page, key)
  BY DEF page
<1>7. /\ Certified(pages, T)' /\ InFile(pages, above)'
      /\ \A p \in DOMAIN pages : p \in DOMAIN pages' /\ T[p] = S[p]
      /\ Flat(T, above)' = Flat(S, above) \o out
  BY <1>3, <1>4, <1>5, <1>6, LevelGrows
<1>8. Rooted(T)'
  BY <1>3, <1>7, RootsStay
<1>9. TreeRows' = TreeRows /\ Building' = Building /\ This' = This
  BY DEF TreeRows, Building, This, MasterRows
<1>10. Packed(T)'
  <2>1. (\A i \in DOMAIN items : Whole(pages, items[i], TableMaxLocal))'
    <3> DEFINE g == At(next, page)
    <3>1. DOMAIN pages \cap DOMAIN g = {}
      BY <1>2 DEF At
    <3>2. pages' = Over(pages, g)
      BY <1>1
    <3> HIDE DEF g
    <3>3. \A i \in DOMAIN items : Whole(Over(pages, g), items[i], TableMaxLocal)
      BY <1>3, <3>1, WholeOver
    <3> QED BY <3>2, <3>3
  <2>2. RowsOf(items)' = TreeRows'
    BY <1>3, <1>9
  <2>3. Flat(T, above)' = SubSeq(TreeRows, 1, done)'
    BY <1>1, <1>3, <1>7, <1>9 DEF out
  <2>4. (Building => This.kind = "table")' /\ stage' = "leaves"
    BY <1>3, <1>9
  <2> QED BY <1>7, <2>1, <2>2, <2>3, <2>4 DEF Packed
<1> QED BY <1>7, <1>8, <1>10 DEF ReadsBack, Readable

(* A table without rows reads as none.                                     *)
LEMMA ReadsBackEmptyLeaf == Invariant /\ Wired /\ ReadsBack /\ EmptyLeaf => ReadsBack'
<1> SUFFICES ASSUME Invariant, Wired, ReadsBack, EmptyLeaf PROVE ReadsBack'
  OBVIOUS
<1>1. PICK S : Readable(S)
  BY DEF ReadsBack
<1>2. /\ stage = "leaves" /\ items = <<>> /\ Close([kind |-> "leaf", cells |-> <<>>], 0)
      /\ UNCHANGED <<objects, roots, items, stage>>
  BY DEF EmptyLeaf
<1>3. done = 0 /\ taken = 0
  <2>1. done \in Nat /\ taken \in Nat /\ done + taken <= Len(items) /\ Len(items) = 0
    BY <1>2 DEF Invariant, Typed, LevelTyped, Packing
  <2> QED BY <2>1
<1>4. SubSeq(TreeRows, 1, done) \o RowsOf(<<>>) = SubSeq(TreeRows, 1, done + taken)
  <2> DEFINE rows == TreeRows
  <2>1. rows \in Seq(AnyRow)
    BY ThisRowsTyped DEF Invariant, TreeRows
  <2> HIDE DEF rows
  <2>2. SubSeq(rows, 1, 0) = <<>>
    BY <2>1
  <2>3. RowsOf(<<>>) = <<>>
    BY DEF RowsOf
  <2> QED BY <1>3, <2>2, <2>3 DEF rows
<1>5. PICK cells : cells = <<>>
  OBVIOUS
<1>6. cells \in Seq(Cell) /\ \A i \in DOMAIN cells : Whole(pages, cells[i], TableMaxLocal)
  <2>1. cells \in Seq(Cell) /\ DOMAIN cells = {}
    BY <1>5
  <2> QED BY <2>1
<1>7. Close([kind |-> "leaf", cells |-> cells], 0)
  BY <1>2, <1>5
<1>8. SubSeq(TreeRows, 1, done) \o RowsOf(cells) = SubSeq(TreeRows, 1, done + taken)
  BY <1>4, <1>5
<1>9. 0 \in Int /\ Numbered
  BY DEF Wired
<1> QED BY <1>1, <1>2, <1>6, <1>7, <1>8, <1>9, LeafCloses

(* The open leaf has the rows next in the table.                           *)
LEMMA ReadsBackCloseLeaf == Invariant /\ Wired /\ ReadsBack /\ CloseLeaf => ReadsBack'
<1> SUFFICES ASSUME Invariant, Wired, ReadsBack, CloseLeaf PROVE ReadsBack'
  OBVIOUS
<1>1. PICK S : Readable(S)
  BY DEF ReadsBack
<1> DEFINE key == items[done + taken].row.key
<1>2. /\ stage = "leaves" /\ taken > 0 /\ Close([kind |-> "leaf", cells |-> OpenItems], key)
      /\ UNCHANGED <<objects, roots, items, stage>>
  BY DEF CloseLeaf
<1>3. /\ OpenItems \in Seq(Cell) /\ DOMAIN OpenItems = 1..taken
      /\ \A i \in 1..taken : OpenItems[i] = items[done + i] /\ items[done + i] \in Cell
      /\ done \in Nat /\ taken \in Nat /\ items \in Seq(Cell) /\ done + taken <= Len(items)
  BY <1>2, OpenItemsAre DEF Invariant, LevelTyped, Packing, Typed
<1>4. key \in Int
  <2>1. items[done + taken] \in Cell
    BY <1>2, <1>3
  <2>2. items[done + taken].row \in AnyRow
    BY <2>1 DEF Cell
  <2> QED BY <2>2, RowsMeasured
<1> HIDE DEF key
<1>5. /\ \A i \in DOMAIN items : Whole(pages, items[i], TableMaxLocal)
      /\ RowsOf(items) = TreeRows
  BY <1>1, <1>2 DEF Readable, Packed
<1>6. \A i \in DOMAIN OpenItems : Whole(pages, OpenItems[i], TableMaxLocal)
  <2>1. \A i \in 1..taken : done + i \in DOMAIN items
    BY <1>3
  <2> QED BY <1>3, <1>5, <2>1
<1> DEFINE rows == TreeRows
<1>7. rows \in Seq(AnyRow) /\ Len(rows) = Len(items) /\ \A i \in 1..Len(items) : rows[i] = items[i].row
  <2>1. rows \in Seq(AnyRow)
    BY ThisRowsTyped DEF Invariant, TreeRows
  <2>2. Len(items) \in Nat /\ DOMAIN items = 1..Len(items)
    BY <1>3
  <2>3. rows = [i \in 1..Len(items) |-> items[i].row]
    BY <1>5, <2>2 DEF RowsOf
  <2> HIDE DEF rows
  <2> QED BY <2>1, <2>2, <2>3
<1>8. RowsOf(OpenItems) = [i \in 1..taken |-> items[done + i].row]
  BY <1>3 DEF RowsOf
<1> HIDE DEF rows
<1>9. RowsOf(OpenItems) = SubSeq(rows, done + 1, done + taken)
  <2>1. SubSeq(rows, done + 1, done + taken) = [i \in 1..taken |-> rows[done + i]]
    BY <1>3, <1>7
  <2>2. \A i \in 1..taken : rows[done + i] = items[done + i].row
    BY <1>3, <1>7
  <2> QED BY <1>8, <2>1, <2>2
<1>10. SubSeq(rows, 1, done) \o SubSeq(rows, done + 1, done + taken) = SubSeq(rows, 1, done + taken)
  BY <1>3, <1>7, AdjacentRuns
<1>11. SubSeq(TreeRows, 1, done) \o RowsOf(OpenItems) = SubSeq(TreeRows, 1, done + taken)
  BY <1>9, <1>10 DEF rows
<1> QED BY <1>1, <1>2, <1>3, <1>4, <1>6, <1>11, LeafCloses DEF Wired

(* An interior page over the pages next in the level below.                *)
LEMMA ReadsBackCloseInner == Invariant /\ Wired /\ ReadsBack /\ CloseInner => ReadsBack'
<1> SUFFICES ASSUME Invariant, Wired, ReadsBack, CloseInner PROVE ReadsBack'
  OBVIOUS
<1>1. PICK S : Readable(S)
  BY DEF ReadsBack
<1> DEFINE key == Last(OpenItems).key
           page == Interior(OpenItems)
           out == Flat(S, OpenItems)
<1>2. /\ stage = "inner" /\ taken > 0 /\ Close(page, key)
      /\ UNCHANGED <<objects, roots, items, stage>>
  BY DEF CloseInner
<1>3. /\ OpenItems \in Seq(Kid) /\ Len(OpenItems) = taken /\ DOMAIN OpenItems = 1..taken
      /\ \A i \in 1..taken : OpenItems[i] = items[done + i] /\ items[done + i] \in Kid
      /\ done \in Nat /\ taken \in Nat /\ items \in Seq(Kid) /\ done + taken <= Len(items)
  BY <1>2, OpenItemsAre DEF Invariant, LevelTyped, Packing, Typed
<1>4. key \in Int
  <2>1. Last(OpenItems) \in Kid
    BY <1>2, <1>3 DEF Last
  <2> QED BY <2>1 DEF Kid
<1>5. /\ pages' = Over(pages, At(next, page)) /\ done' = done + taken
      /\ next \in Nat /\ DOMAIN pages = 2..(next - 1)
  BY <1>2 DEF Close, Invariant, Typed, Wired, Numbered
<1>6. /\ Certified(pages, S) /\ Rooted(S) /\ InFile(pages, above) /\ InFile(pages, items)
      /\ Building => This.kind = "table"
      /\ Flat(S, items) = TreeRows /\ Flat(S, above) = Flat(S, SubSeq(items, 1, done))
  BY <1>1, <1>2 DEF Readable, Packed
<1>7. InFile(pages, OpenItems)
  <2>1. \A i \in 1..taken : done + i \in DOMAIN items
    BY <1>3
  <2> QED BY <1>3, <1>6, <2>1 DEF InFile
<1>8. Grown(pages, S, next, page, out)
  <2>1. next \notin DOMAIN pages /\ \A p \in DOMAIN pages : p # 1 /\ p < next
    BY <1>5
  <2>2. Len(OpenItems) > 0
    BY <1>2, <1>3
  <2> QED BY <1>3, <1>5, <1>6, <1>7, <2>1, <2>2, InteriorGrows
<1>9. PICK T : T = Over(S, At(next, out))
  OBVIOUS
<1> HIDE DEF page, out, key
<1>10. /\ Certified(pages, T)' /\ InFile(pages, above)'
       /\ \A p \in DOMAIN pages : p \in DOMAIN pages' /\ T[p] = S[p]
       /\ Flat(T, above)' = Flat(S, above) \o out
  BY <1>2, <1>4, <1>6, <1>8, <1>9, LevelGrows
<1>11. Rooted(T)'
  BY <1>2, <1>6, <1>10, RootsStay
<1>12. TreeRows' = TreeRows /\ Building' = Building /\ This' = This
  BY <1>2 DEF TreeRows, Building, This, MasterRows
<1>13. Packed(T)'
  <2>1. InFile(pages, items)'
    BY <1>2, <1>6, <1>10 DEF InFile
  <2>2. Flat(T, items)' = TreeRows'
    BY <1>2, <1>6, <1>10, <1>12, FlatKept
  <2> DEFINE front == SubSeq(items, 1, done + taken)
  <2>3. InFile(pages, front)
    <3>1. \A i \in DOMAIN front : i \in DOMAIN items /\ front[i] = items[i]
      BY <1>3
    <3> HIDE DEF front
    <3> QED BY <1>6, <3>1 DEF InFile
  <2>4. Flat(T, front) = Flat(S, front)
    BY <1>10, <2>3, FlatKept
  <2>5. Flat(S, front) = Flat(S, SubSeq(items, 1, done)) \o out
    <3>1. Splits(S, items, done, taken)
      BY <1>3, <1>6, FlatSplit
    <3> QED BY <3>1 DEF Splits, out, OpenItems
  <2>6. SubSeq(items, 1, done)' = front
    BY <1>2, <1>5
  <2> HIDE DEF front
  <2>7. Flat(T, above)' = Flat(T, SubSeq(items, 1, done))'
    BY <1>6, <1>10, <2>4, <2>5, <2>6
  <2>8. stage' = "inner" /\ (Building => This.kind = "table")'
    BY <1>2, <1>6, <1>12
  <2> QED BY <1>10, <2>1, <2>2, <2>7, <2>8 DEF Packed
<1> QED BY <1>10, <1>11, <1>13 DEF ReadsBack, Readable

-----------------------------------------------------------------------------
(* A level of a table is done                                              *)

(* Together its pages read as the rows of the table.                       *)
LEMMA LevelReads ==
  ASSUME Invariant, LevelDone, NEW S, Readable(S)
  PROVE  /\ above \in Seq(Kid) /\ Len(above) > 0 /\ InFile(pages, above)
         /\ Flat(S, above) = TreeRows
<1>1. stage \in {"leaves", "inner"} /\ above # <<>> /\ done = Len(items)
  BY DEF LevelDone
<1>2. above \in Seq(Kid) /\ Len(above) > 0 /\ InFile(pages, above)
  <2>1. above \in Seq(Kid) /\ InFile(pages, above)
    BY <1>1 DEF Invariant, LevelTyped, Readable, Packed
  <2> QED BY <1>1, <2>1
<1>3. CASE stage = "leaves"
  <2>1. RowsOf(items) = TreeRows /\ Flat(S, above) = SubSeq(TreeRows, 1, Len(items))
    BY <1>1, <1>3 DEF Readable, Packed
  <2> DEFINE rows == TreeRows
  <2>2. rows \in Seq(AnyRow)
    BY ThisRowsTyped DEF Invariant, TreeRows
  <2>3. Len(rows) = Len(items)
    <3>1. items \in Seq(Cell)
      BY <1>3 DEF Invariant, LevelTyped
    <3>2. DOMAIN items = 1..Len(items) /\ Len(items) \in Nat
      BY <3>1
    <3>3. rows = [i \in 1..Len(items) |-> items[i].row]
      BY <2>1, <3>2 DEF RowsOf
    <3> HIDE DEF rows
    <3> QED BY <2>2, <3>2, <3>3
  <2> HIDE DEF rows
  <2>4. SubSeq(rows, 1, Len(rows)) = rows
    BY <2>2
  <2> QED BY <1>2, <2>1, <2>3, <2>4 DEF rows
<1>4. CASE stage = "inner"
  <2>1. Flat(S, items) = TreeRows /\ Flat(S, above) = Flat(S, SubSeq(items, 1, Len(items)))
    BY <1>1, <1>4 DEF Readable, Packed
  <2>2. items \in Seq(Kid)
    BY <1>4 DEF Invariant, LevelTyped
  <2>3. SubSeq(items, 1, Len(items)) = items
    BY <2>2
  <2> QED BY <1>2, <2>1, <2>3
<1> QED BY <1>1, <1>3, <1>4

(* The one page left is the root of the table.                             *)
LEMMA ReadsBackRootFound == Invariant /\ ReadsBack /\ RootFound => ReadsBack'
<1> SUFFICES ASSUME Invariant, ReadsBack, RootFound PROVE ReadsBack'
  OBVIOUS
<1>1. PICK S : Readable(S)
  BY DEF ReadsBack
<1>2. /\ LevelDone /\ stage \in {"leaves", "inner"} /\ Building /\ Len(above) = 1 /\ stage' = "object"
      /\ roots' = Append(roots, above[1].page) /\ objects' = objects /\ pages' = pages
  BY DEF RootFound, LevelDone
<1>3. above \in Seq(Kid) /\ InFile(pages, above) /\ Flat(S, above) = TreeRows
  BY <1>1, <1>2, LevelReads
<1> DEFINE root == above[1].page
<1>4. DOMAIN above = {1} /\ above[1] \in Kid /\ root \in Nat /\ root \in DOMAIN pages
  <2>1. DOMAIN above = {1} /\ above[1] \in Kid
    <3>1. Len(above) = 1
      BY <1>2
    <3>2. above \in Seq(Kid)
      BY <1>3
    <3>3. DOMAIN above = 1..1 /\ \A i \in DOMAIN above : above[i] \in Kid
      BY <3>1, <3>2, Elements
    <3> QED BY <3>3
  <2> QED BY <1>3, <2>1 DEF InFile, Kid
<1>5. Flat(S, above) = S[root]
  <2>1. <<>> \in Seq(Kid) /\ above = Append(<<>>, above[1])
    <3>1. above = <<above[1]>>
      BY <1>2, <1>3
    <3> QED BY <1>4, <3>1
  <2>2. InFile(pages, <<>>)
    BY DEF InFile
  <2> DEFINE none == <<>>
             kid == above[1]
  <2>3. none \in Seq(Kid) /\ InFile(pages, none) /\ kid \in Kid /\ kid.page \in DOMAIN pages
    BY <1>4, <2>1, <2>2
  <2>4. Certified(pages, S)
    BY <1>1 DEF Readable
  <2> HIDE DEF none, kid
  <2>5. Flat(S, Append(none, kid)) = Flat(S, none) \o S[kid.page]
    BY <2>3, <2>4, FlatAppend
  <2>6. Flat(S, none) = <<>>
    BY FlatOfNone DEF none
  <2>7. S[kid.page] \in Seq(ReadOut)
    BY <2>3, <2>4 DEF Certified
  <2>8. Flat(S, Append(none, kid)) = S[kid.page]
    BY <2>5, <2>6, <2>7, ConcatEmptySeq
  <2> QED BY <2>1, <2>8 DEF none, kid
<1>6. S[root] = This.rows
  BY <1>2, <1>3, <1>5 DEF TreeRows
<1> HIDE DEF root
<1>7. Rooted(S)'
  <2>1. roots' = Append(roots, root)
    BY <1>2 DEF root
  <2>2. Typed /\ Rooted(S)
    BY <1>1 DEF Readable, Invariant
  <2> QED BY <1>2, <1>4, <1>6, <2>1, <2>2, RootAdded
<1>8. Packed(S)'
  BY <1>2 DEF Packed
<1>9. Certified(pages, S)'
  BY <1>1, <1>2 DEF Readable
<1> QED BY <1>7, <1>8, <1>9 DEF ReadsBack, Readable

(* The level done is the input of the one above.                           *)
LEMMA ReadsBackNextLevel == Invariant /\ ReadsBack /\ NextLevel => ReadsBack'
<1> SUFFICES ASSUME Invariant, ReadsBack, NextLevel PROVE ReadsBack'
  OBVIOUS
<1>1. PICK S : Readable(S)
  BY DEF ReadsBack
<1>2. /\ LevelDone /\ stage \in {"leaves", "inner"} /\ stage' = "inner"
      /\ items' = above /\ done' = 0 /\ above' = <<>>
      /\ objects' = objects /\ roots' = roots /\ pages' = pages
  BY DEF NextLevel, LevelDone, OnLevel
<1>3. above \in Seq(Kid) /\ InFile(pages, above) /\ Flat(S, above) = TreeRows
  BY <1>1, <1>2, LevelReads
<1>4. TreeRows' = TreeRows /\ Building' = Building /\ This' = This
  BY <1>2 DEF TreeRows, Building, This, MasterRows
<1>5. Rooted(S)'
  BY <1>1, <1>2, RootsStay DEF Readable
<1>6. Packed(S)'
  <2>1. InFile(pages, above)'
    BY <1>2 DEF InFile
  <2>2. InFile(pages, items)' /\ Flat(S, items)' = TreeRows'
    BY <1>2, <1>3, <1>4
  <2>3. Flat(S, above)' = Flat(S, SubSeq(items, 1, done))'
    <3>1. SubSeq(above, 1, 0) = <<>>
      BY <1>3
    <3>2. SubSeq(items, 1, done)' = <<>>
      BY <1>2, <3>1
    <3> QED BY <1>2, <3>2
  <2>4. Building => This.kind = "table"
    BY <1>1, <1>2 DEF Readable, Packed
  <2> QED BY <1>2, <1>4, <2>1, <2>2, <2>3, <2>4 DEF Packed
<1>7. Certified(pages, S)'
  BY <1>1, <1>2 DEF Readable
<1> QED BY <1>5, <1>6, <1>7 DEF ReadsBack, Readable

(* With sqlite_master on page 1 everything has its root.                   *)
LEMMA MasterTaken ==
  ASSUME ~Building, objects' = objects, roots' = roots, stage' = "written",
         NEW S, Rooted(S), NEW T, \A p \in DOMAIN pages : p \in DOMAIN pages' /\ T[p] = S[p],
         Certified(pages', T), 1 \in DOMAIN pages', T[1] = MasterRows
  PROVE  ReadsBack'
<1>1. Building' = Building /\ MasterRows' = MasterRows
  BY DEF Building, MasterRows
<1>2. Rooted(T)'
  BY <1>1 DEF Rooted
<1>3. Packed(T)'
  BY DEF Packed
<1>4. Certified(pages, T)'
  OBVIOUS
<1> QED BY <1>2, <1>3, <1>4 DEF ReadsBack, Readable

(* Page 1 over the level that is left.                                     *)
LEMMA ReadsBackMasterRoot == Invariant /\ Wired /\ ReadsBack /\ MasterRoot => ReadsBack'
<1> SUFFICES ASSUME Invariant, Wired, ReadsBack, MasterRoot PROVE ReadsBack'
  OBVIOUS
<1>1. PICK S : Readable(S)
  BY DEF ReadsBack
<1>2. /\ LevelDone /\ stage \in {"leaves", "inner"} /\ ~Building /\ stage' = "written"
      /\ pages' = Over(pages, At(1, Interior(above))) /\ objects' = objects /\ roots' = roots
  BY DEF MasterRoot, LevelDone
<1>3. /\ above \in Seq(Kid) /\ Len(above) > 0 /\ InFile(pages, above)
      /\ Flat(S, above) = MasterRows
  BY <1>1, <1>2, LevelReads DEF TreeRows
<1>4. next \in Nat /\ DOMAIN pages = 2..(next - 1)
  BY <1>2 DEF Invariant, Typed, Wired, Numbered
<1>5. Certified(pages, S) /\ Rooted(S)
  BY <1>1 DEF Readable
<1> DEFINE page == Interior(above)
           out == Flat(S, above)
<1>6. Grown(pages, S, 1, page, out)
  <2> DEFINE q == 1
  <2>1. q \in Nat /\ q \notin DOMAIN pages /\ \A p \in DOMAIN pages : p # 1 /\ (q = 1 \/ p < q)
    BY <1>4
  <2> HIDE DEF q
  <2>2. Grown(pages, S, q, page, out)
    BY <1>3, <1>5, <2>1, InteriorGrows
  <2> QED BY <2>2 DEF q
<1>7. PICK T : T = Over(S, At(1, out))
  OBVIOUS
<1> HIDE DEF page, out
<1>8. /\ Certified(pages', T) /\ 1 \in DOMAIN pages' /\ T[1] = out
      /\ \A p \in DOMAIN pages : p \in DOMAIN pages' /\ T[p] = S[p]
  BY <1>2, <1>6, <1>7 DEF Grown, page
<1>9. T[1] = MasterRows
  BY <1>3, <1>8 DEF out
<1> QED BY <1>2, <1>5, <1>8, <1>9, MasterTaken

(* Page 1 as the one leaf, after the chains of its cells.                  *)
LEMMA ReadsBackMasterLeaf == Invariant /\ Wired /\ ReadsBack /\ MasterLeaf => ReadsBack'
<1> SUFFICES ASSUME Invariant, Wired, ReadsBack, MasterLeaf PROVE ReadsBack'
  OBVIOUS
<1>1. PICK S : Readable(S)
  BY DEF ReadsBack
<1>2. PICK made : made = TreeCells(MasterRows)
  OBVIOUS
<1> DEFINE cells == made.cells
           page == [kind |-> "leaf", cells |-> cells]
           F == Over(pages, made.pages)
           U == Over(S, Refused(made.pages))
<1>3. /\ stage = "object" /\ stage' = "written" /\ ~Building
      /\ objects' = objects /\ roots' = roots
      /\ pages' = Over(pages, Over(made.pages, At(1, page)))
  BY <1>2 DEF MasterLeaf
<1>4. pages' = Over(F, At(1, page))
  BY <1>3, OverTwice
<1>5. MasterRows \in Seq(AnyRow)
  BY <1>3, MasterRowsTyped DEF Invariant
<1>6. Spelled(pages, S, MasterRows, made)
  BY <1>1, <1>2, <1>3, <1>5, ChainsRead DEF Readable, Wired
<1>7. /\ cells \in Seq(Cell) /\ RowsOf(cells) = MasterRows
      /\ \A i \in DOMAIN cells : Whole(F, cells[i], TableMaxLocal)
      /\ Certified(F, U) /\ \A p \in DOMAIN pages : p \in DOMAIN F /\ U[p] = S[p]
  BY <1>6 DEF Spelled, Added
<1>8. 1 \notin DOMAIN F
  <2>1. /\ next \in Nat /\ next >= 2 /\ DOMAIN pages = 2..(next - 1)
        /\ DOMAIN made.pages = next..(made.next - 1)
    BY <1>3, <1>6 DEF Invariant, Typed, Wired, Numbered, Spelled
  <2>2. 1 \notin DOMAIN pages /\ 1 \notin DOMAIN made.pages
    BY <2>1
  <2> QED BY <2>2 DEF Over
<1> HIDE DEF F, U, cells
<1>9. Grown(F, U, 1, page, RowsOf(cells))
  <2> DEFINE q == 1
  <2>1. q \in Nat /\ q \notin DOMAIN F
    BY <1>8
  <2> HIDE DEF q
  <2>2. Grown(F, U, q, page, RowsOf(cells))
    BY <1>7, <2>1, LeafGrows
  <2> QED BY <2>2 DEF q
<1>10. PICK T : T = Over(U, At(1, MasterRows))
  OBVIOUS
<1> HIDE DEF page
<1>11. /\ Certified(pages', T) /\ 1 \in DOMAIN pages' /\ T[1] = MasterRows
       /\ \A p \in DOMAIN F : p \in DOMAIN pages' /\ T[p] = U[p]
  BY <1>4, <1>7, <1>9, <1>10 DEF Grown
<1>12. \A p \in DOMAIN pages : p \in DOMAIN pages' /\ T[p] = S[p]
  BY <1>7, <1>11
<1>13. Rooted(S)
  BY <1>1 DEF Readable
<1> QED BY <1>3, <1>11, <1>12, <1>13, MasterTaken

-----------------------------------------------------------------------------
(* Closing a page of an index                                              *)

(* Its page and the chains of its cells are none of a table.               *)
LEMMA IndexPageReads ==
  ASSUME Invariant, Numbered, ReadsBack, stage \in {"ileaves", "iinner"},
         NEW rows \in Seq(AnyRow), NEW made, made = Cells(rows, IndexMaxLocal, next),
         NEW page, page.kind \in {"ileaf", "iinode"}, NEW promotion,
         CloseIndexPage(made, page, promotion)
  PROVE  ReadsBack'
<1>1. PICK S : Readable(S)
  BY DEF ReadsBack
<1> DEFINE g == Over(made.pages, At(made.next, page))
<1>2. /\ pages' = Over(pages, g) /\ objects' = objects /\ roots' = roots /\ stage' = stage
      /\ next \in Nat /\ DOMAIN pages = 2..(next - 1)
  BY DEF CloseIndexPage, Invariant, Typed, Numbered
<1>3. /\ made.next \in Nat /\ made.next >= next /\ DOMAIN made.pages = next..(made.next - 1)
  BY <1>2, ChainsFit, Limits
<1>4. \A p \in DOMAIN made.pages : made.pages[p].kind = "overflow"
  <2>1. PICK free : CellsAre(rows, IndexMaxLocal, next, free)
    BY <1>2, CellsMade, Limits
  <2> QED BY <2>1 DEF CellsAre, IsOverflow
<1>5. /\ DOMAIN g = DOMAIN made.pages \cup {made.next}
      /\ \A p \in DOMAIN g : g[p] = page \/ g[p].kind = "overflow"
  <2>1. DOMAIN At(made.next, page) = {made.next} /\ At(made.next, page)[made.next] = page
    BY Single
  <2> QED BY <1>4, <2>1 DEF Over
<1> HIDE DEF g
<1>6. /\ DOMAIN pages \cap DOMAIN g = {} /\ DOMAIN g \subseteq Nat
      /\ \A p \in DOMAIN g : g[p].kind \notin {"leaf", "inode"}
  BY <1>2, <1>3, <1>5
<1>7. Certified(pages, S) /\ Rooted(S)
  BY <1>1 DEF Readable
<1>8. Added(pages, g, S, Refused(g))
  BY <1>6, <1>7, RefusedGrows
<1>9. PICK T : T = Over(S, Refused(g))
  OBVIOUS
<1>10. Certified(pages, T)' /\ \A p \in DOMAIN pages : p \in DOMAIN pages' /\ T[p] = S[p]
  BY <1>2, <1>8, <1>9 DEF Added
<1>11. This.kind = "index"
  BY <1>7 DEF Rooted
<1>12. Rooted(T)'
  BY <1>2, <1>7, <1>10, <1>11, RootsStay
<1>13. Packed(T)'
  BY <1>2 DEF Packed
<1> QED BY <1>10, <1>12, <1>13 DEF ReadsBack, Readable

(* The three steps that close one.                                         *)
LEMMA ReadsBackIndexPage ==
  Invariant /\ Wired /\ ReadsBack /\ (EmptyIndexLeaf \/ CloseIndexLeaf \/ CloseIndexNode) => ReadsBack'
<1> SUFFICES ASSUME Invariant, Wired, ReadsBack,
                    EmptyIndexLeaf \/ CloseIndexLeaf \/ CloseIndexNode
             PROVE  ReadsBack'
  OBVIOUS
<1>1. Numbered
  BY DEF Wired
<1>2. CASE EmptyIndexLeaf
  <2>1. PICK rows : rows = <<>>
    OBVIOUS
  <2>2. PICK made : made = Cells(rows, IndexMaxLocal, next)
    OBVIOUS
  <2>3. rows \in Seq(AnyRow) /\ stage \in {"ileaves", "iinner"}
    BY <1>2, <2>1 DEF EmptyIndexLeaf
  <2>4. PICK page : page = [kind |-> "ileaf", cells |-> <<>>]
    OBVIOUS
  <2>5. CloseIndexPage(made, page, <<>>) /\ page.kind \in {"ileaf", "iinode"}
    BY <1>2, <2>1, <2>2, <2>4 DEF EmptyIndexLeaf
  <2> QED BY <1>1, <2>2, <2>3, <2>5, IndexPageReads
<1>3. CASE CloseIndexLeaf
  <2>1. PICK rows : rows = OpenItems
    OBVIOUS
  <2>2. PICK made : made = Cells(rows, IndexMaxLocal, next)
    OBVIOUS
  <2>3. rows \in Seq(AnyRow) /\ stage \in {"ileaves", "iinner"}
    <3>1. stage = "ileaves"
      BY <1>3 DEF CloseIndexLeaf
    <3>2. OpenItems \in Seq(Record)
      BY <3>1, OpenItemsAre DEF Invariant, LevelTyped, Packing
    <3> QED BY <2>1, <3>1, <3>2, RecordsAreRows
  <2>4. PICK page : page = [kind |-> "ileaf", cells |-> made.cells]
    OBVIOUS
  <2>5. PICK promotion : promotion = IF Left THEN <<Upcoming>> ELSE <<>>
    OBVIOUS
  <2>6. CloseIndexPage(made, page, promotion) /\ page.kind \in {"ileaf", "iinode"}
    BY <1>3, <2>1, <2>2, <2>4, <2>5 DEF CloseIndexLeaf
  <2> QED BY <1>1, <2>2, <2>3, <2>6, IndexPageReads
<1>4. CASE CloseIndexNode
  <2>1. PICK rows : rows = SubSeq(dividers, done + 1, done + taken)
    OBVIOUS
  <2>2. PICK made : made = Cells(rows, IndexMaxLocal, next)
    OBVIOUS
  <2>3. stage = "iinner" /\ done < Len(items)
    BY <1>4 DEF CloseIndexNode
  <2>4. rows \in Seq(AnyRow)
    <3>1. /\ done \in Nat /\ taken \in Nat /\ dividers \in Seq(Record) /\ Len(dividers) \in Nat
          /\ Len(items) \in Nat /\ Len(items) <= Len(dividers) + 1 /\ done + taken < Len(items)
      BY <2>3 DEF Invariant, Typed, LevelTyped, Separated
    <3>2. rows \in Seq(Record)
      BY <2>1, <3>1
    <3> QED BY <3>2, RecordsAreRows
  <2>5. PICK page : page = [kind  |-> "iinode", right |-> items[done + taken + 1],
                            cells |-> [i \in DOMAIN made.cells |-> WithChild(made.cells[i], items[done + i])]]
    OBVIOUS
  <2>6. PICK promotion : promotion = IF done + taken + 1 <= Len(dividers)
                                     THEN <<dividers[done + taken + 1]>> ELSE <<>>
    OBVIOUS
  <2>7. CloseIndexPage(made, page, promotion) /\ page.kind \in {"ileaf", "iinode"}
    BY <1>4, <2>1, <2>2, <2>5, <2>6 DEF CloseIndexNode
  <2> QED BY <1>1, <2>2, <2>3, <2>4, <2>7, IndexPageReads
<1> QED BY <1>2, <1>3, <1>4

-----------------------------------------------------------------------------
(* The theorem                                                             *)

(* Every step keeps a certificate.                                         *)
LEMMA ReadsBackKept == Invariant /\ Wired /\ ReadsBack /\ [Next]_vars => ReadsBack'
<1> SUFFICES ASSUME Invariant, Wired, ReadsBack, [Next]_vars PROVE ReadsBack'
  OBVIOUS
<1> QED BY ReadsBackPlace, ReadsBackCellTooLarge, ReadsBackSchemaOnly, ReadsBackIndexLevel,
           ReadsBackIndexRoot, ReadsBackBeginTable, ReadsBackMasterLeaf, ReadsBackEmptyLeaf,
           ReadsBackCloseLeaf, ReadsBackCloseInner, ReadsBackRootFound, ReadsBackNextLevel,
           ReadsBackMasterRoot, ReadsBackIndexPage DEF Next

(* The walk of a completed file returns what the certificate has.          *)
LEMMA ReadsBackMeans == Invariant /\ ReadsBack => TablesReadBack
<1> SUFFICES ASSUME Invariant, ReadsBack, stage = "written"
             PROVE  /\ WalkTable(pages, 1) = MasterRows
                    /\ \A i \in DOMAIN objects : objects[i].kind = "table" =>
                         WalkTable(pages, roots[i]) = objects[i].rows
  BY DEF TablesReadBack
<1>1. PICK S : Readable(S)
  BY DEF ReadsBack
<1>2. \A p \in DOMAIN pages : WalkTable(pages, p) = S[p]
  BY <1>1, WalkReturns DEF Readable
<1>3. ~Building /\ 1 \in DOMAIN pages /\ S[1] = MasterRows
  BY <1>1 DEF Readable, Rooted
<1>4. \A i \in DOMAIN objects : i \in DOMAIN roots
  <2>1. /\ Len(roots) \in Nat /\ Len(objects) \in Nat /\ Len(roots) = Len(objects)
        /\ DOMAIN roots = 1..Len(roots) /\ DOMAIN objects = 1..Len(objects)
    BY <1>3 DEF Invariant, Typed, Building
  <2> QED BY <2>1
<1>5. \A i \in DOMAIN objects : objects[i].kind = "table" =>
        roots[i] \in DOMAIN pages /\ S[roots[i]] = objects[i].rows
  BY <1>1, <1>4 DEF Readable, Rooted
<1> QED BY <1>2, <1>3, <1>5

(* TablesReadBack, of every database write_database is called with.        *)
THEOREM TablesReadBackAlways == Spec => []TablesReadBack
<1>1. Init => Invariant /\ Wired /\ ReadsBack
  BY InvariantInit, WiredInit, ReadsBackInit
<1>2. (Invariant /\ Wired /\ ReadsBack) /\ [Next]_vars => (Invariant /\ Wired /\ ReadsBack)'
  BY InvariantKept, WiredKept, ReadsBackKept
<1>3. Invariant /\ Wired /\ ReadsBack => TablesReadBack
  BY ReadsBackMeans
<1> QED BY <1>1, <1>2, <1>3, PTL DEF Spec
=============================================================================
