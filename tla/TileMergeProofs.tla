-------------------------- MODULE TileMergeProofs --------------------------
(***************************************************************************)
(* What merge_tiles guarantees for pyramids of every size: the type        *)
(* invariant, and an inductive invariant from which the safety properties  *)
(* of TileMerge follow.                                                    *)
(***************************************************************************)
EXTENDS TileMerge, TLAPS

(* The rows of the destination stand at the front of the merged table ...  *)
Prefix ==
  /\ Len(held.tiles) <= Len(into.tiles)
  /\ \A i \in DOMAIN held.tiles : into.tiles[i] = held.tiles[i]

(* ... and every other row is one the loop has visited.                    *)
Extras ==
  \A j \in DOMAIN into.tiles : j > Len(held.tiles) =>
    \E i \in 1..todo :
      /\ into.tiles[j].key = from.tiles[i].key
      /\ into.tiles[j].blob = from.tiles[i].blob

(* Every visited row has been mapped, and to its own tile.                 *)
Placed ==
  /\ DOMAIN rowid = {from.tiles[i].id : i \in 1..todo}
  /\ \A i \in 1..todo : \E j \in DOMAIN into.tiles :
       /\ into.tiles[j].id = rowid[from.tiles[i].id]
       /\ into.tiles[j].key = from.tiles[i].key
       /\ into.tiles[j].blob = from.tiles[i].blob

Rows ==
  /\ RowidsAscend(into.tiles) /\ RowidsAscend(from.tiles) /\ RowidsAscend(held.tiles)
  /\ KeysDistinct(into.tiles) /\ KeysDistinct(from.tiles) /\ KeysDistinct(held.tiles)

Phases ==
  /\ into.scheme = held.scheme
  /\ outcome = "checking" => into = held /\ todo = 0
  /\ outcome = "merging" => \A i \in DOMAIN into.tiles : into.tiles[i].id <= next
  /\ outcome \in {"merging", "merged"} =>
       held.scheme = from.scheme /\ held.scheme \in Mergeable
  /\ outcome = "merged" =>
       /\ todo = Len(from.tiles)
       /\ into.mark = RecomputedMark(held.mark, into.tiles)
       /\ into.low = UnionLow(held.low, from.low)
       /\ into.high = UnionHigh(held.high, from.high)
  /\ outcome # "merged" => /\ into.mark = held.mark
                           /\ into.low = held.low
                           /\ into.high = held.high
  /\ outcome = "refused" => Conflict

IInv == TypeOK /\ Rows /\ Prefix /\ Extras /\ Placed /\ Phases

-----------------------------------------------------------------------------
(* The highest rowid of a table whose rows ascend is that of its last row. *)
LEMMA HighestOfAscending ==
  ASSUME NEW tiles \in Seq(Tile), RowidsAscend(tiles)
  PROVE  /\ Highest(tiles) \in Nat
         /\ \A i \in DOMAIN tiles : tiles[i].id <= Highest(tiles)
<1>1. CASE tiles = <<>>
  BY <1>1 DEF Highest
<1>2. CASE tiles # <<>>
  <2>0. DOMAIN tiles = 1..Len(tiles) /\ Len(tiles) \in Nat /\ Len(tiles) # 0
    BY <1>2
  <2>1. Len(tiles) \in DOMAIN tiles /\ \A i \in DOMAIN tiles : tiles[i].id \in Nat
    <3>1. \A i \in DOMAIN tiles : tiles[i] \in Tile
      BY <2>0
    <3> QED BY <2>0, <3>1 DEF Tile
  <2>2. \A i \in DOMAIN tiles : tiles[i].id <= tiles[Len(tiles)].id
    BY <2>0, <2>1 DEF RowidsAscend
  <2>3. \E n \in Rowids(tiles) : \A m \in Rowids(tiles) : m <= n
    BY <2>1, <2>2 DEF Rowids
  <2>4. /\ Highest(tiles) \in Rowids(tiles)
        /\ \A m \in Rowids(tiles) : m <= Highest(tiles)
    BY <1>2, <2>3 DEF Highest
  <2> QED BY <2>1, <2>4 DEF Rowids
<1> QED BY <1>1, <1>2

(* Pushing a row above every rowid, at a coordinate not yet held, keeps a   *)
(* table's order and its key.                                               *)
LEMMA PushKeepsRows ==
  ASSUME NEW tiles \in Seq(Tile), NEW t \in Tile,
         RowidsAscend(tiles), KeysDistinct(tiles),
         \A i \in DOMAIN tiles : tiles[i].id < t.id,
         NoneAt(tiles, t.key)
  PROVE  RowidsAscend(Append(tiles, t)) /\ KeysDistinct(Append(tiles, t))
<1> DEFINE pushed == Append(tiles, t)
<1>1. /\ DOMAIN pushed = 1..(Len(tiles) + 1)
      /\ \A i \in DOMAIN tiles : i \in 1..Len(tiles) /\ pushed[i] = tiles[i]
      /\ pushed[Len(tiles) + 1] = t
  OBVIOUS
<1>2. \A i \in DOMAIN pushed : i \in DOMAIN tiles \/ i = Len(tiles) + 1
  BY <1>1
<1>3. RowidsAscend(pushed)
  BY <1>1, <1>2 DEF RowidsAscend
<1>4. KeysDistinct(pushed)
  BY <1>1, <1>2 DEF KeysDistinct, NoneAt
<1> QED BY <1>3, <1>4

(* Nothing has been merged at first.                                       *)
LEMMA InitIInv == Init => IInv
<1> SUFFICES ASSUME NEW dest \in Pyramids, NEW source \in Pyramids, InitWith(dest, source)
             PROVE  IInv
  BY DEF Init
<1> USE PyramidAssumption DEF InitWith
<1>1. TypeOK BY DEF TypeOK, Pyramid
<1>2. Rows BY DEF Rows
<1>3. Prefix BY DEF Prefix, Pyramid
<1>4. Extras BY DEF Extras, Pyramid
<1>5. Placed BY DEF Placed
<1>6. Phases BY DEF Phases
<1> QED BY <1>1, <1>2, <1>3, <1>4, <1>5, <1>6 DEF IInv

-----------------------------------------------------------------------------
(* A refusal of the scheme changes no row.                                 *)
LEMMA RefuseSchemeKeeps == IInv /\ RefuseScheme => IInv'
<1> SUFFICES ASSUME IInv, RefuseScheme PROVE IInv'
  OBVIOUS
<1> USE DEF IInv, RefuseScheme
<1>1. TypeOK' BY DEF TypeOK
<1>2. Rows' /\ Prefix' /\ Extras' /\ Placed' BY DEF Rows, Prefix, Extras, Placed
<1>3. Conflict' BY DEF Phases, SchemeRefused, Conflict
<1>4. Phases' BY <1>3 DEF Phases
<1> QED BY <1>1, <1>2, <1>4

(* The first tile to merge, and the highest rowid to number from.          *)
LEMMA BeginKeeps == IInv /\ Begin => IInv'
<1> SUFFICES ASSUME IInv, Begin PROVE IInv'
  OBVIOUS
<1> USE DEF IInv, Begin
<1>1. into.tiles \in Seq(Tile) /\ RowidsAscend(into.tiles)
  BY DEF TypeOK, Pyramid, Rows
<1>2. /\ next' \in Nat
      /\ \A i \in DOMAIN into.tiles : into.tiles[i].id <= next'
  BY <1>1, HighestOfAscending
<1>3. TypeOK' BY <1>2 DEF TypeOK
<1>4. Rows' /\ Prefix' /\ Extras' /\ Placed' BY DEF Rows, Prefix, Extras, Placed
<1>5. Phases' BY <1>2 DEF Phases, SchemeRefused
<1> QED BY <1>3, <1>4, <1>5

(* What every step of the loop knows of the row it visits.                 *)
LEMMA VisitFacts ==
  ASSUME TypeOK, Visiting
  PROVE  /\ todo + 1 \in DOMAIN from.tiles
         /\ This \in Tile
         /\ todo + 1 \in Nat
         /\ todo + 1 <= Len(from.tiles)
         /\ from.tiles \in Seq(Tile)
         /\ into.tiles \in Seq(Tile)
         /\ held.tiles \in Seq(Tile)
<1>1. /\ from.tiles \in Seq(Tile)
      /\ into.tiles \in Seq(Tile)
      /\ held.tiles \in Seq(Tile)
  BY DEF TypeOK, Pyramid
<1>2. todo + 1 \in Nat /\ todo + 1 <= Len(from.tiles) /\ todo + 1 \in 1..Len(from.tiles)
  BY <1>1 DEF TypeOK, Visiting
<1>3. todo + 1 \in DOMAIN from.tiles /\ This \in Tile
  BY <1>1, <1>2 DEF This
<1> QED BY <1>1, <1>2, <1>3

(* The source's rowids are distinct, so a row visited now is not yet in    *)
(* the map, and its entry leaves the others as they were.                  *)
LEMMA EntryIsNew ==
  ASSUME TypeOK, Rows, Placed, Visiting, NEW new \in Nat,
         rowid' = WithEntry(rowid, This.id, new)
  PROVE  /\ rowid'[This.id] = new
         /\ \A i \in 1..todo : rowid'[from.tiles[i].id] = rowid[from.tiles[i].id]
         /\ DOMAIN rowid' = {from.tiles[i].id : i \in 1..(todo + 1)}
         /\ DOMAIN rowid' \subseteq Nat
         /\ \A r \in DOMAIN rowid' : rowid'[r] \in Nat
<1>1. /\ todo + 1 \in DOMAIN from.tiles /\ This \in Tile
      /\ DOMAIN from.tiles = 1..Len(from.tiles)
      /\ todo \in Nat
  BY VisitFacts DEF TypeOK
<1>2. \A i \in 1..todo : i \in DOMAIN from.tiles /\ i < todo + 1
  BY <1>1
<1>3. \A i \in 1..todo : from.tiles[i].id # This.id
  <2>1. \A i \in DOMAIN from.tiles : from.tiles[i] \in Tile
    BY VisitFacts
  <2>2. \A i \in DOMAIN from.tiles : from.tiles[i].id \in Nat
    BY <2>1 DEF Tile
  <2>3. RowidsAscend(from.tiles)
    BY DEF Rows
  <2>4. \A i \in 1..todo : from.tiles[i].id < from.tiles[todo + 1].id
    BY <1>1, <1>2, <2>3 DEF RowidsAscend
  <2> QED BY <1>1, <1>2, <2>2, <2>4 DEF This
<1>4. This.id \notin DOMAIN rowid
  BY <1>3 DEF Placed
<1>5. DOMAIN rowid' = DOMAIN rowid \cup {This.id}
  BY DEF WithEntry
<1>6. rowid'[This.id] = new
  BY <1>4, <1>5 DEF WithEntry
<1>7. \A r \in DOMAIN rowid : rowid'[r] = rowid[r]
  BY <1>5 DEF WithEntry
<1>8. \A i \in 1..todo : rowid'[from.tiles[i].id] = rowid[from.tiles[i].id]
  BY <1>7 DEF Placed
<1>9. DOMAIN rowid' = {from.tiles[i].id : i \in 1..(todo + 1)}
  <2>1. 1..(todo + 1) = 1..todo \cup {todo + 1}
    BY <1>1
  <2> QED BY <1>5, <2>1 DEF Placed, This
<1>10. DOMAIN rowid' \subseteq Nat /\ \A r \in DOMAIN rowid' : rowid'[r] \in Nat
  BY <1>1, <1>5, <1>6, <1>7 DEF TypeOK, Tile
<1> QED BY <1>6, <1>8, <1>9, <1>10

(* A tile that is held already is mapped to the row that holds it.         *)
LEMMA KeepHeldKeeps == IInv /\ KeepHeld => IInv'
<1> SUFFICES ASSUME IInv, KeepHeld PROVE IInv'
  OBVIOUS
<1>0. /\ TypeOK /\ Rows /\ Prefix /\ Extras /\ Placed /\ Phases
      /\ Visiting
      /\ todo' = todo + 1
      /\ UNCHANGED <<into, from, next, outcome, held>>
  BY DEF IInv, KeepHeld
<1>1. PICK i \in DOMAIN into.tiles :
        /\ FirstAt(into.tiles, This.key, i)
        /\ into.tiles[i].blob = This.blob
        /\ rowid' = WithEntry(rowid, This.id, into.tiles[i].id)
  BY DEF KeepHeld
<1>2. into.tiles[i].id \in Nat
  <2>1. into.tiles[i] \in Tile
    BY <1>0, VisitFacts
  <2> QED BY <2>1 DEF Tile
<1>3. /\ rowid'[This.id] = into.tiles[i].id
      /\ \A k \in 1..todo : rowid'[from.tiles[k].id] = rowid[from.tiles[k].id]
      /\ DOMAIN rowid' = {from.tiles[k].id : k \in 1..(todo + 1)}
      /\ DOMAIN rowid' \subseteq Nat
      /\ \A r \in DOMAIN rowid' : rowid'[r] \in Nat
  BY <1>0, <1>1, <1>2, EntryIsNew
<1>4. TypeOK'
  BY <1>0, <1>3, VisitFacts DEF TypeOK
<1>5. Rows' /\ Prefix'
  BY <1>0 DEF Rows, Prefix
<1>6. 1..(todo + 1) = 1..todo \cup {todo + 1}
  BY <1>0 DEF TypeOK
<1>7. Extras'
  BY <1>0, <1>6 DEF Extras
<1>8. Placed'
  <2>1. into.tiles[i].key = This.key /\ into.tiles[i].blob = This.blob
    BY <1>1 DEF FirstAt
  <2> QED BY <1>0, <1>3, <1>6, <2>1 DEF Placed, This
<1>9. Phases'
  BY <1>0, VisitFacts DEF Phases, Visiting, Conflict, Contents
<1> QED BY <1>4, <1>5, <1>7, <1>8, <1>9 DEF IInv

(* The first refused row meets a held row of other content: either one of  *)
(* the destination's, or one the source itself holds at the same place,    *)
(* which its UNIQUE key excludes.                                          *)
LEMMA RefuseOverlapKeeps == IInv /\ RefuseOverlap => IInv'
<1> SUFFICES ASSUME IInv, RefuseOverlap PROVE IInv'
  OBVIOUS
<1>0. /\ TypeOK /\ Rows /\ Prefix /\ Extras /\ Placed /\ Phases
      /\ Visiting
      /\ outcome' = "refused"
      /\ UNCHANGED <<into, from, todo, next, rowid, held>>
  BY DEF IInv, RefuseOverlap
<1>1. PICK i \in DOMAIN into.tiles :
        /\ into.tiles[i].key = This.key
        /\ into.tiles[i].blob # This.blob
  BY DEF RefuseOverlap, FirstAt
<1>2. i <= Len(held.tiles)
  <2>1. SUFFICES ASSUME i > Len(held.tiles) PROVE FALSE
    BY <1>0, VisitFacts
  <2>2. PICK k \in 1..todo : /\ into.tiles[i].key = from.tiles[k].key
                             /\ into.tiles[i].blob = from.tiles[k].blob
    BY <1>0, <2>1 DEF Extras
  <2>3. k \in DOMAIN from.tiles /\ k # todo + 1
    <3>1. todo \in Nat /\ todo + 1 <= Len(from.tiles) /\ DOMAIN from.tiles = 1..Len(from.tiles)
      BY <1>0, VisitFacts DEF TypeOK
    <3> QED BY <3>1
  <2>4. from.tiles[k].key = from.tiles[todo + 1].key
    BY <1>1, <2>2 DEF This
  <2> QED BY <1>0, VisitFacts, <2>3, <2>4 DEF Rows, KeysDistinct
<1>3. i \in DOMAIN held.tiles /\ held.tiles[i] = into.tiles[i]
  BY <1>0, <1>2, VisitFacts DEF Prefix
<1>4. /\ <<held.tiles[i].key, held.tiles[i].blob>> \in Contents(held.tiles)
      /\ <<This.key, This.blob>> \in Contents(from.tiles)
  BY <1>0, <1>3, VisitFacts DEF Contents, This
<1>5. Conflict
  BY <1>1, <1>3, <1>4 DEF Conflict
<1>6. Conflict'
  BY <1>0, <1>5 DEF Conflict, Contents
<1>7. TypeOK' /\ Rows' /\ Prefix' /\ Extras' /\ Placed'
  BY <1>0 DEF TypeOK, Rows, Prefix, Extras, Placed
<1>8. Phases'
  BY <1>0, <1>6 DEF Phases, Visiting
<1> QED BY <1>7, <1>8 DEF IInv

(* A tile that is not held takes a rowid above all others.                 *)
LEMMA ReissueKeeps == IInv /\ Reissue => IInv'
<1> SUFFICES ASSUME IInv, Reissue PROVE IInv'
  OBVIOUS
<1> DEFINE t == [This EXCEPT !.id = next + 1]
<1>0. /\ TypeOK /\ Rows /\ Prefix /\ Extras /\ Placed /\ Phases
      /\ Visiting
      /\ NoneAt(into.tiles, This.key)
      /\ next' = next + 1
      /\ rowid' = WithEntry(rowid, This.id, next + 1)
      /\ into' = [into EXCEPT !.tiles = Append(into.tiles, t)]
      /\ todo' = todo + 1
      /\ UNCHANGED <<from, outcome, held>>
  BY DEF IInv, Reissue
<1>1. next + 1 \in Nat \ {0} /\ next \in Nat /\ into \in Pyramid
  BY <1>0 DEF TypeOK
<1>2. t \in Tile /\ t.id = next + 1 /\ t.key = This.key /\ t.blob = This.blob
  BY <1>0, <1>1, VisitFacts DEF Tile
<1> HIDE DEF t
<1>3. /\ into' \in Pyramid
      /\ into'.tiles = Append(into.tiles, t)
      /\ into'.scheme = into.scheme /\ into'.mark = into.mark
      /\ into'.low = into.low /\ into'.high = into.high
  <2>1. Append(into.tiles, t) \in Seq(Tile)
    BY <1>0, <1>2, VisitFacts
  <2> QED BY <1>0, <1>1, <2>1 DEF Pyramid
<1>4. /\ rowid'[This.id] = next + 1
      /\ \A k \in 1..todo : rowid'[from.tiles[k].id] = rowid[from.tiles[k].id]
      /\ DOMAIN rowid' = {from.tiles[k].id : k \in 1..(todo + 1)}
      /\ DOMAIN rowid' \subseteq Nat
      /\ \A r \in DOMAIN rowid' : rowid'[r] \in Nat
  BY <1>0, <1>1, EntryIsNew
<1>5. /\ Len(into'.tiles) = Len(into.tiles) + 1
      /\ \A j \in DOMAIN into.tiles : j \in DOMAIN into'.tiles /\ into'.tiles[j] = into.tiles[j]
      /\ into'.tiles[Len(into.tiles) + 1] = t
      /\ DOMAIN into'.tiles = DOMAIN into.tiles \cup {Len(into.tiles) + 1}
      /\ Len(into.tiles) + 1 \in DOMAIN into'.tiles
      /\ Len(into.tiles) \in Nat /\ Len(held.tiles) \in Nat
      /\ DOMAIN held.tiles = 1..Len(held.tiles) /\ DOMAIN into.tiles = 1..Len(into.tiles)
  BY <1>0, <1>2, <1>3, VisitFacts
<1>6. TypeOK'
  BY <1>0, <1>1, <1>3, <1>4, VisitFacts DEF TypeOK
<1>7. \A i \in DOMAIN into.tiles : into.tiles[i].id <= next /\ into.tiles[i].id \in Nat
  <2>1. \A i \in DOMAIN into.tiles : into.tiles[i] \in Tile
    BY <1>0, VisitFacts
  <2> QED BY <1>0, <2>1 DEF Phases, Visiting, Tile
<1>8. Rows'
  <2>1. \A i \in DOMAIN into.tiles : into.tiles[i].id < t.id
    BY <1>1, <1>2, <1>7
  <2>2. RowidsAscend(into'.tiles) /\ KeysDistinct(into'.tiles)
    BY <1>0, <1>2, <1>3, <2>1, VisitFacts, PushKeepsRows DEF Rows
  <2> QED BY <1>0, <2>2 DEF Rows
<1>9. Prefix'
  BY <1>0, <1>5 DEF Prefix
<1>10. 1..(todo + 1) = 1..todo \cup {todo + 1}
  BY <1>0 DEF TypeOK
<1>11. Extras'
  BY <1>0, <1>2, <1>5, <1>10 DEF Extras, This
<1>12. Placed'
  <2>1. ASSUME NEW k \in 1..todo
        PROVE  \E j \in DOMAIN into'.tiles :
                 /\ into'.tiles[j].id = rowid'[from.tiles[k].id]
                 /\ into'.tiles[j].key = from.tiles[k].key
                 /\ into'.tiles[j].blob = from.tiles[k].blob
    <3>1. PICK j \in DOMAIN into.tiles :
            /\ into.tiles[j].id = rowid[from.tiles[k].id]
            /\ into.tiles[j].key = from.tiles[k].key
            /\ into.tiles[j].blob = from.tiles[k].blob
      BY <1>0 DEF Placed
    <3>2. j \in DOMAIN into'.tiles /\ into'.tiles[j] = into.tiles[j]
      BY <1>5
    <3> QED BY <1>4, <3>1, <3>2
  <2>2. LET j == Len(into.tiles) + 1
        IN  /\ j \in DOMAIN into'.tiles
            /\ into'.tiles[j].id = rowid'[from.tiles[todo + 1].id]
            /\ into'.tiles[j].key = from.tiles[todo + 1].key
            /\ into'.tiles[j].blob = from.tiles[todo + 1].blob
    BY <1>2, <1>4, <1>5 DEF This
  <2>3. todo' = todo + 1 /\ from' = from
    BY <1>0
  <2> QED BY <1>4, <1>10, <2>1, <2>2, <2>3 DEF Placed
<1>13. \A i \in DOMAIN into'.tiles : into'.tiles[i].id <= next + 1
  <2>1. \A i \in DOMAIN into.tiles : into'.tiles[i].id <= next + 1
    BY <1>1, <1>5, <1>7
  <2>2. into'.tiles[Len(into.tiles) + 1].id <= next + 1
    BY <1>1, <1>2, <1>5
  <2> QED BY <1>5, <2>1, <2>2
<1>14. Phases'
  BY <1>0, <1>3, <1>13 DEF Phases, Visiting
<1> QED BY <1>6, <1>8, <1>9, <1>11, <1>12, <1>14 DEF IInv

(* The mark and the extent are those of the union.                         *)
LEMMA FinishKeeps == IInv /\ Finish => IInv'
<1> SUFFICES ASSUME IInv, Finish PROVE IInv'
  OBVIOUS
<1> DEFINE m == RecomputedMark(into.mark, into.tiles)
           lo == UnionLow(into.low, from.low)
           hi == UnionHigh(into.high, from.high)
<1>0. /\ TypeOK /\ Rows /\ Prefix /\ Extras /\ Placed /\ Phases
      /\ outcome = "merging" /\ outcome' = "merged"
      /\ todo = Len(from.tiles)
      /\ into' = [into EXCEPT !.mark = m, !.low = lo, !.high = hi]
      /\ UNCHANGED <<from, todo, next, rowid, held>>
  BY DEF IInv, Finish
<1>1. m \in Nat \cup {None}
  BY <1>0, HighestOfAscending DEF TypeOK, Pyramid, Rows, RecomputedMark
<1>2. lo \in Bound /\ hi \in Bound
  BY <1>0 DEF TypeOK, Pyramid, UnionLow, UnionHigh, Bound
<1>3. /\ into' \in Pyramid
      /\ into'.tiles = into.tiles /\ into'.scheme = into.scheme
      /\ into'.mark = m /\ into'.low = lo /\ into'.high = hi
  BY <1>0, <1>1, <1>2 DEF TypeOK, Pyramid
<1>4. TypeOK'
  BY <1>0, <1>3 DEF TypeOK
<1>5. Rows' /\ Prefix' /\ Extras' /\ Placed'
  BY <1>0, <1>3 DEF Rows, Prefix, Extras, Placed
<1>6. Phases'
  BY <1>0, <1>3 DEF Phases
<1> QED BY <1>4, <1>5, <1>6 DEF IInv

(* Every step of merge_tiles keeps the invariant.                          *)
LEMMA StepKeeps == IInv /\ [Next]_vars => IInv'
<1> SUFFICES ASSUME IInv, [Next]_vars PROVE IInv'
  OBVIOUS
<1>1. CASE UNCHANGED vars
  BY <1>1 DEF vars, IInv, TypeOK, Rows, Prefix, Extras, Placed, Phases, Conflict, Contents
<1>2. CASE Next
  BY <1>2, RefuseSchemeKeeps, BeginKeeps, KeepHeldKeeps, RefuseOverlapKeeps,
     ReissueKeeps, FinishKeeps DEF Next
<1> QED BY <1>1, <1>2

(* IInv is an invariant of every call.                                      *)
THEOREM Inductive == Spec => []IInv
BY InitIInv, StepKeeps, PTL DEF Spec

-----------------------------------------------------------------------------
(* Every state of merge_tiles is well formed.                               *)
THEOREM TypeCorrect == Spec => []TypeOK
<1>1. IInv => TypeOK BY DEF IInv
<1> QED BY <1>1, Inductive, PTL

(* The merged table's rows are in the order the b-tree writer needs.        *)
THEOREM RowsAscendAlways == Spec => []MergedRowsAscend
<1>1. IInv => MergedRowsAscend BY DEF IInv, Rows, MergedRowsAscend
<1> QED BY <1>1, Inductive, PTL

(* Rowids identify rows, so a row in the map is one the loop has visited.   *)
LEMMA MappedMeansVisited ==
  ASSUME TypeOK, Rows, Placed, NEW i \in DOMAIN from.tiles,
         from.tiles[i].id \in DOMAIN rowid
  PROVE  i \in 1..todo
<1>0. /\ from.tiles \in Seq(Tile) /\ DOMAIN from.tiles = 1..Len(from.tiles)
      /\ Len(from.tiles) \in Nat
      /\ todo \in Nat /\ todo <= Len(from.tiles) /\ RowidsAscend(from.tiles)
  BY DEF TypeOK, Pyramid, Rows
<1>1. PICK k \in 1..todo : from.tiles[i].id = from.tiles[k].id
  BY DEF Placed
<1>2. i \in Int /\ k \in Int /\ k \in DOMAIN from.tiles
  BY <1>0
<1>3. \A n \in DOMAIN from.tiles : from.tiles[n].id \in Nat
  <2>1. \A n \in DOMAIN from.tiles : from.tiles[n] \in Tile
    BY <1>0
  <2> QED BY <2>1 DEF Tile
<1>4. i = k
  BY <1>0, <1>1, <1>2, <1>3 DEF RowidsAscend
<1> QED BY <1>4

(* A reference that follows the rowid map still describes its tile.         *)
THEOREM RowidMapFaithfulAlways == Spec => []RowidMapFaithful
<1>1. IInv => RowidMapFaithful
  BY MappedMeansVisited DEF IInv, Placed, RowidMapFaithful
<1> QED BY <1>1, Inductive, PTL

(* The invariant of a finished merge accounts for every row.               *)
LEMMA FinishedIsUnion == IInv => MergeIsUnion
<1>1. ASSUME IInv, outcome = "merged"
      PROVE  /\ Contents(into.tiles) = Contents(held.tiles) \cup Contents(from.tiles)
             /\ DOMAIN rowid = Rowids(from.tiles)
  <2>1. /\ todo = Len(from.tiles) /\ Len(held.tiles) \in Nat /\ Len(into.tiles) \in Nat
        /\ DOMAIN from.tiles = 1..todo
        /\ DOMAIN held.tiles = 1..Len(held.tiles)
        /\ DOMAIN into.tiles = 1..Len(into.tiles)
    BY <1>1 DEF IInv, Phases, TypeOK, Pyramid
  <2>2. Contents(held.tiles) \subseteq Contents(into.tiles)
    BY <1>1, <2>1 DEF IInv, Prefix, Contents
  <2>3. Contents(from.tiles) \subseteq Contents(into.tiles)
    <3>1. ASSUME NEW i \in DOMAIN from.tiles
          PROVE  <<from.tiles[i].key, from.tiles[i].blob>> \in Contents(into.tiles)
      <4>1. PICK j \in DOMAIN into.tiles :
              into.tiles[j].key = from.tiles[i].key /\ into.tiles[j].blob = from.tiles[i].blob
        BY <1>1, <2>1 DEF IInv, Placed
      <4> QED BY <4>1 DEF Contents
    <3> QED BY <3>1 DEF Contents
  <2>4. ASSUME NEW j \in DOMAIN into.tiles
        PROVE  <<into.tiles[j].key, into.tiles[j].blob>>
                 \in Contents(held.tiles) \cup Contents(from.tiles)
    <3>1. CASE j > Len(held.tiles)
      BY <1>1, <2>1, <3>1 DEF IInv, Extras, Contents
    <3>2. CASE j <= Len(held.tiles)
      BY <1>1, <2>1, <3>2 DEF IInv, Prefix, Contents
    <3> QED BY <2>1, <3>1, <3>2
  <2>5. DOMAIN rowid = Rowids(from.tiles)
    BY <1>1, <2>1 DEF IInv, Placed, Rowids
  <2> QED BY <2>2, <2>3, <2>4, <2>5 DEF Contents
<1> QED BY <1>1 DEF MergeIsUnion

(* A merge that returns holds the tiles of both sides and no others.        *)
THEOREM MergeIsUnionAlways == Spec => []MergeIsUnion
BY FinishedIsUnion, Inductive, PTL

(* A finished merge of two pyramids that disagree contradicts the invariant.*)
LEMMA RefusalIsExact == IInv => RefusedExactlyOnConflict
<1>1. ASSUME IInv, outcome = "merged", Conflict PROVE FALSE
  <2>1. /\ todo = Len(from.tiles) /\ DOMAIN from.tiles = 1..todo
        /\ held.scheme = from.scheme /\ held.scheme \in Mergeable
    BY <1>1 DEF IInv, Phases, TypeOK, Pyramid
  <2>2. PICK h \in DOMAIN held.tiles, k \in DOMAIN from.tiles :
          held.tiles[h].key = from.tiles[k].key /\ held.tiles[h].blob # from.tiles[k].blob
    BY <1>1, <2>1 DEF Conflict, Contents
  <2>3. PICK j \in DOMAIN into.tiles :
          into.tiles[j].key = from.tiles[k].key /\ into.tiles[j].blob = from.tiles[k].blob
    BY <1>1, <2>1 DEF IInv, Placed
  <2>4. h \in DOMAIN into.tiles /\ into.tiles[h] = held.tiles[h]
    BY <1>1 DEF IInv, Prefix, TypeOK, Pyramid
  <2> QED BY <1>1, <2>2, <2>3, <2>4 DEF IInv, Rows, KeysDistinct
<1> QED BY <1>1 DEF IInv, Phases, RefusedExactlyOnConflict

(* A pair of pyramids is refused when, and only when, it has no union.      *)
THEOREM RefusedExactlyOnConflictAlways == Spec => []RefusedExactlyOnConflict
BY RefusalIsExact, Inductive, PTL

(* The next INSERT into a merged table cannot meet a rowid it already has.  *)
THEOREM MarkAndExtentCoverAlways == Spec => []MarkAndExtentCover
<1>1. ASSUME IInv, outcome = "merged"
      PROVE  /\ into.mark # None => \A r \in Rowids(into.tiles) : r <= into.mark
             /\ (held.low \in Int /\ from.low \in Int) =>
                  into.low <= held.low /\ into.low <= from.low
             /\ (held.high \in Int /\ from.high \in Int) =>
                  into.high >= held.high /\ into.high >= from.high
  <2>1. /\ into.tiles \in Seq(Tile) /\ RowidsAscend(into.tiles)
        /\ into.mark = RecomputedMark(held.mark, into.tiles)
        /\ into.low = UnionLow(held.low, from.low)
        /\ into.high = UnionHigh(held.high, from.high)
    BY <1>1 DEF IInv, Phases, Rows, TypeOK, Pyramid
  <2>2. into.mark # None => \A r \in Rowids(into.tiles) : r <= into.mark
    BY <2>1, HighestOfAscending DEF RecomputedMark, Rowids
  <2> QED BY <2>1, <2>2 DEF UnionLow, UnionHigh
<1>2. IInv => MarkAndExtentCover
  BY <1>1 DEF MarkAndExtentCover
<1> QED BY <1>2, Inductive, PTL

(* No step of a merge moves or rewrites a row of the destination.           *)
THEOREM DestinationRowsStandAlways == Spec => DestinationRowsStand
<1> DEFINE Stands == /\ Len(into.tiles) <= Len(into'.tiles)
                     /\ SubSeq(into'.tiles, 1, Len(into.tiles)) = into.tiles
<1>1. ASSUME TypeOK, [Next]_vars PROVE [Stands]_vars
  <2>1. SUFFICES ASSUME Next PROVE Stands
    BY <1>1
  <2>2. into.tiles \in Seq(Tile) /\ Len(into.tiles) \in Nat /\ into \in Pyramid
    BY <1>1 DEF TypeOK, Pyramid
  <2>3. CASE into'.tiles = into.tiles
    BY <2>2, <2>3
  <2>4. CASE Reissue
    <3> DEFINE t == [This EXCEPT !.id = next + 1]
    <3>1. Visiting /\ into' = [into EXCEPT !.tiles = Append(into.tiles, t)]
      BY <2>4 DEF Reissue
    <3>2. t \in Tile
      <4>1. This \in Tile /\ next + 1 \in Nat \ {0}
        BY <1>1, <3>1, VisitFacts DEF TypeOK
      <4> QED BY <4>1 DEF Tile
    <3> HIDE DEF t
    <3>3. into'.tiles = Append(into.tiles, t)
      BY <2>2, <3>1 DEF Pyramid
    <3> QED BY <2>2, <3>2, <3>3
  <2>5. CASE Finish
    <3>1. into'.tiles = into.tiles
      BY <2>2, <2>5 DEF Finish, Pyramid
    <3> QED BY <2>3, <3>1
  <2> QED BY <2>1, <2>3, <2>4, <2>5 DEF Next, RefuseScheme, Begin, KeepHeld, RefuseOverlap
<1>2. IInv => TypeOK
  BY DEF IInv
<1>3. TypeOK /\ [Next]_vars => [Stands]_vars
  BY <1>1
<1> QED BY <1>2, <1>3, Inductive, PTL DEF Spec, DestinationRowsStand
=============================================================================
