------------------------ MODULE GpkgFeatureIdsProofs ------------------------
(***************************************************************************)
(* Proofs about GpkgFeatureIds: for tables of any length with any row ids, *)
(* and any edits between a read and a write, the table written can be      *)
(* packed and its row references resolve; and a run that edits nothing     *)
(* writes what it read.                                                    *)
(***************************************************************************)
EXTENDS GpkgFeatureIds, TLAPS

(* Sequences as functions, and back.                                        *)
LEMMA SeqOfFunction ==
  ASSUME NEW T, NEW n \in Nat, NEW f \in [1..n -> T]
  PROVE  f \in Seq(T)
OBVIOUS

(* The elements of a sequence.                                             *)
LEMMA SeqElement ==
  ASSUME NEW T, NEW s \in Seq(T)
  PROVE  /\ Len(s) \in Nat /\ DOMAIN s = 1..Len(s)
         /\ \A i \in DOMAIN s : s[i] \in T
OBVIOUS

(* The ids feature_ids returns are ascending and positive, whatever the     *)
(* features carry: writer.rs says a duplicate or a descent is fatal.        *)
LEMMA IdsHoldable ==
  ASSUME NEW s \in Seq([fid : Int \cup {None}, feature : Features])
  PROVE  /\ FeatureIds(s) \in [DOMAIN s -> Int]
         /\ Holdable(FeatureIds(s))
<1>1. Proposed(s) \in [DOMAIN s -> Int]
  <2>1. \A i \in DOMAIN s : s[i] \in [fid : Int \cup {None}, feature : Features]
    BY SeqElement
  <2>2. \A i \in DOMAIN s : s[i].fid \in Int \cup {None}
    BY <2>1
  <2>3. \A i \in DOMAIN s : i \in Int
    OBVIOUS
  <2> QED BY <2>2, <2>3 DEF Proposed
<1>2. CASE Holdable(Proposed(s))
  BY <1>1, <1>2 DEF FeatureIds
<1>3. CASE ~Holdable(Proposed(s))
  <2>1. FeatureIds(s) = [i \in DOMAIN s |-> i]
    BY <1>3 DEF FeatureIds
  <2>2. DOMAIN s = 1..Len(s) /\ Len(s) \in Nat
    OBVIOUS
  <2>3. FeatureIds(s) \in [DOMAIN s -> Int]
    BY <2>1, <2>2
  <2>4. Ascending(FeatureIds(s))
    BY <2>1, <2>2 DEF Ascending
  <2>5. FeatureIds(s) # <<>> => FeatureIds(s)[1] > 0
    <3>1. SUFFICES ASSUME 1 \notin DOMAIN s PROVE FeatureIds(s) = <<>>
      BY <2>1
    <3>2. DOMAIN s = {}
      BY <2>2, <3>1
    <3> QED BY <2>1, <3>2
  <2> QED BY <2>3, <2>4, <2>5 DEF Holdable
<1> QED BY <1>2, <1>3
-----------------------------------------------------------------------------
(* What Read keeps of a row and what Write gives back.                      *)
LEMMA CarriedComesBack ==
  ASSUME NEW t \in Seq([fid : Int, feature : Features]),
         NEW s, s = [i \in DOMAIN t |->
                       [fid |-> CarriedFid(t[i].fid, i), feature |-> t[i].feature]]
  PROVE  Proposed(s) = Column(t, "fid")
<1>1. \A i \in DOMAIN t : t[i].fid # None
  <2>1. \A i \in DOMAIN t : t[i] \in [fid : Int, feature : Features]
    BY SeqElement
  <2>2. \A i \in DOMAIN t : t[i].fid \in Int
    BY <2>1
  <2> QED BY <2>2, FidAssumption
<1> QED BY <1>1 DEF Proposed, Column, CarriedFid

(* The state of the file alone, which only Write changes.                   *)
FileOK ==
  /\ Ascending(Column(rows, "fid"))
  /\ (stage = "file" /\ runs > 0) => Holdable(Column(rows, "fid"))
  /\ \A r \in refs : r.row \in InSeq(Column(rows, "fid"))

(* Until the first edit the memory holds what the file holds.               *)
Unedited ==
  (stage = "memory" /\ edits = {}) =>
    fc = [i \in DOMAIN rows |->
            [fid |-> CarriedFid(rows[i].fid, i), feature |-> rows[i].feature]]

Inductive == TypeOK /\ FileOK /\ Unedited

(* One element more, at any place.                                         *)
LEMMA SpliceType ==
  ASSUME NEW T, NEW s \in Seq(T), NEW x \in T, NEW i \in 0..Len(s)
  PROVE  SubSeq(s, 1, i) \o <<x>> \o SubSeq(s, i + 1, Len(s)) \in Seq(T)
<1>1. SubSeq(s, 1, i) \in Seq(T) /\ SubSeq(s, i + 1, Len(s)) \in Seq(T)
  OBVIOUS
<1>2. <<x>> \in Seq(T)
  OBVIOUS
<1> QED BY <1>1, <1>2

(* One element less, at any place.                                         *)
LEMMA WithoutType ==
  ASSUME NEW T, NEW s \in Seq(T), NEW i \in DOMAIN s
  PROVE  Without(s, i) \in Seq(T)
<1>1. Len(s) \in Nat /\ DOMAIN s = 1..Len(s) /\ Len(s) - 1 \in Nat
  OBVIOUS
<1>2. \A j \in 1..Len(s) - 1 : j \in 1..Len(s) /\ j + 1 \in 1..Len(s)
  BY <1>1
<1>3. Without(s, i) \in [1..Len(s) - 1 -> T]
  BY <1>1, <1>2 DEF Without
<1> QED BY <1>1, <1>3

(* Nothing has been edited or written at first.                            *)
LEMMA InitInductive == Init => Inductive
<1> SUFFICES ASSUME Init PROVE Inductive
  OBVIOUS
<1>1. PICK n \in 0..3 :
        /\ rows \in [1..n -> [fid : Fids, feature : Features]]
        /\ Ascending(Column(rows, "fid"))
  BY DEF Init, Tables
<1>2. /\ rows \in Seq([fid : Int, feature : Features])
      /\ \A i \in DOMAIN rows : rows[i] \in [fid : Int, feature : Features]
  <2> n \in Nat
    OBVIOUS
  <2>1. rows \in [1..n -> [fid : Int, feature : Features]]
    <3>1. [fid : Fids, feature : Features] \subseteq [fid : Int, feature : Features]
      BY FidAssumption
    <3> QED BY <1>1, <3>1
  <2>2. rows \in Seq([fid : Int, feature : Features])
    BY <2>1, SeqOfFunction
  <2> QED BY <2>1, <2>2
<1>3. PICK named \in SUBSET InSeq(rows) :
        refs = {[row |-> x.fid, about |-> x.feature] : x \in named}
  BY DEF Init
<1>4. \A r \in refs : \E i \in DOMAIN rows : r = [row |-> rows[i].fid, about |-> rows[i].feature]
  BY <1>3 DEF InSeq
<1>5. refs \subseteq [row : Int, about : Features]
  BY <1>2, <1>4
<1>6. \A r \in refs : r.row \in InSeq(Column(rows, "fid"))
  BY <1>4 DEF InSeq, Column
<1>7. fc \in Seq([fid : Int \cup {None}, feature : Features])
  BY DEF Init
<1>8. runs \in 0..MaxRuns
  BY FidAssumption DEF Init
<1> QED BY <1>1, <1>2, <1>5, <1>6, <1>7, <1>8 DEF Init, Inductive, TypeOK, FileOK, Unedited

(* Every edit and every run keeps the invariant.                           *)
LEMMA StepInductive == Inductive /\ [Next]_vars => Inductive'
<1> SUFFICES ASSUME Inductive, [Next]_vars PROVE Inductive'
  OBVIOUS
<1> DEFINE FeatureT == [fid : Int \cup {None}, feature : Features]
<1> DEFINE RowT == [fid : Int, feature : Features]
<1> USE FidAssumption DEF Inductive
<1>1. CASE Read
  <2>1. \A i \in DOMAIN rows : rows[i] \in RowT
    BY SeqElement DEF TypeOK
  <2>2. fc' \in Seq(FeatureT)
    <3>1. DOMAIN rows = 1..Len(rows) /\ Len(rows) \in Nat
      BY SeqElement DEF TypeOK
    <3>2. \A i \in DOMAIN rows :
            [fid |-> CarriedFid(rows[i].fid, i), feature |-> rows[i].feature] \in FeatureT
      BY <2>1 DEF CarriedFid
    <3>3. fc' \in [1..Len(rows) -> FeatureT]
      BY <1>1, <3>1, <3>2 DEF Read
    <3> HIDE DEF FeatureT
    <3> QED BY <3>1, <3>3, SeqOfFunction
  <2>3. TypeOK'
    BY <1>1, <2>2 DEF Read, TypeOK
  <2>4. FileOK'
    BY <1>1 DEF Read, FileOK
  <2>5. Unedited'
    BY <1>1 DEF Read, Unedited
  <2> QED BY <2>3, <2>4, <2>5
<1>2. ASSUME NEW kind, Edit(kind), fc' \in Seq(FeatureT)
      PROVE  Inductive'
  <2>1. edits' # {} /\ edits' \subseteq Edits
    BY <1>2 DEF Edit, TypeOK
  <2> QED BY <1>2, <2>1 DEF Edit, TypeOK, FileOK, Unedited
<1>3. CASE Reorder
  <2>1. PICK p \in Orders(Len(fc)) : fc' = [i \in DOMAIN fc |-> fc[p[i]]]
    BY <1>3 DEF Reorder
  <2>2. fc \in Seq(FeatureT)
    BY DEF TypeOK
  <2> HIDE DEF FeatureT
  <2>3. /\ DOMAIN fc = 1..Len(fc) /\ Len(fc) \in Nat
        /\ \A i \in DOMAIN fc : fc[i] \in FeatureT /\ p[i] \in DOMAIN fc
    BY <2>2, SeqElement DEF Orders
  <2>4. fc' \in [1..Len(fc) -> FeatureT]
    BY <2>1, <2>3
  <2>5. fc' \in Seq(FeatureT)
    BY <2>3, <2>4, SeqOfFunction
  <2> QED BY <1>2, <1>3, <2>5 DEF Reorder
<1>4. CASE Remove
  <2>1. fc' \in Seq(FeatureT)
    BY <1>4, WithoutType DEF Remove, TypeOK
  <2> QED BY <1>2, <1>4, <2>1 DEF Remove
<1>5. CASE Insert
  <2>1. PICK x \in Features, i \in 0..Len(fc) :
          fc' = SubSeq(fc, 1, i) \o <<[fid |-> None, feature |-> x]>>
                  \o SubSeq(fc, i + 1, Len(fc))
    BY <1>5 DEF Insert
  <2>2. fc \in Seq(FeatureT) /\ [fid |-> None, feature |-> x] \in FeatureT
    BY <2>1 DEF TypeOK
  <2> HIDE DEF FeatureT
  <2>3. fc' \in Seq(FeatureT)
    BY <2>1, <2>2, SpliceType
  <2> QED BY <1>2, <1>5, <2>3 DEF Insert
<1>6. CASE Exchange
  <2>1. fc \in Seq(FeatureT)
    BY DEF TypeOK
  <2>2. /\ DOMAIN fc = 1..Len(fc) /\ Len(fc) \in Nat
        /\ \A i \in DOMAIN fc : fc[i] \in FeatureT
    BY <2>1, SeqElement
  <2>3. \A i \in DOMAIN fc : [fc[i] EXCEPT !.fid = None] \in FeatureT
    BY <2>2
  <2> HIDE DEF FeatureT
  <2>4. fc' \in [1..Len(fc) -> FeatureT]
    BY <1>6, <2>2, <2>3 DEF Exchange
  <2>5. fc' \in Seq(FeatureT)
    BY <2>2, <2>4, SeqOfFunction
  <2> QED BY <1>2, <1>6, <2>5 DEF Exchange
<1>7. CASE Write
  <2> DEFINE N == FeatureIds(fc)
  <2>1. /\ fc \in Seq(FeatureT) /\ DOMAIN fc = 1..Len(fc) /\ Len(fc) \in Nat
        /\ \A i \in DOMAIN fc : fc[i] \in FeatureT
    BY SeqElement DEF TypeOK
  <2>2. N \in [DOMAIN fc -> Int] /\ Holdable(N)
    BY <2>1, IdsHoldable
  <2>3. rows' = [i \in DOMAIN fc |-> [fid |-> N[i], feature |-> fc[i].feature]]
    BY <1>7 DEF Write
  <2>4. Column(rows', "fid") = N
    BY <2>2, <2>3 DEF Column
  <2>5. rows' \in Seq(RowT)
    <3> HIDE DEF N
    <3>1. \A i \in DOMAIN fc : [fid |-> N[i], feature |-> fc[i].feature] \in RowT
      BY <2>1, <2>2
    <3> HIDE DEF RowT
    <3>2. rows' \in [1..Len(fc) -> RowT]
      BY <2>1, <2>3, <3>1
    <3> QED BY <2>1, <3>2, SeqOfFunction
  <2>6. refs' = Retained(refs, N)
    BY <1>7 DEF Write
  <2>7. TypeOK'
    BY <1>7, <2>5, <2>6 DEF Write, TypeOK, Retained
  <2>8. FileOK'
    BY <2>2, <2>4, <2>6 DEF FileOK, Retained, Holdable
  <2> QED BY <1>7, <2>7, <2>8 DEF Write, Unedited
<1>8. CASE UNCHANGED vars
  BY <1>8 DEF vars, TypeOK, FileOK, Unedited
<1> QED BY <1>1, <1>3, <1>4, <1>5, <1>6, <1>7, <1>8 DEF Next

(* The inductive invariant holds in every reachable state.                  *)
THEOREM Invariant == Spec => []Inductive
<1> QED BY InitInductive, StepInductive, PTL DEF Spec

(* Type correctness.                                                        *)
THEOREM TypeCorrect == Spec => []TypeOK
<1>1. Inductive => TypeOK
  BY DEF Inductive
<1> QED BY <1>1, Invariant, PTL

(* Whatever a consumer does to the features, the b-tree packer and the      *)
(* PRIMARY KEY get ascending, positive row ids.                             *)
THEOREM RowsCanBePackedAlways == Spec => []RowsCanBePacked
<1>1. Inductive => RowsCanBePacked
  BY DEF Inductive, FileOK, RowsCanBePacked
<1> QED BY <1>1, Invariant, PTL

(* No reference that is written dangles.                                    *)
THEOREM ReferencesResolveAlways == Spec => []ReferencesResolve
<1>1. Inductive => ReferencesResolve
  BY DEF Inductive, FileOK, ReferencesResolve
<1> QED BY <1>1, Invariant, PTL

(* carried_fid and feature_ids are inverse of one another on an unedited    *)
(* layer of positive ids.                                                   *)
THEOREM PlainCopyKeepsRowsAlways == Spec => PlainCopyKeepsRows
<1>1. ASSUME Inductive, Write, edits = {}, Holdable(Column(rows, "fid"))
      PROVE  UNCHANGED <<rows, refs>>
  <2>1. rows \in Seq([fid : Int, feature : Features])
    BY <1>1 DEF Inductive, TypeOK
  <2>2. fc = [i \in DOMAIN rows |->
                [fid |-> CarriedFid(rows[i].fid, i), feature |-> rows[i].feature]]
    BY <1>1 DEF Inductive, Unedited, Write
  <2>3. Proposed(fc) = Column(rows, "fid")
    BY <2>1, <2>2, CarriedComesBack
  <2>4. FeatureIds(fc) = Column(rows, "fid")
    BY <1>1, <2>3 DEF FeatureIds
  <2>5. rows' = [i \in DOMAIN fc |-> [fid |-> FeatureIds(fc)[i], feature |-> fc[i].feature]]
    BY <1>1 DEF Write
  <2>6. \A i \in DOMAIN rows :
          rows[i] = [fid |-> Column(rows, "fid")[i], feature |-> fc[i].feature]
    <3>1. \A i \in DOMAIN rows : rows[i] \in [fid : Int, feature : Features]
      BY <2>1, SeqElement
    <3>2. \A i \in DOMAIN rows : rows[i] = [fid |-> rows[i].fid, feature |-> rows[i].feature]
      BY <3>1
    <3>3. \A i \in DOMAIN rows :
            Column(rows, "fid")[i] = rows[i].fid /\ fc[i].feature = rows[i].feature
      BY <2>2 DEF Column
    <3> QED BY <3>2, <3>3
  <2>7. rows' = [i \in DOMAIN rows |-> rows[i]]
    BY <2>2, <2>4, <2>5, <2>6
  <2>8. rows' = rows
    BY <2>1, <2>7
  <2>9. refs' = refs
    BY <1>1, <2>4 DEF Write, Retained, Inductive, FileOK
  <2> QED BY <2>8, <2>9
<1>2. Inductive /\ [Next]_vars =>
        [(Write /\ edits = {} /\ Holdable(Column(rows, "fid"))) => UNCHANGED <<rows, refs>>]_vars
  BY <1>1
<1> QED BY <1>2, Invariant, PTL DEF Spec, PlainCopyKeepsRows

-----------------------------------------------------------------------------
(* Every id of a table lies beyond the positions, so that none was dropped  *)
(* on reading and none can be taken for a position.                         *)
AllBeyond == \A i \in DOMAIN rows : rows[i].fid > Len(rows)

(* s is rows of t, in the order of their ids.                               *)
Drawn(s, t) ==
  /\ Ascending(Column(s, "fid"))
  /\ \A i \in DOMAIN s : \E j \in DOMAIN t : s[i] = t[j]

(* While nothing but removals has happened, the memory holds rows of the    *)
(* file, in the file's order and with the file's ids.                       *)
Carried == (stage = "memory" /\ edits \subseteq {"remove"} /\ AllBeyond) => Drawn(fc, rows)

(* An id beyond the positions is carried as it is.                          *)
LEMMA ReadDraws ==
  ASSUME Inductive, AllBeyond, Read
  PROVE  Drawn(fc', rows)
<1>1. /\ DOMAIN rows = 1..Len(rows) /\ Len(rows) \in Nat
      /\ \A i \in DOMAIN rows : rows[i] \in [fid : Int, feature : Features]
  BY SeqElement DEF Inductive, TypeOK
<1>2. \A i \in DOMAIN rows : rows[i].fid # i
  <2>1. \A i \in DOMAIN rows : rows[i].fid \in Int
    BY <1>1
  <2> QED BY <1>1, <2>1 DEF AllBeyond
<1>3. \A i \in DOMAIN rows :
        [fid |-> CarriedFid(rows[i].fid, i), feature |-> rows[i].feature] = rows[i]
  <2>1. \A i \in DOMAIN rows : rows[i] = [fid |-> rows[i].fid, feature |-> rows[i].feature]
    BY <1>1
  <2> QED BY <1>2, <2>1 DEF CarriedFid
<1>4. DOMAIN fc' = DOMAIN rows /\ \A i \in DOMAIN rows : fc'[i] = rows[i]
  BY <1>3 DEF Read
<1>5. Ascending(Column(rows, "fid"))
  BY DEF Inductive, FileOK
<1>6. Column(fc', "fid") = Column(rows, "fid")
  BY <1>4 DEF Column
<1> QED BY <1>4, <1>5, <1>6 DEF Drawn

(* What is left when a feature is removed is still in order.                *)
LEMMA WithoutDraws ==
  ASSUME NEW T, NEW s \in Seq(T), NEW t, Drawn(s, t), NEW i \in DOMAIN s
  PROVE  Drawn(Without(s, i), t)
<1>1. Len(s) \in Nat /\ DOMAIN s = 1..Len(s)
  BY SeqElement
<1> DEFINE w == Without(s, i)
<1> DEFINE at == [j \in 1..Len(s) - 1 |-> IF j < i THEN j ELSE j + 1]
<1>2. /\ DOMAIN w = 1..Len(s) - 1
      /\ \A j \in DOMAIN w : at[j] \in DOMAIN s /\ w[j] = s[at[j]]
  BY <1>1 DEF Without
<1>3. \A j, k \in DOMAIN w : j < k => at[j] < at[k]
  BY <1>1, <1>2
<1> HIDE DEF w, at
<1>4. \A j, k \in DOMAIN w : j < k => w[j].fid < w[k].fid
  <2>1. \A j, k \in DOMAIN s : j < k => s[j].fid < s[k].fid
    BY DEF Drawn, Ascending, Column
  <2> QED BY <1>2, <1>3, <2>1
<1>5. Ascending(Column(w, "fid"))
  BY <1>4 DEF Ascending, Column
<1>6. \A j \in DOMAIN w : \E k \in DOMAIN t : w[j] = t[k]
  BY <1>2 DEF Drawn
<1>7. Drawn(w, t)
  BY <1>5, <1>6 DEF Drawn
<1> QED BY <1>7 DEF w

(* Carried is kept by every step.                                           *)
LEMMA StepCarried == Inductive /\ Carried /\ [Next]_vars => Carried'
<1> SUFFICES ASSUME Inductive, Carried, [Next]_vars PROVE Carried'
  OBVIOUS
<1>1. CASE Read
  <2>1. rows' = rows
    BY <1>1 DEF Read
  <2>2. AllBeyond' => Drawn(fc', rows')
    BY <1>1, <2>1, ReadDraws DEF AllBeyond
  <2> QED BY <2>2 DEF Carried
<1>2. CASE Remove
  <2>1. PICK i \in DOMAIN fc : fc' = Without(fc, i)
    BY <1>2 DEF Remove
  <2>2. /\ rows' = rows /\ stage = "memory"
        /\ edits' = edits \cup {"remove"}
    BY <1>2 DEF Remove, Edit
  <2>3. fc \in Seq([fid : Int \cup {None}, feature : Features])
    BY DEF Inductive, TypeOK
  <2>4. (edits' \subseteq {"remove"} /\ AllBeyond') => Drawn(fc, rows)
    BY <2>2 DEF Carried, AllBeyond
  <2>5. (edits' \subseteq {"remove"} /\ AllBeyond') => Drawn(fc', rows')
    BY <2>1, <2>2, <2>3, <2>4, WithoutDraws
  <2> QED BY <2>5 DEF Carried
<1>3. CASE Reorder \/ Insert \/ Exchange
  <2>1. \E kind \in {"reorder", "insert", "exchange"} : edits' = edits \cup {kind}
    BY <1>3 DEF Reorder, Insert, Exchange, Edit
  <2>2. ~(edits' \subseteq {"remove"})
    BY <2>1
  <2> QED BY <2>2 DEF Carried
<1>4. CASE Write
  BY <1>4 DEF Write, Carried
<1>5. CASE UNCHANGED vars
  BY <1>5 DEF vars, Carried, AllBeyond
<1> QED BY <1>1, <1>2, <1>3, <1>4, <1>5 DEF Next

(* Carried holds in every reachable state.                                  *)
THEOREM CarriedAlways == Spec => []Carried
<1>1. Init => Carried
  BY DEF Init, Carried
<1> QED BY <1>1, StepCarried, Invariant, PTL DEF Spec

(* Removing features of a layer whose ids were all carried leaves each      *)
(* reference dropped, or about the feature it was about: feature_ids gives  *)
(* the remaining rows the ids they had.                                     *)
THEOREM RemovalKeepsMeaningAlways == Spec => RemovalKeepsMeaning
<1>1. ASSUME Inductive, Carried, Write, edits \subseteq {"remove"}, AllBeyond,
             \A r \in refs : Follows(r, rows)
      PROVE  \A r \in refs' : Follows(r, rows')
  <2>1. Drawn(fc, rows)
    BY <1>1 DEF Carried, Write
  <2>2. /\ DOMAIN rows = 1..Len(rows) /\ Len(rows) \in Nat
        /\ \A j \in DOMAIN rows : rows[j] \in [fid : Int, feature : Features]
    BY <1>1, SeqElement DEF Inductive, TypeOK
  <2>3. \A i \in DOMAIN fc : fc[i].fid \in Int /\ fc[i].fid > 0
    <3>1. \A j \in DOMAIN rows : rows[j].fid \in Int /\ rows[j].fid > 0
      BY <1>1, <2>2 DEF AllBeyond
    <3> QED BY <2>1, <3>1 DEF Drawn
  <2>4. Proposed(fc) = Column(fc, "fid")
    BY <2>3, FidAssumption DEF Proposed, Column
  <2>5. Holdable(Proposed(fc))
    <3>1. fc \in Seq([fid : Int \cup {None}, feature : Features])
      BY <1>1 DEF Inductive, TypeOK
    <3>2. DOMAIN fc = 1..Len(fc) /\ Len(fc) \in Nat
      BY <3>1, SeqElement
    <3>3. CASE 1 \in DOMAIN fc
      BY <2>1, <2>3, <2>4, <3>3 DEF Holdable, Drawn, Column
    <3>4. CASE 1 \notin DOMAIN fc
      <4>1. DOMAIN fc = {}
        BY <3>2, <3>4
      <4>2. Column(fc, "fid") = <<>>
        BY <4>1 DEF Column
      <4> QED BY <2>1, <2>4, <4>2 DEF Holdable, Drawn
    <3> QED BY <3>3, <3>4
  <2>6. FeatureIds(fc) = Column(fc, "fid")
    BY <2>4, <2>5 DEF FeatureIds
  <2>7. /\ DOMAIN rows' = DOMAIN fc
        /\ \A i \in DOMAIN fc : rows'[i].fid = fc[i].fid /\ rows'[i].feature = fc[i].feature
    BY <1>1, <2>6 DEF Write, Column
  <2>8. refs' \subseteq refs
    BY <1>1 DEF Write, Retained
  <2> QED
    <3> SUFFICES ASSUME NEW r \in refs, NEW i \in DOMAIN fc, rows'[i].fid = r.row
                 PROVE  rows'[i].feature = r.about
      BY <2>7, <2>8 DEF Follows
    <3>1. PICK j \in DOMAIN rows : fc[i] = rows[j]
      BY <2>1 DEF Drawn
    <3>2. rows[j].fid = r.row
      BY <2>7, <3>1
    <3> QED BY <1>1, <2>7, <3>1, <3>2 DEF Follows
<1>2. Inductive /\ Carried /\ [Next]_vars =>
        [(/\ Write /\ edits \subseteq {"remove"}
          /\ \A r \in refs : Follows(r, rows)
          /\ \A i \in DOMAIN rows : rows[i].fid > Len(rows))
           => \A r \in refs' : Follows(r, rows')]_vars
  BY <1>1 DEF AllBeyond
<1> QED BY <1>2, CarriedAlways, Invariant, PTL DEF Spec, RemovalKeepsMeaning
=============================================================================
