------------------------ MODULE MetadataMergeProofs ------------------------
(***************************************************************************)
(* What merge_metadata guarantees for pairs of every size.                 *)
(***************************************************************************)
EXTENDS MetadataMerge, TLAPS

IdsDistinct(records) ==
  \A i, j \in DOMAIN records : records[i].id = records[j].id => i = j

(* An id to reissue above exists: the merged records have a highest id.    *)
HasHighest(records) ==
  records # <<>> => \E n \in IdsOf(records) : \A m \in IdsOf(records) : m <= n

(* An addition repeats nothing that stands before it.                      *)
NewDocsAfter(n, records) ==
  \A i, j \in DOMAIN records : i < j /\ j > n => records[i].doc # records[j].doc

NewRefsAfter(n, refs) ==
  \A i, j \in DOMAIN refs : i < j /\ j > n => refs[i] # refs[j]

Sorted ==
  /\ dest # None => Ascending(dest.records)
  /\ source # None => Ascending(source.records)

MapsSound ==
  \A n \in DOMAIN rowids : DOMAIN rowids[n] \subseteq Ids
                           /\ \A r \in DOMAIN rowids[n] : rowids[n][r] \in Ids

Built ==
  (Merging \/ (phase = "done" /\ dest # None /\ source # None)) =>
    /\ dest \in Metadata /\ source \in Metadata /\ merged \in Metadata
    /\ IdsDistinct(merged.records)
    /\ HasHighest(merged.records)
    /\ Len(dest.records) <= Len(merged.records)
    /\ Len(dest.refs) <= Len(merged.refs)
    /\ NewDocsAfter(Len(dest.records), merged.records)
    /\ NewRefsAfter(Len(dest.refs), merged.refs)

(* The records visited so far are those of the map, which is faithful.     *)
VisitedRecords ==
  IF phase = "records" THEN 1..seen
  ELSE IF phase = "references" THEN DOMAIN source.records ELSE {}

MapFaithful ==
  Merging =>
    /\ DOMAIN ids = {source.records[i].id : i \in VisitedRecords}
    /\ \A i \in VisitedRecords : \E j \in DOMAIN merged.records :
         /\ merged.records[j].id = ids[source.records[i].id]
         /\ merged.records[j].doc = source.records[i].doc

Start == phase = "start" => merged = None /\ ids = <<>> /\ seen = 0

OneSided ==
  (phase = "done" /\ (dest = None \/ source = None)) =>
    merged = IF dest = None THEN source ELSE dest

IInv == TypeOK /\ Sorted /\ MapsSound /\ Built /\ MapFaithful /\ Start /\ OneSided

-----------------------------------------------------------------------------
(* Pushing a record of a new id keeps the ids distinct and a highest id.   *)
LEMMA PushKeepsIds ==
  ASSUME NEW records \in Seq(Record), NEW r \in Record,
         IdsDistinct(records), HasHighest(records), r.id \notin IdsOf(records)
  PROVE  IdsDistinct(Append(records, r)) /\ HasHighest(Append(records, r))
<1> DEFINE pushed == Append(records, r)
<1>1. /\ DOMAIN pushed = DOMAIN records \cup {Len(records) + 1}
      /\ \A i \in DOMAIN records : pushed[i] = records[i] /\ i # Len(records) + 1
      /\ pushed[Len(records) + 1] = r
      /\ pushed # <<>>
  OBVIOUS
<1> HIDE DEF pushed
<1>2. IdsOf(pushed) = IdsOf(records) \cup {r.id}
  BY <1>1 DEF IdsOf
<1>3. IdsDistinct(pushed)
  BY <1>1 DEF IdsDistinct, IdsOf
<1>4. r.id \in Int /\ \A n \in IdsOf(records) : n \in Int
  <2>1. \A i \in DOMAIN records : records[i] \in Record
    OBVIOUS
  <2> QED BY <2>1 DEF Record, Ids, IdsOf
<1>5. CASE records = <<>>
  <2>1. IdsOf(pushed) = {r.id}
    BY <1>2, <1>5 DEF IdsOf
  <2> QED BY <1>3, <1>4, <2>1 DEF HasHighest, pushed
<1>6. CASE records # <<>>
  <2>1. PICK n \in IdsOf(records) : \A m \in IdsOf(records) : m <= n
    BY <1>6 DEF HasHighest
  <2>2. CASE r.id <= n
    <3>1. n \in IdsOf(pushed) /\ \A m \in IdsOf(pushed) : m <= n
      BY <1>2, <2>1, <2>2
    <3> QED BY <1>3, <3>1 DEF HasHighest, pushed
  <2>3. CASE n <= r.id
    <3>1. r.id \in IdsOf(pushed) /\ \A m \in IdsOf(pushed) : m <= r.id
      BY <1>2, <1>4, <2>1, <2>3
    <3> QED BY <1>3, <3>1 DEF HasHighest, pushed
  <2> QED BY <1>4, <2>1, <2>2, <2>3
<1> QED BY <1>5, <1>6

(* Rows that ascend have distinct ids and a highest.                       *)
LEMMA AscendingIds ==
  ASSUME NEW records \in Seq(Record), Ascending(records)
  PROVE  IdsDistinct(records) /\ HasHighest(records)
<1>0. DOMAIN records = 1..Len(records) /\ Len(records) \in Nat
  OBVIOUS
<1>1. \A i \in DOMAIN records : records[i].id \in Nat
  <2>1. \A i \in DOMAIN records : records[i] \in Record
    OBVIOUS
  <2> QED BY <2>1 DEF Record, Ids
<1>2. IdsDistinct(records)
  BY <1>0, <1>1 DEF IdsDistinct, Ascending
<1>3. ASSUME records # <<>> PROVE HasHighest(records)
  <2>1. Len(records) # 0
    BY <1>3
  <2>2. Len(records) \in DOMAIN records
    BY <1>0, <2>1
  <2>3. \A i \in DOMAIN records : records[i].id <= records[Len(records)].id
    BY <1>0, <1>1, <2>2 DEF Ascending
  <2> QED BY <2>2, <2>3 DEF HasHighest, IdsOf
<1> QED BY <1>2, <1>3 DEF HasHighest

(* The id a record is written under is a positive number nothing else has. *)
LEMMA IdForIsFree ==
  ASSUME NEW records \in Seq(Record), NEW id \in Ids, HasHighest(records)
  PROVE  IdFor(records, id) \in Ids /\ IdFor(records, id) \notin IdsOf(records)
<1>1. CASE id \notin IdsOf(records)
  BY <1>1 DEF IdFor
<1>2. CASE id \in IdsOf(records)
  <2>1. records # <<>>
    BY <1>2 DEF IdsOf
  <2>2. /\ HighestId(records) \in IdsOf(records)
        /\ \A m \in IdsOf(records) : m <= HighestId(records)
    BY <2>1 DEF HasHighest, HighestId
  <2>3. \A m \in IdsOf(records) : m \in Ids
    <3>1. \A i \in DOMAIN records : records[i] \in Record
      OBVIOUS
    <3> QED BY <3>1 DEF Record, IdsOf
  <2> DEFINE top == HighestId(records)
  <2>4. top \in Ids
    BY <2>2, <2>3
  <2>5. Larger(top, id) \in Ids /\ top <= Larger(top, id)
    BY <2>4 DEF Larger, Ids
  <2>6. IdFor(records, id) = Larger(top, id) + 1
    BY <1>2 DEF IdFor
  <2> HIDE DEF top
  <2>7. \A m \in IdsOf(records) : m <= top
    BY <2>2 DEF top
  <2> QED BY <2>3, <2>4, <2>5, <2>6, <2>7 DEF Ids
<1> QED BY <1>1, <1>2

(* A call starts with two readings, both well formed.                      *)
LEMMA InitIInv == Init => IInv
<1> SUFFICES ASSUME NEW d \in Sides, NEW s \in Sides, NEW m \in RowMaps, InitWith(d, s, m)
             PROVE  IInv
  BY DEF Init
<1> USE DEF InitWith
<1>1. TypeOK BY MetadataAssumption DEF TypeOK, Merging
<1>2. Sorted BY MetadataAssumption DEF Sorted
<1>3. MapsSound BY RowMapsAssumption DEF MapsSound
<1>4. Built /\ MapFaithful /\ Start /\ OneSided
  BY DEF Built, MapFaithful, Start, OneSided, Merging
<1> QED BY <1>1, <1>2, <1>3, <1>4 DEF IInv

(* A side that carries nothing leaves the other as it was read.            *)
LEMMA OneSideKeeps == IInv /\ OneSide => IInv'
<1> SUFFICES ASSUME IInv, OneSide PROVE IInv'
  OBVIOUS
<1> USE DEF IInv, OneSide, inputs
<1>1. TypeOK' BY DEF TypeOK, Merging
<1>2. Sorted' /\ MapsSound' BY DEF Sorted, MapsSound
<1>3. Built' /\ MapFaithful' /\ Start' /\ OneSided'
  BY DEF Built, MapFaithful, Start, OneSided, Merging
<1> QED BY <1>1, <1>2, <1>3

(* The loops start from the destination's rows and an empty id map.        *)
LEMMA BothSidesKeeps == IInv /\ BothSides => IInv'
<1> SUFFICES ASSUME IInv, BothSides PROVE IInv'
  OBVIOUS
<1> USE DEF IInv, BothSides, inputs
<1>1. /\ dest \in Metadata /\ source \in Metadata
      /\ dest.records \in Seq(Record) /\ Ascending(dest.records)
      /\ dest.refs \in Seq(Reference) /\ source.records \in Seq(Record)
  BY DEF TypeOK, Metadata, Sorted
<1>2. TypeOK' BY <1>1 DEF TypeOK, Merging, Start
<1>3. Sorted' /\ MapsSound' BY DEF Sorted, MapsSound
<1>4. IdsDistinct(dest.records) /\ HasHighest(dest.records)
  BY <1>1, AscendingIds
<1>5. NewDocsAfter(Len(dest.records), dest.records) /\ NewRefsAfter(Len(dest.refs), dest.refs)
  BY <1>1 DEF NewDocsAfter, NewRefsAfter
<1>6. Built' BY <1>1, <1>4, <1>5 DEF Built, Merging
<1>7. MapFaithful' BY DEF MapFaithful, VisitedRecords, Start
<1>8. Start' /\ OneSided' BY DEF Start, OneSided
<1> QED BY <1>2, <1>3, <1>6, <1>7, <1>8

(* What every step of the record loop knows of the record it visits.       *)
LEMMA VisitFacts ==
  ASSUME IInv, VisitingRecord
  PROVE  /\ dest \in Metadata /\ source \in Metadata /\ merged \in Metadata
         /\ source.records \in Seq(Record) /\ merged.records \in Seq(Record)
         /\ dest.records \in Seq(Record)
         /\ merged.refs \in Seq(Reference) /\ source.refs \in Seq(Reference)
         /\ dest.refs \in Seq(Reference)
         /\ seen \in Nat /\ seen + 1 \in DOMAIN source.records
         /\ ThisRecord \in Record
         /\ 1..(seen + 1) = 1..seen \cup {seen + 1}
         /\ \A i \in 1..seen : source.records[i].id # ThisRecord.id
         /\ phase = "records"
<1>1. phase = "records" /\ seen \in Nat /\ seen < Len(source.records)
  BY DEF VisitingRecord, IInv, TypeOK
<1>2. dest \in Metadata /\ source \in Metadata /\ merged \in Metadata
  BY <1>1 DEF IInv, TypeOK, Merging
<1>3. /\ source.records \in Seq(Record) /\ merged.records \in Seq(Record)
      /\ dest.records \in Seq(Record)
      /\ merged.refs \in Seq(Reference) /\ source.refs \in Seq(Reference)
      /\ dest.refs \in Seq(Reference)
  BY <1>2 DEF Metadata
<1>4. /\ DOMAIN source.records = 1..Len(source.records)
      /\ seen + 1 \in DOMAIN source.records
      /\ \A i \in 1..seen : i \in DOMAIN source.records /\ i < seen + 1
      /\ 1..(seen + 1) = 1..seen \cup {seen + 1}
  BY <1>1, <1>3
<1>5. ThisRecord \in Record
  BY <1>3, <1>4 DEF ThisRecord
<1>6. \A i \in DOMAIN source.records : source.records[i].id \in Int
  <2>1. \A i \in DOMAIN source.records : source.records[i] \in Record
    BY <1>3
  <2> QED BY <2>1 DEF Record, Ids
<1>7. \A i \in 1..seen : source.records[i].id < source.records[seen + 1].id
  <2>1. Ascending(source.records)
    BY <1>2, MetadataAssumption DEF IInv, Sorted
  <2> QED BY <1>4, <2>1 DEF Ascending
<1>8. \A i \in 1..seen : source.records[i].id # ThisRecord.id
  BY <1>4, <1>6, <1>7 DEF ThisRecord
<1> QED BY <1>1, <1>2, <1>3, <1>4, <1>5, <1>8

(* The entry of a record visited now is new, and disturbs no other.        *)
LEMMA EntryIsNew ==
  ASSUME IInv, VisitingRecord, NEW new \in Ids,
         ids' = WithEntry(ids, ThisRecord.id, new)
  PROVE  /\ ids'[ThisRecord.id] = new
         /\ \A i \in 1..seen : ids'[source.records[i].id] = ids[source.records[i].id]
         /\ DOMAIN ids' = {source.records[i].id : i \in 1..(seen + 1)}
         /\ DOMAIN ids' \subseteq Ids
         /\ \A r \in DOMAIN ids' : ids'[r] \in Ids
<1>1. /\ ThisRecord \in Record /\ \A i \in 1..seen : source.records[i].id # ThisRecord.id
      /\ 1..(seen + 1) = 1..seen \cup {seen + 1}
      /\ phase = "records"
  BY VisitFacts
<1>2. DOMAIN ids = {source.records[i].id : i \in 1..seen}
  BY <1>1 DEF IInv, MapFaithful, VisitedRecords, Merging
<1>3. ThisRecord.id \notin DOMAIN ids
  BY <1>1, <1>2
<1>4. DOMAIN ids' = DOMAIN ids \cup {ThisRecord.id}
  BY DEF WithEntry
<1>5. ids'[ThisRecord.id] = new
  BY <1>3, <1>4 DEF WithEntry
<1>6. \A r \in DOMAIN ids : ids'[r] = ids[r]
  BY <1>4 DEF WithEntry
<1>7. \A i \in 1..seen : ids'[source.records[i].id] = ids[source.records[i].id]
  BY <1>2, <1>6
<1>8. DOMAIN ids' = {source.records[i].id : i \in 1..(seen + 1)}
  BY <1>1, <1>2, <1>4 DEF ThisRecord
<1>9. DOMAIN ids' \subseteq Ids /\ \A r \in DOMAIN ids' : ids'[r] \in Ids
  BY <1>1, <1>4, <1>5, <1>6 DEF IInv, TypeOK, Record
<1> QED BY <1>5, <1>7, <1>8, <1>9

(* A record found in the destination only adds to the id map.              *)
LEMMA ShareRecordKeeps == IInv /\ ShareRecord => IInv'
<1> SUFFICES ASSUME IInv, ShareRecord PROVE IInv'
  OBVIOUS
<1>0. /\ TypeOK /\ Sorted /\ MapsSound /\ Built /\ MapFaithful /\ VisitingRecord
      /\ seen' = seen + 1
      /\ UNCHANGED <<dest, source, rowids, merged, phase>>
  BY DEF IInv, ShareRecord, inputs
<1>1. PICK i \in DOMAIN merged.records :
        /\ merged.records[i].doc = ThisRecord.doc
        /\ ids' = WithEntry(ids, ThisRecord.id, merged.records[i].id)
  BY DEF ShareRecord, FirstWith
<1>2. merged.records[i].id \in Ids
  <2>1. merged.records[i] \in Record
    BY <1>0, VisitFacts
  <2> QED BY <2>1 DEF Record
<1>3. /\ ids'[ThisRecord.id] = merged.records[i].id
      /\ \A k \in 1..seen : ids'[source.records[k].id] = ids[source.records[k].id]
      /\ DOMAIN ids' = {source.records[k].id : k \in 1..(seen + 1)}
      /\ DOMAIN ids' \subseteq Ids
      /\ \A r \in DOMAIN ids' : ids'[r] \in Ids
  BY <1>0, <1>1, <1>2, EntryIsNew
<1>4. phase = "records" /\ phase' = "records"
  BY <1>0, VisitFacts
<1>5. TypeOK'
  <2>1. seen' \in Nat /\ seen' <= Len(source'.records)
    BY <1>0, VisitFacts
  <2> QED BY <1>0, <1>3, <1>4, <2>1 DEF TypeOK, Merging
<1>6. Sorted' /\ MapsSound' /\ Built'
  BY <1>0 DEF Sorted, MapsSound, Built, Merging
<1>7. MapFaithful'
  <2>1. \A k \in 1..seen : \E j \in DOMAIN merged.records :
          /\ merged.records[j].id = ids'[source.records[k].id]
          /\ merged.records[j].doc = source.records[k].doc
    BY <1>0, <1>3, <1>4 DEF MapFaithful, VisitedRecords, Merging
  <2>2. \E j \in DOMAIN merged.records :
          /\ merged.records[j].id = ids'[source.records[seen + 1].id]
          /\ merged.records[j].doc = source.records[seen + 1].doc
    BY <1>1, <1>3 DEF ThisRecord
  <2>3. 1..(seen + 1) = 1..seen \cup {seen + 1}
    BY <1>0, VisitFacts
  <2> QED BY <1>0, <1>3, <1>4, <2>1, <2>2, <2>3 DEF MapFaithful, VisitedRecords
<1>8. Start' /\ OneSided'
  BY <1>4 DEF Start, OneSided
<1> QED BY <1>5, <1>6, <1>7, <1>8 DEF IInv

(* A record that is added gets an id nothing else has.                     *)
LEMMA AddRecordKeeps == IInv /\ AddRecord => IInv'
<1> SUFFICES ASSUME IInv, AddRecord PROVE IInv'
  OBVIOUS
<1> DEFINE id == IdFor(merged.records, ThisRecord.id)
           r == [id |-> id, doc |-> ThisRecord.doc]
<1>0. /\ TypeOK /\ Sorted /\ MapsSound /\ Built /\ MapFaithful /\ VisitingRecord
      /\ NoneWith(merged.records, ThisRecord.doc)
      /\ ids' = WithEntry(ids, ThisRecord.id, id)
      /\ merged' = [merged EXCEPT !.records = Append(merged.records, r)]
      /\ seen' = seen + 1
      /\ UNCHANGED <<dest, source, rowids, phase>>
  BY DEF IInv, AddRecord, inputs
<1>1. id \in Ids /\ id \notin IdsOf(merged.records)
  <2>1. ThisRecord.id \in Ids
    BY <1>0, VisitFacts DEF Record
  <2>2. HasHighest(merged.records)
    BY <1>0 DEF Built, VisitingRecord, Merging
  <2> QED BY <1>0, <2>1, <2>2, VisitFacts, IdForIsFree
<1>2. r \in Record /\ r.id = id /\ r.doc = ThisRecord.doc
  BY <1>0, <1>1, VisitFacts DEF Record
<1>3. /\ ids'[ThisRecord.id] = id
      /\ \A k \in 1..seen : ids'[source.records[k].id] = ids[source.records[k].id]
      /\ DOMAIN ids' = {source.records[k].id : k \in 1..(seen + 1)}
      /\ DOMAIN ids' \subseteq Ids
      /\ \A n \in DOMAIN ids' : ids'[n] \in Ids
  BY <1>0, <1>1, EntryIsNew
<1> HIDE DEF r, id
<1>4. /\ merged' \in Metadata
      /\ merged'.records = Append(merged.records, r)
      /\ merged'.refs = merged.refs
  <2>1. Append(merged.records, r) \in Seq(Record)
    BY <1>0, <1>2, VisitFacts
  <2> QED BY <1>0, <2>1, VisitFacts DEF Metadata
<1>5. /\ DOMAIN merged'.records = DOMAIN merged.records \cup {Len(merged.records) + 1}
      /\ \A i \in DOMAIN merged.records :
           merged'.records[i] = merged.records[i] /\ i < Len(merged.records) + 1 /\ i \in Int
      /\ merged'.records[Len(merged.records) + 1] = r
      /\ Len(merged'.records) = Len(merged.records) + 1
      /\ Len(merged.records) \in Nat /\ Len(dest.records) \in Nat
  BY <1>0, <1>2, <1>4, VisitFacts
<1>6. phase = "records" /\ phase' = "records"
  BY <1>0, VisitFacts
<1>7. TypeOK'
  <2>1. seen' \in Nat /\ seen' <= Len(source'.records)
    BY <1>0, VisitFacts
  <2> QED BY <1>0, <1>3, <1>4, <1>6, <2>1, VisitFacts DEF TypeOK, Merging
<1>8. Sorted' /\ MapsSound'
  BY <1>0 DEF Sorted, MapsSound
<1>9. Built'
  <2>0. /\ IdsDistinct(merged.records) /\ HasHighest(merged.records)
        /\ Len(dest.records) <= Len(merged.records)
        /\ Len(dest.refs) <= Len(merged.refs)
        /\ NewDocsAfter(Len(dest.records), merged.records)
        /\ NewRefsAfter(Len(dest.refs), merged.refs)
    BY <1>0, <1>6 DEF Built, Merging
  <2>1. IdsDistinct(merged'.records) /\ HasHighest(merged'.records)
    BY <1>0, <1>1, <1>2, <1>4, <2>0, VisitFacts, PushKeepsIds
  <2>2. NewDocsAfter(Len(dest.records), merged'.records)
    BY <1>0, <1>2, <1>5, <2>0 DEF NewDocsAfter, NoneWith
  <2>3. /\ dest' = dest /\ source' = source
        /\ dest \in Metadata /\ source \in Metadata
        /\ Len(dest.records) <= Len(merged'.records)
    BY <1>0, <1>5, <2>0, VisitFacts
  <2> QED BY <1>4, <2>0, <2>1, <2>2, <2>3 DEF Built
<1>10. MapFaithful'
  <2>1. ASSUME NEW k \in 1..seen
        PROVE  \E j \in DOMAIN merged'.records :
                 /\ merged'.records[j].id = ids'[source.records[k].id]
                 /\ merged'.records[j].doc = source.records[k].doc
    <3>1. PICK j \in DOMAIN merged.records :
            /\ merged.records[j].id = ids[source.records[k].id]
            /\ merged.records[j].doc = source.records[k].doc
      BY <1>0, <1>6 DEF MapFaithful, VisitedRecords, Merging
    <3>2. j \in DOMAIN merged'.records /\ merged'.records[j] = merged.records[j]
      BY <1>5
    <3> QED BY <1>3, <3>1, <3>2
  <2>2. \E j \in DOMAIN merged'.records :
          /\ merged'.records[j].id = ids'[source.records[seen + 1].id]
          /\ merged'.records[j].doc = source.records[seen + 1].doc
    BY <1>2, <1>3, <1>5 DEF ThisRecord
  <2>3. 1..(seen + 1) = 1..seen \cup {seen + 1}
    BY <1>0, VisitFacts
  <2>4. VisitedRecords' = 1..(seen + 1) /\ source' = source
    BY <1>0, <1>6 DEF VisitedRecords
  <2>5. \A k \in 1..(seen + 1) : \E j \in DOMAIN merged'.records :
          /\ merged'.records[j].id = ids'[source.records[k].id]
          /\ merged'.records[j].doc = source.records[k].doc
    BY <2>1, <2>2, <2>3
  <2> QED BY <1>3, <2>4, <2>5 DEF MapFaithful
<1>11. Start' /\ OneSided'
  BY <1>6 DEF Start, OneSided
<1> QED BY <1>7, <1>8, <1>9, <1>10, <1>11 DEF IInv

(* The end of the record loop changes no row.                              *)
LEMMA RecordsDoneKeeps == IInv /\ RecordsDone => IInv'
<1> SUFFICES ASSUME IInv, RecordsDone PROVE IInv'
  OBVIOUS
<1>0. /\ TypeOK /\ Sorted /\ MapsSound /\ Built /\ MapFaithful
      /\ phase = "records" /\ phase' = "references"
      /\ seen = Len(source.records) /\ seen' = 0
      /\ UNCHANGED <<dest, source, rowids, merged, ids>>
  BY DEF IInv, RecordsDone, inputs
<1>1. source.records \in Seq(Record) /\ source.refs \in Seq(Reference)
  BY <1>0 DEF TypeOK, Merging, Metadata
<1>2. TypeOK'
  BY <1>0, <1>1 DEF TypeOK, Merging
<1>3. Sorted' /\ MapsSound' /\ Built'
  BY <1>0 DEF Sorted, MapsSound, Built, Merging
<1>4. VisitedRecords' = VisitedRecords
  BY <1>0, <1>1 DEF VisitedRecords
<1>5. MapFaithful'
  BY <1>0, <1>4 DEF MapFaithful, Merging
<1>6. Start' /\ OneSided'
  BY <1>0 DEF Start, OneSided
<1> QED BY <1>2, <1>3, <1>5, <1>6 DEF IInv

(* What every step of the reference loop knows of the one it visits.       *)
LEMMA ReferenceFacts ==
  ASSUME IInv, VisitingReference
  PROVE  /\ phase = "references" /\ seen \in Nat /\ seen + 1 <= Len(source.refs)
         /\ seen + 1 \in DOMAIN source.refs
         /\ dest \in Metadata /\ source \in Metadata /\ merged \in Metadata
         /\ merged.refs \in Seq(Reference) /\ dest.refs \in Seq(Reference)
         /\ ThisReference \in Reference
<1>1. phase = "references" /\ seen \in Nat /\ seen < Len(source.refs)
  BY DEF VisitingReference, IInv, TypeOK
<1>2. /\ dest \in Metadata /\ source \in Metadata /\ merged \in Metadata
      /\ merged.refs \in Seq(Reference) /\ dest.refs \in Seq(Reference)
      /\ source.refs \in Seq(Reference)
  BY <1>1 DEF IInv, TypeOK, Merging, Metadata
<1>3. seen + 1 \in DOMAIN source.refs /\ seen + 1 <= Len(source.refs)
  BY <1>1, <1>2
<1> DEFINE ref == source.refs[seen + 1]
<1>4. ref \in Reference
  BY <1>2, <1>3
<1> HIDE DEF ref
<1>5. MappedRow(ref, rowids) \in Ids \cup {None}
  BY <1>4 DEF MappedRow, Lookup, Reference, IInv, MapsSound
<1>6. \A n \in Ids : Lookup(ids, n) \in Ids
  BY DEF Lookup, IInv, TypeOK
<1>7. /\ Lookup(ids, ref.file) \in Ids
      /\ (IF ref.parent = None THEN None ELSE Lookup(ids, ref.parent)) \in Ids \cup {None}
  BY <1>4, <1>6 DEF Reference
<1>8. Mapped(ref, ids, rowids) \in Reference
  BY <1>4, <1>5, <1>7 DEF Mapped, Reference
<1>9. ThisReference \in Reference
  BY <1>8 DEF ThisReference, ref
<1> QED BY <1>1, <1>2, <1>3, <1>9

(* A reference found in the destination is skipped.                        *)
LEMMA ShareReferenceKeeps == IInv /\ ShareReference => IInv'
<1> SUFFICES ASSUME IInv, ShareReference PROVE IInv'
  OBVIOUS
<1>0. /\ TypeOK /\ Sorted /\ MapsSound /\ Built /\ MapFaithful /\ VisitingReference
      /\ seen' = seen + 1
      /\ UNCHANGED <<dest, source, rowids, merged, ids, phase>>
  BY DEF IInv, ShareReference, inputs
<1>1. phase = "references" /\ phase' = "references" /\ seen' \in Nat
      /\ seen' <= Len(source'.refs)
  BY <1>0, ReferenceFacts
<1>2. TypeOK'
  BY <1>0, <1>1 DEF TypeOK, Merging
<1>3. Sorted' /\ MapsSound' /\ Built'
  BY <1>0 DEF Sorted, MapsSound, Built, Merging
<1>4. VisitedRecords' = VisitedRecords
  BY <1>0, <1>1 DEF VisitedRecords
<1>5. MapFaithful'
  BY <1>0, <1>1, <1>4 DEF MapFaithful, Merging
<1>6. Start' /\ OneSided'
  BY <1>1 DEF Start, OneSided
<1> QED BY <1>2, <1>3, <1>5, <1>6 DEF IInv

(* A reference that is added was in neither table before.                  *)
LEMMA AddReferenceKeeps == IInv /\ AddReference => IInv'
<1> SUFFICES ASSUME IInv, AddReference PROVE IInv'
  OBVIOUS
<1> DEFINE ref == ThisReference
<1>0. /\ TypeOK /\ Sorted /\ MapsSound /\ Built /\ MapFaithful /\ VisitingReference
      /\ ~Stated(merged.refs, ref)
      /\ merged' = [merged EXCEPT !.refs = Append(merged.refs, ref)]
      /\ seen' = seen + 1
      /\ UNCHANGED <<dest, source, rowids, ids, phase>>
  BY DEF IInv, AddReference, inputs
<1>1. /\ phase = "references" /\ phase' = "references" /\ seen' \in Nat
      /\ seen' <= Len(source'.refs)
      /\ dest \in Metadata /\ source \in Metadata /\ merged \in Metadata
      /\ merged.refs \in Seq(Reference) /\ dest.refs \in Seq(Reference)
      /\ ref \in Reference
  BY <1>0, ReferenceFacts
<1> HIDE DEF ref
<1>2. /\ merged' \in Metadata
      /\ merged'.refs = Append(merged.refs, ref)
      /\ merged'.records = merged.records
  <2>1. Append(merged.refs, ref) \in Seq(Reference)
    BY <1>1
  <2> QED BY <1>0, <1>1, <2>1 DEF Metadata
<1>3. /\ DOMAIN merged'.refs = DOMAIN merged.refs \cup {Len(merged.refs) + 1}
      /\ \A i \in DOMAIN merged.refs :
           merged'.refs[i] = merged.refs[i] /\ i < Len(merged.refs) + 1 /\ i \in Int
      /\ merged'.refs[Len(merged.refs) + 1] = ref
      /\ Len(merged'.refs) = Len(merged.refs) + 1
      /\ Len(merged.refs) \in Nat /\ Len(dest.refs) \in Nat
  BY <1>1, <1>2
<1>4. TypeOK'
  BY <1>0, <1>1, <1>2 DEF TypeOK, Merging
<1>5. Sorted' /\ MapsSound'
  BY <1>0 DEF Sorted, MapsSound
<1>6. Built'
  <2>0. /\ IdsDistinct(merged.records) /\ HasHighest(merged.records)
        /\ Len(dest.records) <= Len(merged.records)
        /\ Len(dest.refs) <= Len(merged.refs)
        /\ NewDocsAfter(Len(dest.records), merged.records)
        /\ NewRefsAfter(Len(dest.refs), merged.refs)
    BY <1>0, <1>1 DEF Built, Merging
  <2>1. NewRefsAfter(Len(dest.refs), merged'.refs)
    BY <1>0, <1>3, <2>0 DEF NewRefsAfter, Stated, SameReference
  <2>2. dest' = dest /\ source' = source /\ Len(dest.refs) <= Len(merged'.refs)
    BY <1>0, <1>3, <2>0
  <2> QED BY <1>1, <1>2, <2>0, <2>1, <2>2 DEF Built
<1>7. VisitedRecords' = VisitedRecords
  BY <1>0, <1>1 DEF VisitedRecords
<1>8. MapFaithful'
  BY <1>0, <1>1, <1>2, <1>7 DEF MapFaithful, Merging
<1>9. Start' /\ OneSided'
  BY <1>1 DEF Start, OneSided
<1> QED BY <1>4, <1>5, <1>6, <1>8, <1>9 DEF IInv

(* The end of the reference loop changes no row.                           *)
LEMMA ReferencesDoneKeeps == IInv /\ ReferencesDone => IInv'
<1> SUFFICES ASSUME IInv, ReferencesDone PROVE IInv'
  OBVIOUS
<1> USE DEF IInv, ReferencesDone, inputs
<1>0. dest \in Metadata /\ source \in Metadata
  BY DEF TypeOK, Merging
<1>1. TypeOK' BY DEF TypeOK, Merging
<1>2. Sorted' /\ MapsSound' /\ Built' BY DEF Sorted, MapsSound, Built, Merging
<1>3. MapFaithful' /\ Start' BY DEF MapFaithful, Start, Merging
<1>4. OneSided' BY <1>0, MetadataAssumption DEF OneSided
<1> QED BY <1>1, <1>2, <1>3, <1>4

(* Every step of the call keeps the invariant.                             *)
LEMMA StepKeeps == IInv /\ [Next]_vars => IInv'
<1> SUFFICES ASSUME IInv, [Next]_vars PROVE IInv'
  OBVIOUS
<1>1. CASE UNCHANGED vars
  BY <1>1 DEF vars, IInv, TypeOK, Sorted, MapsSound, Built, MapFaithful, Start, OneSided,
              Merging, VisitedRecords
<1>2. CASE Next
  BY <1>2, OneSideKeeps, BothSidesKeeps, ShareRecordKeeps, AddRecordKeeps, RecordsDoneKeeps,
     ShareReferenceKeeps, AddReferenceKeeps, ReferencesDoneKeeps DEF Next
<1> QED BY <1>1, <1>2

(* IInv is an invariant of every call.                                      *)
THEOREM Inductive == Spec => []IInv
BY InitIInv, StepKeeps, PTL DEF Spec

-----------------------------------------------------------------------------
(* Every state of merge_metadata is well formed.                            *)
THEOREM TypeCorrect == Spec => []TypeOK
<1>1. IInv => TypeOK BY DEF IInv
<1> QED BY <1>1, Inductive, PTL

(* The invariant says that the merged records have distinct ids.           *)
LEMMA IdsStayDistinct == IInv => MergedIdsDistinct
<1>1. ASSUME IInv, merged # None PROVE IdsDistinct(merged.records)
  <2>1. CASE phase = "start"
    BY <1>1, <2>1 DEF IInv, Start
  <2>2. CASE phase = "done" /\ (dest = None \/ source = None)
    <3>1. \/ merged = dest /\ dest # None
          \/ merged = source /\ source # None
      BY <1>1, <2>2 DEF IInv, OneSided
    <3>2. merged \in Metadata /\ Ascending(merged.records)
      BY <1>1, <3>1 DEF IInv, Sorted, TypeOK
    <3>3. merged.records \in Seq(Record)
      BY <3>2 DEF Metadata
    <3> QED BY <3>2, <3>3, AscendingIds
  <2>3. CASE Merging \/ (phase = "done" /\ dest # None /\ source # None)
    BY <1>1, <2>3 DEF IInv, Built
  <2> QED BY <1>1, <2>1, <2>2, <2>3 DEF IInv, TypeOK, Merging
<1> QED BY <1>1 DEF MergedIdsDistinct, IdsDistinct

(* A record id is never written twice, whatever the two sides number from.  *)
THEOREM MergedIdsDistinctAlways == Spec => []MergedIdsDistinct
BY IdsStayDistinct, Inductive, PTL

(* Every mapped id names, in the merged pair, the document it named in the  *)
(* source: no reference can be pointed at another document by the map.      *)
THEOREM IdMapFaithfulAlways == Spec => []IdMapFaithful
<1>1. ASSUME IInv, Merging, NEW i \in DOMAIN source.records,
             source.records[i].id \in DOMAIN ids
      PROVE  \E j \in DOMAIN merged.records :
               /\ merged.records[j].id = ids[source.records[i].id]
               /\ merged.records[j].doc = source.records[i].doc
  <2>1. PICK k \in VisitedRecords : source.records[k].id = source.records[i].id
    BY <1>1 DEF IInv, MapFaithful
  <2>2. source.records \in Seq(Record) /\ IdsDistinct(source.records)
    BY <1>1, AscendingIds, MetadataAssumption DEF IInv, TypeOK, Metadata, Sorted
  <2>3. k \in DOMAIN source.records
    BY <1>1, <2>2 DEF VisitedRecords, Merging, IInv, TypeOK
  <2>4. k = i
    BY <2>1, <2>2, <2>3 DEF IdsDistinct
  <2> QED BY <1>1, <2>4 DEF IInv, MapFaithful
<1>2. IInv => IdMapFaithful
  BY <1>1 DEF IdMapFaithful
<1> QED BY <1>2, Inductive, PTL

(* The merge of two pairs never adds a document or a reference twice.       *)
THEOREM AdditionsAreNewAlways == Spec => []AdditionsAreNew
<1>1. ASSUME IInv, merged # None, dest # None
      PROVE  /\ NewDocsAfter(Len(dest.records), merged.records)
             /\ NewRefsAfter(Len(dest.refs), merged.refs)
  <2>1. CASE Merging \/ (phase = "done" /\ source # None)
    BY <1>1, <2>1 DEF IInv, Built
  <2>2. CASE phase = "done" /\ source = None
    <3>1. merged = dest /\ dest \in Metadata
      BY <1>1, <2>2 DEF IInv, OneSided, TypeOK
    <3>2. dest.records \in Seq(Record) /\ dest.refs \in Seq(Reference)
      BY <3>1 DEF Metadata
    <3> QED BY <3>1, <3>2 DEF NewDocsAfter, NewRefsAfter
  <2> QED BY <1>1, <2>1, <2>2 DEF IInv, TypeOK, Merging, Start
<1>2. IInv => AdditionsAreNew
  BY <1>1 DEF AdditionsAreNew, NewDocsAfter, NewRefsAfter
<1> QED BY <1>2, Inductive, PTL

(* No step of the merge moves or rewrites a row of the pair it merges into. *)
THEOREM DestinationStandsAlways == Spec => DestinationStands
<1> DEFINE Stands ==
      Merging => /\ SubSeq(merged'.records, 1, Len(merged.records)) = merged.records
                 /\ SubSeq(merged'.refs, 1, Len(merged.refs)) = merged.refs
<1>1. ASSUME IInv, [Next]_vars PROVE [Stands]_vars
  <2>1. SUFFICES ASSUME Next, Merging
                 PROVE  /\ SubSeq(merged'.records, 1, Len(merged.records)) = merged.records
                        /\ SubSeq(merged'.refs, 1, Len(merged.refs)) = merged.refs
    BY <1>1
  <2>2. /\ merged \in Metadata
        /\ merged.records \in Seq(Record) /\ merged.refs \in Seq(Reference)
    BY <1>1, <2>1 DEF IInv, TypeOK, Metadata
  <2>3. CASE merged' = merged
    BY <2>2, <2>3
  <2>4. CASE AddRecord
    <3> DEFINE r == [id |-> IdFor(merged.records, ThisRecord.id), doc |-> ThisRecord.doc]
    <3>1. /\ VisitingRecord
          /\ merged' = [merged EXCEPT !.records = Append(merged.records, r)]
      BY <2>4 DEF AddRecord
    <3>2. r \in Record
      <4>1. ThisRecord \in Record
        BY <1>1, <3>1, VisitFacts
      <4>2. HasHighest(merged.records)
        BY <1>1, <2>1 DEF IInv, Built
      <4>3. IdFor(merged.records, ThisRecord.id) \in Ids
        BY <2>2, <4>1, <4>2, IdForIsFree DEF Record
      <4> QED BY <4>1, <4>3 DEF Record
    <3> HIDE DEF r
    <3>3. merged'.records = Append(merged.records, r) /\ merged'.refs = merged.refs
      BY <2>2, <3>1 DEF Metadata
    <3> QED BY <2>2, <3>2, <3>3
  <2>5. CASE AddReference
    <3> DEFINE ref == ThisReference
    <3>1. /\ ref \in Reference
          /\ merged' = [merged EXCEPT !.refs = Append(merged.refs, ref)]
      BY <1>1, <2>5, ReferenceFacts DEF AddReference
    <3> HIDE DEF ref
    <3>2. merged'.refs = Append(merged.refs, ref) /\ merged'.records = merged.records
      BY <2>2, <3>1 DEF Metadata
    <3> QED BY <2>2, <3>1, <3>2
  <2> QED BY <2>1, <2>3, <2>4, <2>5
          DEF Next, OneSide, BothSides, ShareRecord, RecordsDone, ShareReference,
              ReferencesDone, Merging
<1>2. IInv /\ [Next]_vars => [Stands]_vars
  BY <1>1
<1> QED BY <1>2, Inductive, PTL DEF Spec, DestinationStands

-----------------------------------------------------------------------------
DocsOf(md) == IF md = None THEN {} ELSE {md.records[i].doc : i \in DOMAIN md.records}

(* No document of the merged pair is invented.                             *)
DocsFollowed ==
  (merged # None /\ phase # "start") => DocsOf(merged) \subseteq DocsOf(dest) \cup DocsOf(source)

(* Every step keeps the merged documents to those of the two sides.        *)
LEMMA DocsFollowedKeeps == IInv /\ DocsFollowed /\ [Next]_vars => DocsFollowed'
<1> SUFFICES ASSUME IInv, DocsFollowed, [Next]_vars PROVE DocsFollowed'
  OBVIOUS
<1>1. CASE OneSide \/ BothSides
  BY <1>1 DEF OneSide, BothSides, inputs, DocsFollowed, DocsOf
<1>2. CASE AddRecord
  <2> DEFINE r == [id |-> IdFor(merged.records, ThisRecord.id), doc |-> ThisRecord.doc]
  <2>1. /\ VisitingRecord /\ phase' = phase /\ dest' = dest /\ source' = source
        /\ merged' = [merged EXCEPT !.records = Append(merged.records, r)]
        /\ merged \in Metadata /\ merged.records \in Seq(Record) /\ phase = "records"
        /\ source \in Metadata /\ seen + 1 \in DOMAIN source.records
    BY <1>2, VisitFacts DEF AddRecord, inputs
  <2>2. r.doc \in DocsOf(source)
    BY <2>1, MetadataAssumption DEF DocsOf, ThisRecord
  <2> HIDE DEF r
  <2>3. merged'.records = Append(merged.records, r) /\ merged # None
    BY <2>1, MetadataAssumption DEF Metadata
  <2>4. /\ DOMAIN merged'.records = DOMAIN merged.records \cup {Len(merged.records) + 1}
        /\ \A i \in DOMAIN merged.records : merged'.records[i] = merged.records[i]
        /\ merged'.records[Len(merged.records) + 1] = r
    BY <2>1, <2>3
  <2>5. DocsOf(merged') \subseteq DocsOf(merged) \cup {r.doc}
    BY <2>3, <2>4 DEF DocsOf
  <2>6. DocsOf(merged) \subseteq DocsOf(dest) \cup DocsOf(source)
    BY <2>1, <2>3 DEF DocsFollowed
  <2> QED BY <2>1, <2>2, <2>5, <2>6 DEF DocsFollowed
<1>3. CASE AddReference
  <2> DEFINE ref == ThisReference
  <2>1. /\ phase' = phase /\ dest' = dest /\ source' = source
        /\ merged' = [merged EXCEPT !.refs = Append(merged.refs, ref)]
        /\ merged \in Metadata /\ phase = "references"
    BY <1>3, ReferenceFacts DEF AddReference, inputs
  <2> HIDE DEF ref
  <2>2. merged'.records = merged.records /\ merged # None
    BY <2>1, MetadataAssumption DEF Metadata
  <2>3. DocsOf(merged') \subseteq DocsOf(merged)
    BY <2>2 DEF DocsOf
  <2> QED BY <2>1, <2>2, <2>3 DEF DocsFollowed
<1>4. CASE ShareRecord \/ RecordsDone \/ ShareReference \/ ReferencesDone \/ UNCHANGED vars
  BY <1>4 DEF ShareRecord, RecordsDone, ShareReference, ReferencesDone, vars, inputs,
     DocsFollowed, VisitingRecord, VisitingReference
<1> QED BY <1>1, <1>2, <1>3, <1>4 DEF Next

(* For the meaning of the merged references, the invariant also follows     *)
(* them: the destination's records and references stay where they are, and  *)
(* what joins them is the source's, mapped.                                 *)
Members(refs) == {refs[i] : i \in DOMAIN refs}

Both == Merging \/ (phase = "done" /\ dest # None /\ source # None)

FromSource == {Mapped(source.refs[i], ids, rowids) : i \in 1..seen}

RecordsKept ==
  Both => \A i \in DOMAIN dest.records :
            i \in DOMAIN merged.records /\ merged.records[i] = dest.records[i]

MapComplete ==
  (Both /\ phase # "records") =>
    /\ DOMAIN ids = IdsOf(source.records)
    /\ \A i \in DOMAIN source.records : \E j \in DOMAIN merged.records :
         /\ merged.records[j].id = ids[source.records[i].id]
         /\ merged.records[j].doc = source.records[i].doc

RefsFollowed ==
  Both =>
    /\ phase = "records" => merged.refs = dest.refs
    /\ phase # "records" => /\ Members(merged.refs) = Members(dest.refs) \cup FromSource
                            /\ \A i \in DOMAIN dest.refs :
                                 i \in DOMAIN merged.refs /\ merged.refs[i] = dest.refs[i]
                            /\ Len(merged.refs) <= Len(dest.refs) + seen
    /\ phase = "done" => seen = Len(source.refs)

Followed == RecordsKept /\ MapComplete /\ RefsFollowed

(* Nothing has been visited when a call starts.                            *)
LEMMA FollowedStarts == Init => Followed
BY DEF Init, InitWith, Followed, RecordsKept, MapComplete, RefsFollowed, Both, Merging

(* A pushed reference is one more member.                                   *)
LEMMA PushedIsMember ==
  ASSUME NEW T, NEW s \in Seq(T), NEW x \in T
  PROVE  Members(Append(s, x)) = Members(s) \cup {x}
<1> DEFINE pushed == Append(s, x)
<1>1. /\ DOMAIN pushed = DOMAIN s \cup {Len(s) + 1} /\ pushed[Len(s) + 1] = x
      /\ \A i \in DOMAIN s : pushed[i] = s[i]
  OBVIOUS
<1> HIDE DEF pushed
<1>2. Members(pushed) = Members(s) \cup {x}
  BY <1>1 DEF Members
<1> QED BY <1>2 DEF pushed

(* Every step follows the records and references from where they came.      *)
LEMMA FollowedKeeps == IInv /\ Followed /\ [Next]_vars => Followed'
<1> SUFFICES ASSUME IInv, Followed, [Next]_vars PROVE Followed'
  OBVIOUS
<1>0. dest' = dest /\ source' = source /\ rowids' = rowids
  BY DEF Next, vars, inputs, OneSide, BothSides, ShareRecord, AddRecord, RecordsDone,
         ShareReference, AddReference, ReferencesDone
<1>1. CASE OneSide \/ BothSides
  <2>1. BothSides => /\ merged' = dest /\ phase' = "records"
    BY DEF BothSides
  <2>2. OneSide => phase' = "done" /\ (dest = None \/ source = None)
    BY DEF OneSide
  <2> QED BY <1>0, <1>1, <2>1, <2>2
          DEF Followed, RecordsKept, MapComplete, RefsFollowed, Both, Merging
<1>2. CASE ShareRecord
  <2>1. phase = "records" /\ phase' = "records" /\ merged' = merged
    BY <1>2 DEF ShareRecord, VisitingRecord
  <2> QED BY <1>0, <2>1 DEF Followed, RecordsKept, MapComplete, RefsFollowed, Both, Merging
<1>3. CASE AddRecord
  <2> DEFINE r == [id |-> IdFor(merged.records, ThisRecord.id), doc |-> ThisRecord.doc]
  <2>1. /\ phase = "records" /\ phase' = "records"
        /\ merged' = [merged EXCEPT !.records = Append(merged.records, r)]
        /\ merged \in Metadata /\ merged.records \in Seq(Record)
    BY <1>3, VisitFacts DEF AddRecord, VisitingRecord
  <2> HIDE DEF r
  <2>2. merged'.records = Append(merged.records, r) /\ merged'.refs = merged.refs
    BY <2>1 DEF Metadata
  <2>3. \A i \in DOMAIN merged.records :
          i \in DOMAIN merged'.records /\ merged'.records[i] = merged.records[i]
    BY <2>1, <2>2
  <2> QED BY <1>0, <2>1, <2>2, <2>3
          DEF Followed, RecordsKept, MapComplete, RefsFollowed, Both, Merging
<1>4. CASE RecordsDone
  <2>1. /\ phase = "records" /\ phase' = "references" /\ seen' = 0
        /\ merged' = merged /\ ids' = ids /\ seen = Len(source.records)
    BY <1>4 DEF RecordsDone
  <2>2. source.records \in Seq(Record)
    BY <2>1 DEF IInv, TypeOK, Merging, Metadata
  <2>3. VisitedRecords = DOMAIN source.records
    BY <2>1, <2>2 DEF VisitedRecords
  <2>4. MapComplete'
    BY <1>0, <2>1, <2>3 DEF IInv, MapFaithful, Merging, MapComplete, IdsOf
  <2>5. FromSource' = {}
    BY <2>1 DEF FromSource
  <2>6. RefsFollowed'
    <3>1. dest \in Metadata /\ merged.refs = dest.refs
      BY <2>1 DEF IInv, Built, Merging, Followed, RefsFollowed, Both
    <3>2. Len(dest.refs) \in Nat
      BY <3>1 DEF Metadata
    <3> QED BY <1>0, <2>1, <2>5, <3>1, <3>2 DEF RefsFollowed, Members
  <2> QED BY <1>0, <2>1, <2>4, <2>6 DEF Followed, RecordsKept, Both, Merging
<1>5. CASE ShareReference \/ AddReference
  <2>1. VisitingReference /\ seen' = seen + 1 /\ phase' = phase /\ ids' = ids
    BY <1>5 DEF ShareReference, AddReference
  <2>2. /\ phase = "references" /\ seen \in Nat /\ merged \in Metadata
        /\ merged.refs \in Seq(Reference) /\ ThisReference \in Reference
    BY <2>1, ReferenceFacts
  <2>3. FromSource' = FromSource \cup {ThisReference}
    <3>1. 1..(seen + 1) = 1..seen \cup {seen + 1}
      BY <2>2
    <3>2. FromSource' = {Mapped(source.refs[i], ids, rowids) : i \in 1..(seen + 1)}
      BY <1>0, <2>1 DEF FromSource
    <3> QED BY <3>1, <3>2 DEF FromSource, ThisReference
  <2>4. /\ merged'.records = merged.records
        /\ Members(merged'.refs) = Members(merged.refs) \cup {ThisReference}
        /\ \A i \in DOMAIN merged.refs : i \in DOMAIN merged'.refs /\ merged'.refs[i] = merged.refs[i]
        /\ Len(merged'.refs) <= Len(merged.refs) + 1 /\ Len(merged'.refs) \in Nat
    <3>1. CASE ShareReference
      <4>1. merged' = merged /\ ThisReference \in Members(merged.refs)
        BY <3>1 DEF ShareReference, Stated, SameReference, Members
      <4>2. Len(merged.refs) \in Nat
        BY <2>2
      <4> QED BY <4>1, <4>2
    <3>2. CASE AddReference
      <4> DEFINE ref == ThisReference
      <4>1. merged' = [merged EXCEPT !.refs = Append(merged.refs, ref)] /\ ref \in Reference
        BY <2>2, <3>2 DEF AddReference
      <4> HIDE DEF ref
      <4>2. merged'.records = merged.records /\ merged'.refs = Append(merged.refs, ref)
        BY <2>2, <4>1 DEF Metadata
      <4>3. Members(Append(merged.refs, ref)) = Members(merged.refs) \cup {ref}
        BY <2>2, <4>1, PushedIsMember
      <4>4. /\ \A i \in DOMAIN merged.refs :
                 i \in DOMAIN merged'.refs /\ merged'.refs[i] = merged.refs[i]
            /\ Len(merged'.refs) = Len(merged.refs) + 1 /\ Len(merged.refs) \in Nat
        BY <2>2, <4>1, <4>2
      <4> QED BY <4>2, <4>3, <4>4 DEF ref
    <3> QED BY <1>5, <3>1, <3>2
  <2>5. RefsFollowed'
    <3>1. /\ dest \in Metadata /\ phase' = "references"
          /\ Members(merged.refs) = Members(dest.refs) \cup FromSource
          /\ \A i \in DOMAIN dest.refs : i \in DOMAIN merged.refs /\ merged.refs[i] = dest.refs[i]
          /\ Len(merged.refs) <= Len(dest.refs) + seen
      BY <2>1, <2>2 DEF IInv, Built, Merging, Followed, RefsFollowed, Both
    <3>2. Len(dest.refs) \in Nat /\ Len(merged.refs) \in Nat
      BY <2>2, <3>1 DEF Metadata
    <3>3. Len(merged'.refs) <= Len(dest.refs) + (seen + 1)
      <4>1. \A a, b, c, d \in Nat : a <= b + 1 /\ b <= c + d => a <= c + (d + 1)
        OBVIOUS
      <4>2. seen \in Nat /\ Len(merged'.refs) \in Nat /\ Len(merged'.refs) <= Len(merged.refs) + 1
        BY <2>2, <2>4
      <4> QED BY <3>1, <3>2, <4>1, <4>2
    <3>4. \A i \in DOMAIN dest.refs : i \in DOMAIN merged'.refs /\ merged'.refs[i] = dest.refs[i]
      BY <2>4, <3>1
    <3>5. Members(merged'.refs) = Members(dest.refs) \cup FromSource'
      BY <2>3, <2>4, <3>1
    <3>6. dest' = dest /\ seen' = seen + 1 /\ phase' = "references"
      BY <1>0, <2>1, <3>1
    <3> QED BY <3>3, <3>4, <3>5, <3>6 DEF RefsFollowed
  <2>6. RecordsKept' /\ MapComplete'
    BY <1>0, <2>1, <2>2, <2>4 DEF Followed, RecordsKept, MapComplete, Both, Merging
  <2> QED BY <1>0, <2>5, <2>6 DEF Followed
<1>6. CASE ReferencesDone
  <2>1. /\ phase = "references" /\ phase' = "done" /\ seen = Len(source.refs)
        /\ merged' = merged /\ ids' = ids /\ seen' = seen
    BY <1>6 DEF ReferencesDone
  <2>2. FromSource' = FromSource
    BY <1>0, <2>1 DEF FromSource, Mapped, MappedRow, Lookup
  <2> QED BY <1>0, <2>1, <2>2 DEF Followed, RecordsKept, MapComplete, RefsFollowed, Both, Merging
<1>7. CASE UNCHANGED vars
  <2>1. UNCHANGED <<dest, source, rowids, merged, ids, seen, phase>>
    BY <1>7 DEF vars
  <2>2. FromSource' = FromSource
    BY <2>1 DEF FromSource, Mapped, MappedRow, Lookup
  <2> QED BY <2>1, <2>2 DEF Followed, RecordsKept, MapComplete, RefsFollowed, Both, Merging
<1> QED BY <1>1, <1>2, <1>3, <1>4, <1>5, <1>6, <1>7 DEF Next


(* An id that is not written twice names one document.                      *)
LEMMA DocsAtOne ==
  ASSUME NEW records, IdsDistinct(records), NEW i \in DOMAIN records
  PROVE  DocsAt(records, records[i].id) = {records[i].doc}
BY DEF DocsAt, IdsDistinct

(* A side whose references name documents of its own.                       *)
NamesItsOwn(md) ==
  \A i \in DOMAIN md.refs :
    /\ md.refs[i].file \in IdsOf(md.records)
    /\ md.refs[i].parent = None \/ md.refs[i].parent \in IdsOf(md.records)

(* In a finished merge, ids of the destination name what they named, and    *)
(* mapped ids of the source what they named there.                         *)
LEMMA MergedDocs ==
  ASSUME IInv, Followed, phase = "done", dest # None, source # None
  PROVE  /\ \A id \in IdsOf(dest.records) : DocsAt(merged.records, id) = DocsAt(dest.records, id)
         /\ \A id \in IdsOf(source.records) :
              /\ Lookup(ids, id) \in Ids
              /\ DocsAt(merged.records, Lookup(ids, id)) = DocsAt(source.records, id)
<1>1. /\ dest \in Metadata /\ source \in Metadata /\ IdsDistinct(merged.records)
      /\ Ascending(dest.records) /\ Ascending(source.records)
  BY DEF IInv, Built, Sorted
<1>2. dest.records \in Seq(Record) /\ source.records \in Seq(Record)
  BY <1>1 DEF Metadata
<1>3. IdsDistinct(dest.records) /\ IdsDistinct(source.records)
  BY <1>1, <1>2, AscendingIds
<1>4. ASSUME NEW id \in IdsOf(dest.records)
      PROVE  DocsAt(merged.records, id) = DocsAt(dest.records, id)
  <2>1. PICK i \in DOMAIN dest.records : dest.records[i].id = id
    BY DEF IdsOf
  <2>2. i \in DOMAIN merged.records /\ merged.records[i] = dest.records[i]
    BY DEF Followed, RecordsKept, Both
  <2>3. DocsAt(dest.records, id) = {dest.records[i].doc}
    BY <1>3, <2>1, DocsAtOne
  <2>4. DocsAt(merged.records, id) = {merged.records[i].doc}
    BY <1>1, <2>1, <2>2, DocsAtOne
  <2> QED BY <2>2, <2>3, <2>4
<1>5. ASSUME NEW id \in IdsOf(source.records)
      PROVE  /\ Lookup(ids, id) \in Ids
             /\ DocsAt(merged.records, Lookup(ids, id)) = DocsAt(source.records, id)
  <2>1. PICK i \in DOMAIN source.records : source.records[i].id = id
    BY DEF IdsOf
  <2>2. id \in DOMAIN ids /\ Lookup(ids, id) = ids[id] /\ ids[id] \in Ids
    BY DEF Followed, MapComplete, Both, Lookup, IInv, TypeOK
  <2>3. PICK j \in DOMAIN merged.records :
          merged.records[j].id = ids[id] /\ merged.records[j].doc = source.records[i].doc
    BY <2>1 DEF Followed, MapComplete, Both
  <2>4. DocsAt(source.records, id) = {source.records[i].doc}
    BY <1>3, <2>1, DocsAtOne
  <2>5. DocsAt(merged.records, ids[id]) = {merged.records[j].doc}
    BY <1>1, <2>3, DocsAtOne
  <2> QED BY <2>2, <2>3, <2>4, <2>5
<1> QED BY <1>4, <1>5

(* What a finished merge hands back: a keyed pair that holds the documents  *)
(* of both sides, and the destination's rows where they were.              *)
LEMMA MergedPair ==
  ASSUME IInv, Followed, DocsFollowed, phase = "done"
  PROVE  /\ merged \in Metadata \cup {None}
         /\ merged # None => IdsDistinct(merged.records)
         /\ DocsOf(merged) = DocsOf(dest) \cup DocsOf(source)
         /\ dest # None =>
              /\ merged # None
              /\ \A i \in DOMAIN dest.records :
                   i \in DOMAIN merged.records /\ merged.records[i] = dest.records[i]
              /\ Members(dest.refs) \subseteq Members(merged.refs)
<1>1. /\ merged \in Metadata \cup {None} /\ dest \in Metadata \cup {None}
      /\ source \in Metadata \cup {None}
      /\ merged # None => IdsDistinct(merged.records)
  BY IdsStayDistinct DEF IInv, TypeOK, MergedIdsDistinct, IdsDistinct
<1>2. CASE dest = None \/ source = None
  <2>1. merged = IF dest = None THEN source ELSE dest
    BY <1>2 DEF IInv, OneSided
  <2>2. DocsOf(merged) = DocsOf(dest) \cup DocsOf(source)
    BY <1>2, <2>1 DEF DocsOf
  <2> QED BY <1>1, <1>2, <2>1, <2>2
<1>3. CASE dest # None /\ source # None
  <2>1. merged \in Metadata /\ merged # None
    BY <1>3, MetadataAssumption DEF IInv, Built
  <2>2. /\ \A i \in DOMAIN dest.records :
             i \in DOMAIN merged.records /\ merged.records[i] = dest.records[i]
        /\ Members(dest.refs) \subseteq Members(merged.refs)
    BY <1>3 DEF Followed, RecordsKept, RefsFollowed, Both
  <2>3. DocsOf(dest) \subseteq DocsOf(merged)
    BY <1>3, <2>1, <2>2 DEF DocsOf
  <2>4. DocsOf(source) \subseteq DocsOf(merged)
    BY <1>3, <2>1 DEF DocsOf, Followed, MapComplete, Both
  <2>5. DocsOf(merged) \subseteq DocsOf(dest) \cup DocsOf(source)
    BY <2>1 DEF DocsFollowed
  <2> QED BY <1>1, <2>1, <2>2, <2>3, <2>4, <2>5
<1> QED BY <1>2, <1>3

SidesKept == dest \in Sides /\ source \in Sides

(* The two sides are never assigned to.                                    *)
LEMMA SidesStand == [Next]_vars => UNCHANGED inputs
BY DEF Next, vars, inputs, OneSide, BothSides, ShareRecord, AddRecord, RecordsDone,
       ShareReference, AddReference, ReferencesDone

(* Where every reference names documents of its own side, a finished merge  *)
(* says what the two sides said, no more and no less.                      *)
THEOREM MergedMeaningIsUnionAlways ==
  ASSUME \A s \in Sides : s # None => NamesItsOwn(s)
  PROVE  Spec => []MergedMeaningIsUnion
<1>1. IInv /\ Followed /\ SidesKept => MergedMeaningIsUnion
  <2> SUFFICES ASSUME IInv, Followed, SidesKept, phase = "done", dest # None, source # None
               PROVE  Meanings(merged) = Meanings(dest) \cup MovedMeanings(source, rowids)
    BY DEF MergedMeaningIsUnion
  <2> DEFINE inMerged(ref) == Meaning(ref, ref.row, merged.records)
             moved(ref) == Meaning(ref, MappedRow(ref, rowids), source.records)
             mapped(ref) == Mapped(ref, ids, rowids)
  <2>1. /\ NamesItsOwn(dest) /\ NamesItsOwn(source)
        /\ Members(merged.refs) = Members(dest.refs) \cup FromSource
        /\ seen = Len(source.refs) /\ dest \in Metadata /\ source \in Metadata
    BY DEF Followed, RefsFollowed, Both, IInv, Built, SidesKept
  <2>2. /\ source.refs \in Seq(Reference)
        /\ FromSource = {mapped(source.refs[i]) : i \in DOMAIN source.refs}
    <3>1. source.refs \in Seq(Reference)
      BY <2>1 DEF Metadata
    <3>2. DOMAIN source.refs = 1..seen
      BY <2>1, <3>1
    <3> QED BY <3>1, <3>2 DEF FromSource
  <2>3. ASSUME NEW i \in DOMAIN dest.refs
        PROVE  inMerged(dest.refs[i]) = Meaning(dest.refs[i], dest.refs[i].row, dest.records)
    <3>1. /\ dest.refs[i].file \in IdsOf(dest.records)
          /\ dest.refs[i].parent = None \/ dest.refs[i].parent \in IdsOf(dest.records)
      BY <2>1 DEF NamesItsOwn
    <3>2. DocsAt(merged.records, dest.refs[i].file) = DocsAt(dest.records, dest.refs[i].file)
      BY <3>1, MergedDocs
    <3>3. dest.refs[i].parent # None =>
            DocsAt(merged.records, dest.refs[i].parent) = DocsAt(dest.records, dest.refs[i].parent)
      BY <3>1, MergedDocs
    <3> QED BY <3>2, <3>3 DEF Meaning
  <2>4. ASSUME NEW i \in DOMAIN source.refs
        PROVE  inMerged(mapped(source.refs[i])) = moved(source.refs[i])
    <3> DEFINE ref == source.refs[i]
    <3>1. /\ ref.file \in IdsOf(source.records)
          /\ ref.parent = None \/ ref.parent \in IdsOf(source.records)
      BY <2>1 DEF NamesItsOwn
    <3>2. DocsAt(merged.records, Lookup(ids, ref.file)) = DocsAt(source.records, ref.file)
      BY <3>1, MergedDocs
    <3>3. ref.parent # None =>
            /\ Lookup(ids, ref.parent) # None
            /\ DocsAt(merged.records, Lookup(ids, ref.parent)) = DocsAt(source.records, ref.parent)
      BY <3>1, MergedDocs, MetadataAssumption DEF Ids
    <3>4. ref \in Reference
      BY <2>2
    <3> HIDE DEF ref
    <3>5. /\ mapped(ref).scope = ref.scope /\ mapped(ref).table = ref.table
          /\ mapped(ref).column = ref.column /\ mapped(ref).row = MappedRow(ref, rowids)
          /\ mapped(ref).file = Lookup(ids, ref.file)
          /\ mapped(ref).parent = IF ref.parent = None THEN None ELSE Lookup(ids, ref.parent)
      BY <3>4 DEF Mapped, Reference
    <3> HIDE DEF mapped
    <3>6. inMerged(mapped(ref)) = moved(ref)
      BY <3>2, <3>3, <3>5 DEF Meaning
    <3> QED BY <3>6 DEF ref
  <2>5. Meanings(merged) = {inMerged(r) : r \in Members(merged.refs)}
    BY DEF Meanings, Members
  <2>6. Meanings(dest) = {inMerged(r) : r \in Members(dest.refs)}
    BY <2>3 DEF Meanings, Members
  <2>7. MovedMeanings(source, rowids) = {inMerged(r) : r \in FromSource}
    <3>1. {inMerged(r) : r \in FromSource} = {inMerged(mapped(source.refs[i])) : i \in DOMAIN source.refs}
      BY <2>2
    <3>2. MovedMeanings(source, rowids) = {moved(source.refs[i]) : i \in DOMAIN source.refs}
      BY DEF MovedMeanings
    <3> HIDE DEF inMerged, moved, mapped
    <3> QED BY <2>4, <3>1, <3>2
  <2> HIDE DEF inMerged
  <2> QED BY <2>1, <2>5, <2>6, <2>7
<1>2. Spec => []Followed
  BY Inductive, FollowedStarts, FollowedKeeps, PTL DEF Spec
<1>3. Spec => []SidesKept
  <2>1. Init => SidesKept
    BY DEF Init, InitWith, SidesKept
  <2>2. SidesKept /\ [Next]_vars => SidesKept'
    BY SidesStand DEF SidesKept, inputs
  <2> QED BY <2>1, <2>2, PTL DEF Spec
<1> QED BY <1>1, <1>2, <1>3, Inductive, PTL


-----------------------------------------------------------------------------
(* merge_records maps a document to the lowest id it has: of several        *)
(* records of one document the first is found, and those that are together  *)
(* from the start are in the order of their ids.                           *)
SeenRecords == IF phase = "records" THEN 1..seen ELSE DOMAIN source.records

DocsInOrder(records) ==
  \A i, j \in DOMAIN records :
    i < j /\ records[i].doc = records[j].doc => records[i].id < records[j].id

MapLeast ==
  Both =>
    /\ DocsInOrder(merged.records)
    /\ \A i \in SeenRecords : \A j \in DOMAIN merged.records :
         merged.records[j].doc = source.records[i].doc =>
           ids[source.records[i].id] <= merged.records[j].id

(* Every step keeps MapLeast.                                              *)
LEMMA MapLeastKeeps == IInv /\ MapLeast /\ [Next]_vars => MapLeast'
<1> SUFFICES ASSUME IInv, MapLeast, [Next]_vars PROVE MapLeast'
  OBVIOUS
<1>0. dest' = dest /\ source' = source
  BY DEF Next, vars, inputs, OneSide, BothSides, ShareRecord, AddRecord, RecordsDone,
         ShareReference, AddReference, ReferencesDone
<1>1. CASE OneSide
  BY <1>0, <1>1 DEF OneSide, MapLeast, Both, Merging
<1>2. CASE BothSides
  <2>1. /\ merged' = dest /\ phase' = "records" /\ seen' = 0
        /\ dest # None /\ Ascending(dest.records)
    BY <1>2 DEF BothSides, IInv, Start, Sorted
  <2>2. DocsInOrder(merged'.records) /\ SeenRecords' = {}
    BY <2>1 DEF DocsInOrder, Ascending, SeenRecords
  <2> QED BY <2>2 DEF MapLeast
<1>3. CASE ShareRecord
  <2>1. /\ VisitingRecord /\ phase = "records" /\ phase' = "records" /\ merged' = merged
        /\ seen' = seen + 1
    BY <1>3 DEF ShareRecord, VisitingRecord
  <2>2. PICK i \in DOMAIN merged.records :
          /\ FirstWith(merged.records, ThisRecord.doc, i)
          /\ ids' = WithEntry(ids, ThisRecord.id, merged.records[i].id)
    BY <1>3 DEF ShareRecord
  <2>3. /\ merged.records \in Seq(Record) /\ 1..(seen + 1) = 1..seen \cup {seen + 1}
        /\ \A j \in DOMAIN merged.records : merged.records[j].id \in Ids
    <3>1. /\ merged.records \in Seq(Record) /\ 1..(seen + 1) = 1..seen \cup {seen + 1}
      BY <2>1, VisitFacts
    <3>2. \A j \in DOMAIN merged.records : merged.records[j] \in Record
      BY <3>1
    <3> QED BY <3>1, <3>2 DEF Record
  <2>4. /\ ids'[ThisRecord.id] = merged.records[i].id
        /\ \A k \in 1..seen : ids'[source.records[k].id] = ids[source.records[k].id]
    BY <2>1, <2>2, <2>3, EntryIsNew
  <2>5. /\ DocsInOrder(merged.records)
        /\ \A k \in 1..seen : \A j \in DOMAIN merged.records :
             merged.records[j].doc = source.records[k].doc =>
               ids[source.records[k].id] <= merged.records[j].id
    BY <2>1 DEF MapLeast, Both, Merging, SeenRecords
  <2>6. ASSUME NEW j \in DOMAIN merged.records, merged.records[j].doc = ThisRecord.doc
        PROVE  merged.records[i].id <= merged.records[j].id
    <3>1. i \in Nat /\ j \in Nat /\ merged.records[i].id \in Nat /\ merged.records[j].id \in Nat
      BY <2>3 DEF Ids
    <3>2. ~ (j < i) /\ merged.records[i].doc = ThisRecord.doc
      BY <2>2, <2>6 DEF FirstWith
    <3>3. i < j => merged.records[i].id < merged.records[j].id
      BY <2>5, <2>6, <3>2 DEF DocsInOrder
    <3> QED BY <3>1, <3>2, <3>3
  <2>7. \A k \in 1..(seen + 1) : \A j \in DOMAIN merged.records :
          merged.records[j].doc = source.records[k].doc =>
            ids'[source.records[k].id] <= merged.records[j].id
    BY <2>3, <2>4, <2>5, <2>6 DEF ThisRecord
  <2> QED BY <1>0, <2>1, <2>5, <2>7 DEF MapLeast, SeenRecords
<1>4. CASE AddRecord
  <2> DEFINE id == IdFor(merged.records, ThisRecord.id)
             r == [id |-> id, doc |-> ThisRecord.doc]
             n == Len(merged.records) + 1
  <2>1. /\ VisitingRecord /\ phase = "records" /\ phase' = "records" /\ seen' = seen + 1
        /\ merged' = [merged EXCEPT !.records = Append(merged.records, r)]
        /\ NoneWith(merged.records, ThisRecord.doc)
        /\ ids' = WithEntry(ids, ThisRecord.id, id)
    BY <1>4 DEF AddRecord, VisitingRecord
  <2>2. /\ merged.records \in Seq(Record) /\ 1..(seen + 1) = 1..seen \cup {seen + 1}
        /\ merged \in Metadata /\ ThisRecord \in Record
    BY <2>1, VisitFacts
  <2>3. id \in Ids
    <3>1. HasHighest(merged.records)
      BY <2>1 DEF IInv, Built, Merging
    <3> QED BY <2>2, <3>1, IdForIsFree DEF Record
  <2>4. /\ ids'[ThisRecord.id] = id
        /\ \A k \in 1..seen : ids'[source.records[k].id] = ids[source.records[k].id]
    <3> HIDE DEF id
    <3> QED BY <2>1, <2>3, EntryIsNew
  <2>5. /\ DocsInOrder(merged.records)
        /\ \A k \in 1..seen : \A j \in DOMAIN merged.records :
             merged.records[j].doc = source.records[k].doc =>
               ids[source.records[k].id] <= merged.records[j].id
    BY <2>1 DEF MapLeast, Both, Merging, SeenRecords
  <2>6. r.id = id /\ r.doc = ThisRecord.doc
    OBVIOUS
  <2> HIDE DEF id, r
  <2>7. merged'.records = Append(merged.records, r)
    BY <2>1, <2>2 DEF Metadata
  <2>8. /\ DOMAIN merged'.records = DOMAIN merged.records \cup {n}
        /\ \A j \in DOMAIN merged.records : /\ merged'.records[j] = merged.records[j]
                                            /\ j \in Nat /\ j < n
        /\ merged'.records[n] = r /\ n \in Nat
    BY <2>2, <2>7
  <2> HIDE DEF n
  <2>9. \A j \in DOMAIN merged.records : merged.records[j].doc # r.doc
    BY <2>1, <2>6 DEF NoneWith
  <2>10. DocsInOrder(merged'.records)
    <3> SUFFICES ASSUME NEW i \in DOMAIN merged'.records, NEW j \in DOMAIN merged'.records, i < j,
                        merged'.records[i].doc = merged'.records[j].doc
                 PROVE  merged'.records[i].id < merged'.records[j].id
      BY DEF DocsInOrder
    <3>1. i # n
      BY <2>8
    <3>2. j # n
      BY <2>8, <2>9, <3>1
    <3> QED BY <2>5, <2>8, <3>1, <3>2 DEF DocsInOrder
  <2>11. ASSUME NEW k \in 1..seen, NEW j \in DOMAIN merged'.records,
                merged'.records[j].doc = source.records[k].doc
         PROVE  ids'[source.records[k].id] <= merged'.records[j].id
    <3>1. PICK h \in DOMAIN merged.records : merged.records[h].doc = source.records[k].doc
      BY <2>1 DEF IInv, MapFaithful, VisitedRecords, Merging
    <3>2. j # n
      BY <2>8, <2>9, <2>11, <3>1
    <3> QED BY <2>4, <2>5, <2>8, <2>11, <3>2
  <2>12. ASSUME NEW j \in DOMAIN merged'.records, merged'.records[j].doc = ThisRecord.doc
         PROVE  ids'[ThisRecord.id] <= merged'.records[j].id
    <3>1. j = n
      BY <2>6, <2>8, <2>9, <2>12
    <3> QED BY <2>3, <2>4, <2>6, <2>8, <3>1 DEF Ids
  <2>13. ASSUME NEW k \in 1..(seen + 1), NEW j \in DOMAIN merged'.records,
                merged'.records[j].doc = source.records[k].doc
         PROVE  ids'[source.records[k].id] <= merged'.records[j].id
    <3>1. CASE k \in 1..seen
      BY <2>11, <2>13, <3>1
    <3>2. CASE k = seen + 1
      BY <2>12, <2>13, <3>2 DEF ThisRecord
    <3> QED BY <2>2, <3>1, <3>2
  <2>14. SeenRecords' = 1..(seen + 1)
    BY <2>1 DEF SeenRecords
  <2> QED BY <1>0, <2>10, <2>13, <2>14 DEF MapLeast
<1>5. CASE RecordsDone
  <2>1. /\ phase = "records" /\ phase' = "references" /\ merged' = merged /\ ids' = ids
        /\ seen = Len(source.records)
    BY <1>5 DEF RecordsDone
  <2>2. source.records \in Seq(Record)
    BY <2>1 DEF IInv, TypeOK, Merging, Metadata
  <2>3. SeenRecords' = SeenRecords
    BY <1>0, <2>1, <2>2 DEF SeenRecords
  <2> QED BY <1>0, <2>1, <2>3 DEF MapLeast, Both, Merging
<1>6. CASE ShareReference \/ AddReference \/ ReferencesDone
  <2>1. /\ phase = "references" /\ phase' # "records" /\ ids' = ids /\ Merging
        /\ merged'.records = merged.records
    <3>1. CASE AddReference
      <4>1. phase = "references" /\ merged \in Metadata
        BY <3>1, ReferenceFacts DEF AddReference
      <4> QED BY <3>1, <4>1 DEF AddReference, Metadata, Merging
    <3> QED BY <1>6, <3>1 DEF ShareReference, ReferencesDone, VisitingReference, Merging
  <2> QED BY <1>0, <2>1 DEF MapLeast, Both, SeenRecords
<1>7. CASE UNCHANGED vars
  BY <1>7 DEF vars, MapLeast, Both, Merging, SeenRecords, DocsInOrder
<1> QED BY <1>1, <1>2, <1>3, <1>4, <1>5, <1>6, <1>7 DEF Next

(* What a finished merge of two pairs holds: each id of the source is       *)
(* mapped to the lowest of its document, the references are the             *)
(* destination's and the source's mapped, and no document of the            *)
(* destination has got another record.                                      *)
LEMMA MergedSays ==
  ASSUME IInv, Followed, MapLeast, phase = "done", dest # None, source # None
  PROVE  /\ merged \in Metadata /\ DOMAIN ids = IdsOf(source.records)
         /\ \A i \in DOMAIN source.records :
              /\ \E j \in DOMAIN merged.records :
                   /\ merged.records[j].id = ids[source.records[i].id]
                   /\ merged.records[j].doc = source.records[i].doc
              /\ \A j \in DOMAIN merged.records :
                   merged.records[j].doc = source.records[i].doc =>
                     ids[source.records[i].id] <= merged.records[j].id
         /\ Members(merged.refs) =
              Members(dest.refs) \cup {Mapped(r, ids, rowids) : r \in Members(source.refs)}
         /\ \A j \in DOMAIN merged.records :
              \/ \E i \in DOMAIN dest.records : dest.records[i] = merged.records[j]
              \/ \A i \in DOMAIN dest.records : dest.records[i].doc # merged.records[j].doc
<1>1. /\ merged \in Metadata /\ dest \in Metadata /\ source \in Metadata /\ Both
      /\ NewDocsAfter(Len(dest.records), merged.records)
      /\ Len(dest.records) <= Len(merged.records)
  BY DEF IInv, Built, Both
<1>2. /\ dest.records \in Seq(Record) /\ merged.records \in Seq(Record)
      /\ source.refs \in Seq(Reference)
  BY <1>1 DEF Metadata
<1>3. \A i \in DOMAIN dest.records :
        i \in DOMAIN merged.records /\ merged.records[i] = dest.records[i]
  BY <1>1 DEF Followed, RecordsKept
<1>4. ASSUME NEW j \in DOMAIN merged.records, j \notin DOMAIN dest.records
      PROVE  \A i \in DOMAIN dest.records : dest.records[i].doc # merged.records[j].doc
  <2>1. j > Len(dest.records) /\ \A i \in DOMAIN dest.records : i < j
    BY <1>2, <1>4
  <2> QED BY <1>1, <1>3, <2>1 DEF NewDocsAfter
<1>5. Members(merged.refs) = Members(dest.refs) \cup FromSource /\ seen = Len(source.refs)
  BY <1>1 DEF Followed, RefsFollowed
<1>6. FromSource = {Mapped(r, ids, rowids) : r \in Members(source.refs)}
  <2>1. DOMAIN source.refs = 1..seen
    BY <1>2, <1>5
  <2> QED BY <2>1 DEF FromSource, Members
<1>7. \A i \in DOMAIN source.records : \A j \in DOMAIN merged.records :
        merged.records[j].doc = source.records[i].doc =>
          ids[source.records[i].id] <= merged.records[j].id
  BY <1>1 DEF MapLeast, SeenRecords
<1> QED BY <1>1, <1>3, <1>4, <1>5, <1>6, <1>7 DEF Followed, MapComplete

(* A finished merge has the references of the pair it merged into in their  *)
(* places, and behind them no more than the source has, all of them new.   *)
LEMMA MergedRefs ==
  ASSUME IInv, Followed, phase = "done", dest # None
  PROVE  /\ merged \in Metadata /\ dest \in Metadata
         /\ \A i \in DOMAIN dest.refs : i \in DOMAIN merged.refs /\ merged.refs[i] = dest.refs[i]
         /\ NewRefsAfter(Len(dest.refs), merged.refs)
         /\ Len(merged.refs) <= Len(dest.refs) + (IF source = None THEN 0 ELSE Len(source.refs))
<1>1. dest \in Metadata
  BY DEF IInv, TypeOK
<1>2. dest.refs \in Seq(Reference)
  BY <1>1 DEF Metadata
<1>3. CASE source = None
  <2>1. merged = dest
    BY <1>3 DEF IInv, OneSided
  <2> QED BY <1>1, <1>2, <1>3, <2>1 DEF NewRefsAfter
<1>4. CASE source # None
  BY <1>4, <1>1 DEF IInv, Built, Followed, RefsFollowed, Both
<1> QED BY <1>3, <1>4
=============================================================================
