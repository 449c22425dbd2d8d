---------------------------- MODULE MetadataMerge ----------------------------
(***************************************************************************)
(* merge_metadata, merge_records, IdMap and same_reference of              *)
(* src/geopackage/reconcile.rs: the Metadata extension's pair of a source  *)
(* GeoPackage merged into the destination's.  Records are deduplicated by  *)
(* content, which yields a map of record ids; the map and the rowid maps   *)
(* of the merged pyramids are applied to the source's references; and the  *)
(* mapped references are deduplicated in their turn.                       *)
(*                                                                         *)
(* One behaviour is one call, with one step per record and per reference.  *)
(***************************************************************************)
EXTENDS Integers, Sequences

CONSTANTS
  Docs,     \* record contents: md_scope, md_standard_uri, mime_type, metadata
  Scopes,   \* reference_scope values
  Names,    \* table names
  Columns,  \* column names
  None,     \* SQL NULL, and a side without the pair
  Sides,    \* what either side may carry: a Metadata or None
  RowMaps   \* what merge_pyramids may return: merged pyramid -> rowid map

Ids == Nat \ {0}

Record == [id : Ids, doc : Docs]

(* The write-time timestamp is not part of a reference's identity and is   *)
(* abstracted away.                                                        *)
Reference == [scope : Scopes, table : Names \cup {None},
              column : Columns \cup {None}, row : Ids \cup {None},
              file : Ids, parent : Ids \cup {None}]

Metadata == [records : Seq(Record), refs : Seq(Reference)]

IdMaps == UNION {[D -> Ids] : D \in SUBSET Ids}

Ascending(records) ==
  \A i, j \in DOMAIN records : i < j => records[i].id < records[j].id

(* id is a primary key, and carry::metadata sorts the records it reads.    *)
ASSUME MetadataAssumption ==
  /\ None \notin Int /\ None \notin Metadata
  /\ Sides \subseteq Metadata \cup {None}
  /\ \A s \in Sides : s # None => Ascending(s.records)

ASSUME RowMapsAssumption ==
  \A m \in RowMaps :
    /\ DOMAIN m \subseteq Names
    /\ \A n \in DOMAIN m : DOMAIN m[n] \subseteq Ids
                           /\ \A r \in DOMAIN m[n] : m[n][r] \in Ids

VARIABLES
  dest,    \* the destination's pair, or None
  source,  \* the source's pair, or None
  rowids,  \* the rowid maps of the merged pyramids
  merged,  \* the pair under construction, and in the end the result
  ids,     \* IdMap: the source's record ids mapped so far, and what to
  seen,    \* records, then references, of the source already visited
  phase    \* "start", "records", "references" or "done"

vars == <<dest, source, rowids, merged, ids, seen, phase>>

inputs == <<dest, source, rowids>>

-----------------------------------------------------------------------------
IdsOf(records) == {records[i].id : i \in DOMAIN records}

HighestId(records) ==
  IF records = <<>> THEN 0
  ELSE CHOOSE n \in IdsOf(records) : \A m \in IdsOf(records) : m <= n

Larger(a, b) == IF a < b THEN b ELSE a

(* The first record of this content, as iter().find returns it.            *)
FirstWith(records, doc, i) ==
  /\ i \in DOMAIN records
  /\ records[i].doc = doc
  /\ \A j \in DOMAIN records : j < i => records[j].doc # doc

NoneWith(records, doc) == \A i \in DOMAIN records : records[i].doc # doc

(* IdMap::map: an id the map never saw is returned unchanged.              *)
Lookup(map, id) == IF id \in DOMAIN map THEN map[id] ELSE id

WithEntry(map, old, new) ==
  [r \in DOMAIN map \cup {old} |-> IF r \in DOMAIN map THEN map[r] ELSE new]

(* A row-scoped reference into a merged pyramid follows the tile.          *)
MappedRow(ref, maps) ==
  IF ref.table # None /\ ref.row # None /\ ref.table \in DOMAIN maps
  THEN Lookup(maps[ref.table], ref.row)
  ELSE ref.row

(* Mutant of Mapped: the parent keeps its id.                              *)
MappedWithoutParent(ref, idMap, maps) ==
  [ref EXCEPT !.row = MappedRow(ref, maps), !.file = Lookup(idMap, @)]

Mapped(ref, idMap, maps) ==
  [ref EXCEPT !.row    = MappedRow(ref, maps),
              !.file   = Lookup(idMap, @),
              !.parent = IF @ = None THEN None ELSE Lookup(idMap, @)]

(* Mutant of SameReference: compared as SQL compares, no NULL equals any.   *)
SameReferenceInSql(a, b) == a = b /\ None \notin {a.table, a.column, a.row, a.parent}

(* same_reference: NULL equals NULL, and the timestamp does not count.     *)
SameReference(a, b) == a = b

Stated(refs, ref) == \E i \in DOMAIN refs : SameReference(refs[i], ref)

-----------------------------------------------------------------------------
InitWith(d, s, m) ==
  /\ dest = d
  /\ source = s
  /\ rowids = m
  /\ merged = None
  /\ ids = <<>>
  /\ seen = 0
  /\ phase = "start"

Init == \E d, s \in Sides, m \in RowMaps : InitWith(d, s, m)

(* Only one side has the pair: that side is the answer, unchanged.         *)
OneSide ==
  /\ phase = "start"
  /\ dest = None \/ source = None
  /\ merged' = IF dest = None THEN source ELSE dest
  /\ phase' = "done"
  /\ UNCHANGED <<inputs, ids, seen>>

(* Mutant of BothSides: the merge starts from the source.                  *)
BothSidesFromSource ==
  /\ phase = "start"
  /\ dest # None /\ source # None
  /\ merged' = source
  /\ phase' = "records"
  /\ UNCHANGED <<inputs, ids, seen>>

BothSides ==
  /\ phase = "start"
  /\ dest # None /\ source # None
  /\ merged' = dest
  /\ phase' = "records"
  /\ UNCHANGED <<inputs, ids, seen>>

VisitingRecord == phase = "records" /\ seen < Len(source.records)

ThisRecord == source.records[seen + 1]

(* The same document is already there: the source's id names it from now.  *)
ShareRecord ==
  /\ VisitingRecord
  /\ \E i \in DOMAIN merged.records :
       /\ FirstWith(merged.records, ThisRecord.doc, i)
       /\ ids' = WithEntry(ids, ThisRecord.id, merged.records[i].id)
  /\ seen' = seen + 1
  /\ UNCHANGED <<inputs, merged, phase>>

(* Mutant of IdFor: the highest id instead of the one above it.            *)
IdForHighest(records, id) ==
  IF id \in IdsOf(records) THEN Larger(HighestId(records), id) ELSE id

(* A source id is kept where it is free, and otherwise reissued above      *)
(* everything allocated.                                                   *)
IdFor(records, id) ==
  IF id \in IdsOf(records) THEN Larger(HighestId(records), id) + 1 ELSE id

AddRecord ==
  /\ VisitingRecord
  /\ NoneWith(merged.records, ThisRecord.doc)
  /\ LET id == IdFor(merged.records, ThisRecord.id)
     IN  /\ ids' = WithEntry(ids, ThisRecord.id, id)
         /\ merged' = [merged EXCEPT !.records =
                         Append(@, [id |-> id, doc |-> ThisRecord.doc])]
  /\ seen' = seen + 1
  /\ UNCHANGED <<inputs, phase>>

(* Mutant of RecordsDone: the counter is not reset for the references.     *)
RecordsDoneUnreset ==
  /\ phase = "records"
  /\ seen = Len(source.records)
  /\ phase' = "references"
  /\ UNCHANGED <<inputs, merged, ids, seen>>

RecordsDone ==
  /\ phase = "records"
  /\ seen = Len(source.records)
  /\ seen' = 0
  /\ phase' = "references"
  /\ UNCHANGED <<inputs, merged, ids>>

VisitingReference == phase = "references" /\ seen < Len(source.refs)

ThisReference == Mapped(source.refs[seen + 1], ids, rowids)

(* The destination, or an earlier reference, already states this one.      *)
ShareReference ==
  /\ VisitingReference
  /\ Stated(merged.refs, ThisReference)
  /\ seen' = seen + 1
  /\ UNCHANGED <<inputs, merged, ids, phase>>

AddReference ==
  /\ VisitingReference
  /\ ~Stated(merged.refs, ThisReference)
  /\ merged' = [merged EXCEPT !.refs = Append(@, ThisReference)]
  /\ seen' = seen + 1
  /\ UNCHANGED <<inputs, ids, phase>>

ReferencesDone ==
  /\ phase = "references"
  /\ seen = Len(source.refs)
  /\ phase' = "done"
  /\ UNCHANGED <<inputs, merged, ids, seen>>

Next == \/ OneSide \/ BothSides
        \/ ShareRecord \/ AddRecord \/ RecordsDone
        \/ ShareReference \/ AddReference \/ ReferencesDone

Spec == Init /\ [][Next]_vars

-----------------------------------------------------------------------------
Merging == phase \in {"records", "references"}

TypeOK ==
  /\ dest \in Metadata \cup {None} /\ source \in Metadata \cup {None}
  /\ merged \in Metadata \cup {None}
  /\ Merging => dest \in Metadata /\ source \in Metadata /\ merged \in Metadata
  /\ DOMAIN ids \subseteq Ids /\ \A r \in DOMAIN ids : ids[r] \in Ids
  /\ seen \in Nat
  /\ phase = "records" => seen <= Len(source.records)
  /\ phase = "references" => seen <= Len(source.refs)
  /\ phase \in {"start", "records", "references", "done"}

(* The documents a record id names: one, or none when it dangles.          *)
DocsAt(records, id) ==
  {records[i].doc : i \in {j \in DOMAIN records : records[j].id = id}}

(* What a reference says: which documents are about which place.           *)
Meaning(ref, row, records) ==
  <<ref.scope, ref.table, ref.column, row, DocsAt(records, ref.file),
    IF ref.parent = None THEN {} ELSE DocsAt(records, ref.parent)>>

Meanings(md) == {Meaning(md.refs[i], md.refs[i].row, md.records) : i \in DOMAIN md.refs}

(* The same for a side whose rows the pyramid merge has moved.             *)
MovedMeanings(md, maps) ==
  {Meaning(md.refs[i], MappedRow(md.refs[i], maps), md.records) : i \in DOMAIN md.refs}

(* gpkg_metadata.id stays a key through every dedup and reissue, including  *)
(* the reissues that push a later record off the id it arrived with.        *)
MergedIdsDistinct ==
  merged # None =>
    \A i, j \in DOMAIN merged.records :
      merged.records[i].id = merged.records[j].id => i = j

(* Every source id mapped so far names the document it named in the source. *)
IdMapFaithful ==
  Merging =>
    \A i \in DOMAIN source.records : source.records[i].id \in DOMAIN ids =>
      \E j \in DOMAIN merged.records :
        /\ merged.records[j].id = ids[source.records[i].id]
        /\ merged.records[j].doc = source.records[i].doc

(* A finished merge of two pairs says what the two sides said, no more and  *)
(* no less: no reference has changed its document, its parent or its place  *)
(* by the renumbering, and none is lost or invented.                        *)
MergedMeaningIsUnion ==
  (phase = "done" /\ dest # None /\ source # None) =>
    Meanings(merged) = Meanings(dest) \cup MovedMeanings(source, rowids)

(* What the merge adds is new: a document or a reference that is already    *)
(* there is never added again, so appending a file twice adds nothing.      *)
AdditionsAreNew ==
  (merged # None /\ dest # None) =>
    /\ \A i, j \in DOMAIN merged.records :
         i < j /\ j > Len(dest.records) => merged.records[i].doc # merged.records[j].doc
    /\ \A i, j \in DOMAIN merged.refs :
         i < j /\ j > Len(dest.refs) => merged.refs[i] # merged.refs[j]

(* The destination's rows are never touched: ids and references that other  *)
(* files may cite stand where they were.                                    *)
DestinationStands ==
  [][Merging =>
       /\ SubSeq(merged'.records, 1, Len(merged.records)) = merged.records
       /\ SubSeq(merged'.refs, 1, Len(merged.refs)) = merged.refs]_vars

=============================================================================
