-------------------------- MODULE MCMetadataMerge --------------------------
(* MetadataMerge on every pair of small sides: up to two records with ids  *)
(* up to MaxId and one row-scoped reference into the pyramid P, whose      *)
(* rowids the merge may have swapped.                                      *)
EXTENDS MetadataMerge

CONSTANTS d1, d2, d3, P, MaxId

MCDocs == {d1, d2, d3}
MCScopes == {"row"}
MCNames == {P}
MCColumns == {}

MCRecords ==
  {r \in UNION {[1..n -> [id : 1..MaxId, doc : MCDocs]] : n \in 0..2} :
     Ascending(r)}

MCReferences ==
  [scope : {"row"}, table : {P}, column : {None}, row : 1..2,
   file : 1..MaxId, parent : {None, 1}]

MCAll ==
  {None} \cup [records : MCRecords, refs : {<<>>} \cup {<<r>> : r \in MCReferences}]

(* The reference names a document, and its parent too when it has one.     *)
Rooted(md) ==
  \A i \in DOMAIN md.refs :
    /\ md.refs[i].file \in IdsOf(md.records)
    /\ md.refs[i].parent = None \/ md.refs[i].parent \in IdsOf(md.records)

MCRooted == {s \in MCAll : s # None => Rooted(s)}

MCRowMaps == {<<>>, [n \in {P} |-> <<2, 1>>]}
=============================================================================
