--------------------------- MODULE GpkgFeatureIds ---------------------------
(***************************************************************************)
(* The row ids of one layer's features, and the row-scoped metadata that   *)
(* points at them, through a sequence of runs that read a GeoPackage and   *)
(* write it again: carried_fid of src/geopackage/reader.rs, feature_ids    *)
(* and the row half of retained_references of src/geopackage/writer.rs.    *)
(* Between the read and the write, --sort-hilbert may reorder the features *)
(* and a consumer of the library may edit the public Vec they are kept in. *)
(***************************************************************************)
EXTENDS Integers, Sequences

CONSTANTS
  Features, \* what a row is about
  Fids,     \* the row ids a foreign producer has used
  None,     \* Option::None
  Edits,    \* those that happen: of "reorder", "remove", "insert", "exchange"
  MaxRuns   \* the number of runs

ASSUME FidAssumption ==
  /\ Fids \subseteq Int /\ None \notin Int
  /\ Edits \subseteq {"reorder", "remove", "insert", "exchange"}
  /\ MaxRuns \in Nat

VARIABLES
  rows,   \* the table in the file: a sequence of [fid, feature]
  refs,   \* the row-scoped references: a set of [row, about], about a history
          \* of the feature meant when the first file was made
  fc,     \* FeatureCollection::features: a sequence of [fid, feature]
  stage,  \* "file" or "memory"
  edits,  \* history: the edits since the read
  runs

vars == <<rows, refs, fc, stage, edits, runs>>

-----------------------------------------------------------------------------
Ascending(s) == \A i, j \in DOMAIN s : i < j => s[i] < s[j]

Column(s, f) == [i \in DOMAIN s |-> s[i][f]]

InSeq(s) == {s[i] : i \in DOMAIN s}

(* Mutant of CarriedFid: the comparison inverted.                          *)
CarriedFidInverted(fid, position) == IF fid = position THEN fid ELSE None

(* carried_fid: an id the writer would give by itself is not carried.      *)
CarriedFid(fid, position) == IF fid = position THEN None ELSE fid

(* feature_ids: the carried ids and the positions, when a table can hold   *)
(* them; else 1..n.                                                        *)
Proposed(s) == [i \in DOMAIN s |-> IF s[i].fid = None THEN i ELSE s[i].fid]

Holdable(ids) == Ascending(ids) /\ (ids # <<>> => ids[1] > 0)

(* Mutants of FeatureIds: nothing is validated; the gaps are closed.       *)
FeatureIdsUnchecked(s) == Proposed(s)

FeatureIdsClosed(s) ==
  IF s # <<>> /\ Holdable(Proposed(s))
  THEN [i \in DOMAIN s |-> Proposed(s)[1] + i - 1] ELSE [i \in DOMAIN s |-> i]

FeatureIds(s) ==
  IF Holdable(Proposed(s)) THEN Proposed(s) ELSE [i \in DOMAIN s |-> i]

(* Mutant of Retained: the guard is missing.                               *)
RetainedUnchecked(references, ids) == references

(* retained_references, for a reference of scope "row" to this layer.      *)
Retained(references, ids) == {r \in references : r.row \in InSeq(ids)}

-----------------------------------------------------------------------------
(* A GeoPackage of any producer, some of its rows referenced.              *)
Tables ==
  UNION {{s \in [1..n -> [fid : Fids, feature : Features]] :
            /\ Ascending(Column(s, "fid"))
            /\ \A i, j \in 1..n : i # j => s[i].feature # s[j].feature} : n \in 0..3}

Init ==
  /\ rows \in Tables
  /\ \E named \in SUBSET InSeq(rows) :
       refs = {[row |-> x.fid, about |-> x.feature] : x \in named}
  /\ fc = <<>> /\ stage = "file" /\ edits = {} /\ runs = 0

(* read_layer.                                                             *)
Read ==
  /\ stage = "file" /\ runs < MaxRuns
  /\ fc' = [i \in DOMAIN rows |->
              [fid |-> CarriedFid(rows[i].fid, i), feature |-> rows[i].feature]]
  /\ stage' = "memory" /\ edits' = {} /\ runs' = runs + 1
  /\ UNCHANGED <<rows, refs>>

Edit(kind) ==
  /\ stage = "memory" /\ kind \in Edits
  /\ edits' = edits \cup {kind}
  /\ UNCHANGED <<rows, refs, stage, runs>>

(* reorder_hilbert: which order depends on the geometries, so any.         *)
Orders(n) == {p \in [1..n -> 1..n] : \A i, j \in 1..n : i # j => p[i] # p[j]}

Reorder ==
  /\ Edit("reorder") /\ "reorder" \notin edits
  /\ \E p \in Orders(Len(fc)) : fc' = [i \in DOMAIN fc |-> fc[p[i]]]

Without(s, i) == [j \in 1..Len(s) - 1 |-> IF j < i THEN s[j] ELSE s[j + 1]]

Remove == Edit("remove") /\ \E i \in DOMAIN fc : fc' = Without(fc, i)

(* A feature of the consumer's own carries no native.                      *)
Insert ==
  /\ Edit("insert")
  /\ \E x \in Features, i \in 0..Len(fc) :
       /\ x \notin InSeq(Column(fc, "feature"))
       /\ \A k \in DOMAIN rows : rows[k].feature # x
       /\ \A r \in refs : r.about # x
       /\ fc' = SubSeq(fc, 1, i) \o <<[fid |-> None, feature |-> x]>>
                  \o SubSeq(fc, i + 1, Len(fc))

(* The layer is converted to a format that holds no GeoPackage ids, and    *)
(* back into the file it came from, which keeps its metadata.              *)
Exchange ==
  /\ Edit("exchange")
  /\ fc' = [i \in DOMAIN fc |-> [fc[i] EXCEPT !.fid = None]]

(* feature_table, metadata_tables.                                         *)
Write ==
  /\ stage = "memory"
  /\ LET ids == FeatureIds(fc)
     IN  /\ rows' = [i \in DOMAIN fc |-> [fid |-> ids[i], feature |-> fc[i].feature]]
         /\ refs' = Retained(refs, ids)
  /\ fc' = <<>> /\ stage' = "file"
  /\ UNCHANGED <<edits, runs>>

Next == Read \/ Reorder \/ Remove \/ Insert \/ Exchange \/ Write

Spec == Init /\ [][Next]_vars

-----------------------------------------------------------------------------
TypeOK ==
  /\ rows \in Seq([fid : Int, feature : Features])
  /\ refs \subseteq [row : Int, about : Features]
  /\ fc \in Seq([fid : Int \cup {None}, feature : Features])
  /\ stage \in {"file", "memory"}
  /\ edits \subseteq Edits
  /\ runs \in 0..MaxRuns

(* The b-tree packer needs ascending row ids and a PRIMARY KEY needs        *)
(* distinct ones: every table written is strictly ascending from above zero,*)
(* whatever a consumer has done to the features and their carried ids.      *)
RowsCanBePacked ==
  /\ Ascending(Column(rows, "fid"))
  /\ (stage = "file" /\ runs > 0) => Holdable(Column(rows, "fid"))

(* What carried_fid drops and what it keeps give back the table between     *)
(* them: a run that edits nothing writes the rows and the references it     *)
(* read, unless an id was no positive number.                               *)
PlainCopyKeepsRows ==
  [][(Write /\ edits = {} /\ Holdable(Column(rows, "fid"))) => UNCHANGED <<rows, refs>>]_vars

(* The references written name rows that are there (Requirement 98's        *)
(* row_id_value, which no foreign key checks).                              *)
ReferencesResolve == \A r \in refs : r.row \in InSeq(Column(rows, "fid"))

Follows(r, table) ==
  \A i \in DOMAIN table : table[i].fid = r.row => table[i].feature = r.about

(* Removing features from a layer all of whose ids were carried leaves a    *)
(* reference either dropped or about the feature it was about.              *)
RemovalKeepsMeaning ==
  [][(/\ Write /\ edits \subseteq {"remove"}
      /\ \A r \in refs : Follows(r, rows)
      /\ \A i \in DOMAIN rows : rows[i].fid > Len(rows))
       => \A r \in refs' : Follows(r, rows')]_vars
=============================================================================
