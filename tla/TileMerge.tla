------------------------------ MODULE TileMerge ------------------------------
(***************************************************************************)
(* merge_tiles of src/geopackage/reconcile.rs: the tile pyramid a source   *)
(* GeoPackage carries is merged into the pyramid of the same name that the *)
(* destination already holds.  The tiles are unioned on (zoom, column,     *)
(* row), a tile only the source has is given a fresh rowid, and the map    *)
(* from source rowids to merged rowids is handed to the metadata merge.    *)
(*                                                                         *)
(* One behaviour is one call.  The loop over the source's tiles is one     *)
(* step per tile; a refusal (Err) is a final state.                        *)
(***************************************************************************)
EXTENDS Integers, Sequences

CONSTANTS
  Keys,        \* tile coordinates (zoom_level, tile_column, tile_row)
  Blobs,       \* tile contents: the columns that are not the key
  Schemes,     \* DDL (up to whitespace), CRS, matrix set and matrix of a pyramid
  Mergeable,   \* the schemes whose DDL the crate understands and that have a key
  None,        \* no AUTOINCREMENT declared; a bound that is not a number
  Pyramids     \* the pyramids a file may hold under the name being merged

(***************************************************************************)
(* A tile row is its rowid and its values, the rowid alias blanked out of  *)
(* them.  mark is the AUTOINCREMENT state: None when the DDL declares      *)
(* none, 0 for Declared, n for HighWater(n).  low and high stand for the   *)
(* four bounds of the registered bounding box.                             *)
(***************************************************************************)
Tile == [id : Nat \ {0}, key : Keys, blob : Blobs]

Bound == Int \cup {None}

Pyramid == [scheme : Schemes, tiles : Seq(Tile), mark : Nat \cup {None},
            low : Bound, high : Bound]

RowidsAscend(tiles) ==
  \A i, j \in DOMAIN tiles : i < j => tiles[i].id < tiles[j].id

KeysDistinct(tiles) ==
  \A i, j \in DOMAIN tiles : tiles[i].key = tiles[j].key => i = j

(* Rows are read in rowid order, and Requirement 54 makes the coordinates  *)
(* of a tile table UNIQUE.                                                 *)
ASSUME PyramidAssumption ==
  /\ Mergeable \subseteq Schemes
  /\ None \notin Int
  /\ Pyramids \subseteq Pyramid
  /\ \A p \in Pyramids : RowidsAscend(p.tiles) /\ KeysDistinct(p.tiles)

VARIABLES
  into,    \* the destination's pyramid, merged in place
  from,    \* the source's pyramid
  todo,    \* how many of the source's tiles the loop has visited
  next,    \* the highest rowid allocated so far
  rowid,   \* IdMap: the source rowids mapped so far, and what to
  outcome, \* "checking", "merging", "merged" or "refused"
  held     \* history: the destination's pyramid as the call found it

vars == <<into, from, todo, next, rowid, outcome, held>>

-----------------------------------------------------------------------------
(* The rowids of a table, and the highest (0 for an empty table).          *)
Rowids(tiles) == {tiles[i].id : i \in DOMAIN tiles}

(* Mutant of Highest: the rows are counted.                                *)
RowCount(tiles) == Len(tiles)

Highest(tiles) ==
  IF tiles = <<>> THEN 0
  ELSE CHOOSE n \in Rowids(tiles) : \A m \in Rowids(tiles) : m <= n

(* The first tile of the merged table at this key, as iter().find returns. *)
FirstAt(tiles, key, i) ==
  /\ i \in DOMAIN tiles
  /\ tiles[i].key = key
  /\ \A j \in DOMAIN tiles : j < i => tiles[j].key # key

NoneAt(tiles, key) == \A i \in DOMAIN tiles : tiles[i].key # key

(* The map with one more entry pushed; lookups find the first entry.       *)
WithEntry(map, old, new) ==
  [r \in DOMAIN map \cup {old} |-> IF r \in DOMAIN map THEN map[r] ELSE new]

(* union_bbox: a bound that is not a number on either side leaves the      *)
(* destination's.                                                          *)
UnionLow(a, b)  == IF a \in Int /\ b \in Int /\ b < a THEN b ELSE a

(* Mutant of UnionHigh: the comparison of the lower bound.                 *)
UnionHighSwapped(a, b) == IF a \in Int /\ b \in Int /\ b < a THEN b ELSE a

UnionHigh(a, b) == IF a \in Int /\ b \in Int /\ b > a THEN b ELSE a

-----------------------------------------------------------------------------
InitWith(dest, source) ==
  /\ into = dest
  /\ held = dest
  /\ from = source
  /\ todo = 0
  /\ next = 0
  /\ rowid = <<>>
  /\ outcome = "checking"

Init == \E dest, source \in Pyramids : InitWith(dest, source)

(* Mutant of SchemeRefused: the DDL is compared and never parsed.          *)
SchemeComparedOnly == into.scheme # from.scheme

(* The schemes differ, or the table's DDL is one no index can be built for *)
SchemeRefused == into.scheme # from.scheme \/ into.scheme \notin Mergeable

RefuseScheme ==
  /\ outcome = "checking"
  /\ SchemeRefused
  /\ outcome' = "refused"
  /\ UNCHANGED <<into, from, todo, next, rowid, held>>

Begin ==
  /\ outcome = "checking"
  /\ ~SchemeRefused
  /\ next' = Highest(into.tiles)
  /\ outcome' = "merging"
  /\ UNCHANGED <<into, from, todo, rowid, held>>

Visiting == outcome = "merging" /\ todo < Len(from.tiles)

This == from.tiles[todo + 1]

(* Mutant of KeepHeld: a tile both sides have is skipped without a mapping.*)
KeepHeldUnmapped ==
  /\ Visiting
  /\ \E i \in DOMAIN into.tiles :
       FirstAt(into.tiles, This.key, i) /\ into.tiles[i].blob = This.blob
  /\ todo' = todo + 1
  /\ UNCHANGED <<into, from, next, rowid, outcome, held>>

(* Same tile, same bytes: the destination's rowid survives.                *)
KeepHeld ==
  /\ Visiting
  /\ \E i \in DOMAIN into.tiles :
       /\ FirstAt(into.tiles, This.key, i)
       /\ into.tiles[i].blob = This.blob
       /\ rowid' = WithEntry(rowid, This.id, into.tiles[i].id)
  /\ todo' = todo + 1
  /\ UNCHANGED <<into, from, next, outcome, held>>

(* Same tile, different bytes: no union exists.                            *)
RefuseOverlap ==
  /\ Visiting
  /\ \E i \in DOMAIN into.tiles :
       /\ FirstAt(into.tiles, This.key, i)
       /\ into.tiles[i].blob # This.blob
  /\ outcome' = "refused"
  /\ UNCHANGED <<into, from, todo, next, rowid, held>>

(* Mutant of Reissue: the map is given the rowid before the increment.     *)
ReissueMapsEarly ==
  /\ Visiting
  /\ NoneAt(into.tiles, This.key)
  /\ next' = next + 1
  /\ rowid' = WithEntry(rowid, This.id, next)
  /\ into' = [into EXCEPT !.tiles = Append(@, [This EXCEPT !.id = next + 1])]
  /\ todo' = todo + 1
  /\ UNCHANGED <<from, outcome, held>>

(* A tile only the source has: the next rowid up.                          *)
Reissue ==
  /\ Visiting
  /\ NoneAt(into.tiles, This.key)
  /\ next' = next + 1
  /\ rowid' = WithEntry(rowid, This.id, next + 1)
  /\ into' = [into EXCEPT !.tiles = Append(@, [This EXCEPT !.id = next + 1])]
  /\ todo' = todo + 1
  /\ UNCHANGED <<from, outcome, held>>

(* Mutant of RecomputedMark: one less.                                     *)
MarkOneLess(mark, tiles) == IF mark = None THEN None ELSE Highest(tiles) - 1

(* The mark is recomputed from the merged rows, and the extent widened.    *)
RecomputedMark(mark, tiles) == IF mark = None THEN None ELSE Highest(tiles)

Finish ==
  /\ outcome = "merging"
  /\ todo = Len(from.tiles)
  /\ into' = [into EXCEPT !.mark = RecomputedMark(@, into.tiles),
                          !.low  = UnionLow(@, from.low),
                          !.high = UnionHigh(@, from.high)]
  /\ outcome' = "merged"
  /\ UNCHANGED <<from, todo, next, rowid, held>>

Next == RefuseScheme \/ Begin \/ KeepHeld \/ RefuseOverlap \/ Reissue \/ Finish

Spec == Init /\ [][Next]_vars

-----------------------------------------------------------------------------
Contents(tiles) == {<<tiles[i].key, tiles[i].blob>> : i \in DOMAIN tiles}

TypeOK ==
  /\ into \in Pyramid /\ from \in Pyramid /\ held \in Pyramid
  /\ todo \in Nat /\ todo <= Len(from.tiles)
  /\ next \in Nat
  /\ DOMAIN rowid \subseteq Nat /\ \A r \in DOMAIN rowid : rowid[r] \in Nat
  /\ outcome \in {"checking", "merging", "merged", "refused"}

(* The rows of the merged table are strictly ascending by rowid at every    *)
(* step: the table b-tree writer packs them in the order it is given, and   *)
(* a reissued rowid that fell into a hole or repeated would break it.       *)
MergedRowsAscend == RowidsAscend(into.tiles)

(* Every source rowid mapped so far names, in the merged table, the tile    *)
(* the source holds under it: a metadata reference that follows the map     *)
(* still describes the tile it described.                                   *)
RowidMapFaithful ==
  \A i \in DOMAIN from.tiles : from.tiles[i].id \in DOMAIN rowid =>
    \E j \in DOMAIN into.tiles :
      /\ into.tiles[j].id = rowid[from.tiles[i].id]
      /\ into.tiles[j].key = from.tiles[i].key
      /\ into.tiles[j].blob = from.tiles[i].blob

(* A finished merge holds exactly the tiles of both sides, and has mapped   *)
(* every rowid of the source.                                               *)
MergeIsUnion ==
  outcome = "merged" =>
    /\ Contents(into.tiles) = Contents(held.tiles) \cup Contents(from.tiles)
    /\ DOMAIN rowid = Rowids(from.tiles)

(* Two pyramids have a union when they are one scheme the crate can index,  *)
(* and no coordinate holds two contents.                                    *)
Conflict ==
  \/ held.scheme # from.scheme
  \/ held.scheme \notin Mergeable
  \/ \E a \in Contents(held.tiles), b \in Contents(from.tiles) :
       a[1] = b[1] /\ a[2] # b[2]

(* The refusal fires on a true conflict and on nothing else: adjacent       *)
(* pyramids union cleanly, and a merge never hides a conflict.              *)
RefusedExactlyOnConflict ==
  /\ outcome = "refused" => Conflict
  /\ outcome = "merged" => ~Conflict

(* The merged table's AUTOINCREMENT mark covers every rowid it holds, so    *)
(* the next INSERT cannot collide, and the registered extent is no          *)
(* narrower than either side's where both are numbers.                      *)
MarkAndExtentCover ==
  outcome = "merged" =>
    /\ into.mark # None => \A r \in Rowids(into.tiles) : r <= into.mark
    /\ (held.low \in Int /\ from.low \in Int) =>
         into.low <= held.low /\ into.low <= from.low
    /\ (held.high \in Int /\ from.high \in Int) =>
         into.high >= held.high /\ into.high >= from.high

(* No step moves, rewrites or removes a row the destination already has.    *)
DestinationRowsStand ==
  [][/\ Len(into.tiles) <= Len(into'.tiles)
     /\ SubSeq(into'.tiles, 1, Len(into.tiles)) = into.tiles]_vars
=============================================================================
