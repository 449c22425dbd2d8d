---------------------------- MODULE MCTileMerge ----------------------------
(* TileMerge on every pair of small pyramids: at most MaxTiles tiles with  *)
(* rowids up to MaxRowid, two coordinates, two contents, two schemes.      *)
EXTENDS TileMerge, FiniteSets

CONSTANTS k1, k2, k3, b1, b2, good, odd, MaxTiles, MaxRowid

MCKeys == {k1, k2, k3}
MCBlobs == {b1, b2}
MCSchemes == {good, odd}
MCMergeable == {good}

(* A stored table: rowids ascend and UNIQUE(zoom, column, row) holds.      *)
MCTables ==
  {t \in UNION {[1..n -> [id : 1..MaxRowid, key : MCKeys, blob : MCBlobs]] : n \in 0..MaxTiles} :
     RowidsAscend(t) /\ KeysDistinct(t)}

(* A high-water mark is never below a rowid of the table.                  *)
MCPyramids ==
  {[scheme |-> good, tiles |-> t, mark |-> m, low |-> IF m = None THEN None ELSE -1, high |-> 1] :
     t \in MCTables, m \in {None, MaxRowid}}
  \cup {[scheme |-> s, tiles |-> <<>>, mark |-> 0, low |-> 0, high |-> 2] : s \in MCSchemes}
=============================================================================
