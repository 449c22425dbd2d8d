---------------------------- MODULE MCGpkgAppend ----------------------------
(* GpkgAppend on sources chosen to meet one another in every way the code   *)
(* distinguishes: the same layer, pyramid, table, document and identifier   *)
(* on both sides, a name used for two kinds, and sides that carry nothing.  *)
EXTENDS GpkgAppend

CONSTANTS k1, k2, k3, b1, b2, good, odd, d1, d2,
          roads, lakes, imagery, relief, notes, depot, width

MCKeys == {k1, k2, k3}
MCBlobs == {b1, b2}
MCSchemes == {good, odd}
MCMergeable == {good}
MCDocs == {d1, d2}
MCScopes == {"geopackage", "table", "column", "row", "row/col", "other"}
MCNames == {roads, lakes, imagery, relief, notes, depot}
MCColumns == {width, "fid"}

LayerOf(ident, fids) == [ident |-> ident, fids |-> fids, columns |-> {width}]
Named(n, v) == [m \in {n} |-> v]
Two(n, v, m, w) == [x \in {n, m} |-> IF x = n THEN v ELSE w]

At(id, key, blob) == [id |-> id, key |-> key, blob |-> blob]
Imagery(scheme, tiles) ==
  [scheme |-> scheme, tiles |-> tiles, mark |-> 3, low |-> 0, high |-> 1]
TiledAs(ident, body) == [ident |-> ident, body |-> body]

TableAs(ident, registered) == [ident |-> ident, registered |-> registered]

Doc(id, doc) == [id |-> id, doc |-> doc]
Ref(scope, table, column, row, md, parent) ==
  [scope |-> scope, table |-> table, column |-> column, row |-> row,
   file |-> md, parent |-> parent]
About(records, refs) == [records |-> records, refs |-> refs]

Holding(layers, pyramids, tables, metadata) ==
  [layers |-> layers, pyramids |-> pyramids, tables |-> tables, metadata |-> metadata]

(* Two tiles with a hole between them, and a document about a road.        *)
Survey == Holding(Named(roads, LayerOf(roads, {1, 3})),
  Named(imagery, TiledAs(imagery, Imagery(good, <<At(1, k1, b1), At(3, k2, b1)>>))), <<>>,
  About(<<Doc(1, d1)>>, <<Ref("row", roads, None, 3, 1, None), Ref("table", imagery, None, None, 1, None)>>))

(* The adjacent tiles, fewer roads, the same document under another id.    *)
Sequel == Holding(Two(roads, LayerOf(roads, {1, 2}), lakes, LayerOf(None, {1})),
  Named(imagery, TiledAs(imagery, Imagery(good, <<At(1, k2, b1), At(2, k3, b1)>>))), <<>>,
  About(<<Doc(1, d2), Doc(2, d1)>>, <<Ref("row", imagery, None, 2, 1, 2), Ref("row/col", lakes, width, 1, 2, None)>>))

(* A tile of Sequel, without metadata; a dataset without an identifier.    *)
Bare == Holding(<<>>,
  Named(imagery, TiledAs(imagery, Imagery(good, <<At(1, k3, b1)>>))),
  Named(notes, TableAs(None, TRUE)), None)

(* The first tile of Survey with other bytes; another dataset without one. *)
Redrawn == Holding(Named(lakes, LayerOf(lakes, {1, 2})),
  Named(imagery, TiledAs(imagery, Imagery(good, <<At(1, k1, b2)>>))),
  Named(depot, TableAs(None, TRUE)), None)

(* A user table, not registered.                                           *)
Notes == Holding(Named(lakes, LayerOf(lakes, {2})), <<>>,
  Named(notes, TableAs(None, FALSE)), None)

(* A table of the pyramid's name; and a layer of the table's.              *)
Crossed == Holding(Named(notes, LayerOf(notes, {1})), <<>>,
  Named(imagery, TableAs(None, TRUE)), None)

(* Two pyramids registered without an identifier, one of them not of a     *)
(* scheme that can be indexed.                                             *)
Unnamed == Holding(<<>>,
  Two(imagery, TiledAs(None, Imagery(odd, <<At(2, k1, b1)>>)),
      relief, TiledAs(None, Imagery(good, <<>>))), <<>>, None)
Odd == Holding(<<>>, Named(imagery, TiledAs(None, Imagery(odd, <<At(2, k1, b1)>>))), <<>>, None)

(* Two layers, one under the identifier of the roads, and one under the    *)
(* name of a dataset.                                                      *)
Plain == Holding(Two(lakes, LayerOf(roads, {1}), depot, LayerOf(depot, {1})), <<>>, <<>>, None)

(* References the standard asks to be normalised or dropped: a column on a *)
(* table scope, a parent that is the document itself, an unknown scope.    *)
Untidy == Holding(Named(roads, LayerOf(roads, {1})), <<>>, <<>>,
  About(<<Doc(2, d1)>>, <<Ref("table", roads, width, 1, 2, 2), Ref("other", roads, None, None, 2, None),
                          Ref("column", roads, None, None, 2, None), Ref("row", lakes, None, 1, 2, None),
                          Ref("geopackage", roads, None, None, 2, None), Ref("column", roads, "fid", None, 2, None)>>))

(* One document under two ids, both of them referred to.                   *)
Twin == Holding(Named(roads, LayerOf(roads, {1})), <<>>, <<>>,
  About(<<Doc(1, d1), Doc(2, d1)>>,
        <<Ref("geopackage", None, None, None, 1, None), Ref("row", roads, None, 1, 2, 1)>>))

MCSources == {Survey, Sequel, Bare, Redrawn, Notes, Crossed, Unnamed, Odd, Plain, Untidy, Twin}
=============================================================================
