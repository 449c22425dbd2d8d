----------------------------- MODULE Geometries -----------------------------
(***************************************************************************)
(* The geometries of src/geometry/mod.rs, their two interchange encodings  *)
(* (wkb.rs, wkt.rs) and the blob GeoPackage wraps one of them in.          *)
(*                                                                         *)
(* An Option is a sequence of at most one item; a number of a coordinate   *)
(* is an integer. Dimensions are decided as the code decides them: once    *)
(* for a list, by its first position.                                      *)
(***************************************************************************)
EXTENDS Integers, Sequences, SequencesExt

(* The i-th item of a sequence, as an Option.                              *)
ItemAt(s, i) == IF i \in DOMAIN s THEN <<s[i]>> ELSE <<>>

Position(x, y, z, m) == [x |-> x, y |-> y, z |-> z, m |-> m]

Geometry(type, of) == [type |-> type, of |-> of]

Lines == {"LineString", "MultiPoint"}        \* of: positions
Rings == {"Polygon", "MultiLineString"}      \* of: lists of positions

(* The positions of a geometry, in the order they are visited.             *)
RECURSIVE Positions(_)
Positions(g) ==
  CASE g.type = "Point"        -> <<g.of>>
    [] g.type \in Lines        -> g.of
    [] g.type \in Rings        -> FlattenSeq(g.of)
    [] g.type = "MultiPolygon" -> FlattenSeq(FlattenSeq(g.of))
    [] OTHER                   -> FlattenSeq([i \in DOMAIN g.of |-> Positions(g.of[i])])

(* The very first position, or none: an empty first member ends the search. *)
RECURSIVE FirstPosition(_)
FirstPosition(g) ==
  LET start(s) == ItemAt(s, 1)
      inner(s) == IF s = <<>> THEN <<>> ELSE start(s[1])
  IN  CASE g.type = "Point"        -> <<g.of>>
        [] g.type \in Lines        -> start(g.of)
        [] g.type \in Rings        -> inner(g.of)
        [] g.type = "MultiPolygon" -> IF g.of = <<>> THEN <<>> ELSE inner(g.of[1])
        [] OTHER                   -> IF g.of = <<>> THEN <<>> ELSE FirstPosition(g.of[1])

XY == [z |-> FALSE, m |-> FALSE]
DimOf(first) == IF first = <<>> THEN XY
                ELSE [z |-> first[1].z # <<>>, m |-> first[1].m # <<>>]

DimOfGeometry(g) == DimOf(FirstPosition(g))
DimOfFirst(ps) == DimOf(ItemAt(ps, 1))
DimOfRings(rings) == IF rings = <<>> THEN XY ELSE DimOfFirst(rings[1])

HasZ(g) == \E i \in DOMAIN Positions(g) : Positions(g)[i].z # <<>>
HasM(g) == \E i \in DOMAIN Positions(g) : Positions(g)[i].m # <<>>

(* The ordinates of p a list of dimension dim holds, 0 for a missing one.  *)
Ordinates(p, dim) ==
  LET held(option) == IF option = <<>> THEN <<0>> ELSE option
  IN  <<p.x, p.y>> \o (IF dim.z THEN held(p.z) ELSE <<>>)
                   \o (IF dim.m THEN held(p.m) ELSE <<>>)

(* The same, read back.                                                    *)
FromOrdinates(word, dim) ==
  Position(word[1], word[2],
           IF dim.z THEN <<word[3]>> ELSE <<>>,
           IF dim.m THEN <<word[IF dim.z THEN 4 ELSE 3]>> ELSE <<>>)

OrdinateCount(dim) == 2 + (IF dim.z THEN 1 ELSE 0) + (IF dim.m THEN 1 ELSE 0)

-----------------------------------------------------------------------------
(* The bounding box: least and greatest x and y of the positions, or none. *)
LeastOf(S) == CHOOSE v \in S : \A w \in S : v <= w
GreatestOf(S) == CHOOSE v \in S : \A w \in S : v >= w

BoxOf(ps) ==
  IF ps = <<>> THEN <<>>
  ELSE LET xs == {ps[i].x : i \in DOMAIN ps}
           ys == {ps[i].y : i \in DOMAIN ps}
       IN  <<[low |-> <<LeastOf(xs), LeastOf(ys)>>, high |-> <<GreatestOf(xs), GreatestOf(ys)>>]>>

Bounds(g) == BoxOf(Positions(g))

-----------------------------------------------------------------------------
(* WKB, a word for each byte-order-and-code header, count and ordinate.    *)
TypeCode ==
  [t \in {"Point", "LineString", "Polygon", "MultiPoint", "MultiLineString",
          "MultiPolygon", "GeometryCollection"} |->
     CASE t = "Point" -> 1 [] t = "LineString" -> 2 [] t = "Polygon" -> 3
       [] t = "MultiPoint" -> 4 [] t = "MultiLineString" -> 5
       [] t = "MultiPolygon" -> 6 [] OTHER -> 7]

DimOffset(dim) == (IF dim.z THEN 1000 ELSE 0) + (IF dim.m THEN 2000 ELSE 0)

WkbHeader(type, dim) == <<TypeCode[type] + DimOffset(dim)>>

WkbLine(ps, dim) == <<Len(ps)>> \o FlattenSeq([i \in DOMAIN ps |-> Ordinates(ps[i], dim)])

WkbPolygon(rings) ==
  <<Len(rings)>> \o FlattenSeq([i \in DOMAIN rings |-> WkbLine(rings[i], DimOfRings(rings))])

(* The members of a multi-geometry, each a geometry of its own.            *)
Members(g) ==
  LET single == CASE g.type = "MultiPoint" -> "Point"
                  [] g.type = "MultiLineString" -> "LineString"
                  [] g.type = "MultiPolygon" -> "Polygon"
                  [] OTHER -> "any"
  IN  [i \in DOMAIN g.of |-> IF single = "any" THEN g.of[i] ELSE Geometry(single, g.of[i])]

RECURSIVE Wkb(_)
Wkb(g) ==
  LET body ==
        CASE g.type = "Point"      -> Ordinates(g.of, DimOf(<<g.of>>))
          [] g.type = "LineString" -> WkbLine(g.of, DimOfFirst(g.of))
          [] g.type = "Polygon"    -> WkbPolygon(g.of)
          [] OTHER -> <<Len(g.of)>>
                        \o FlattenSeq([i \in DOMAIN g.of |-> Wkb(Members(g)[i])])
  IN  WkbHeader(g.type, DimOfGeometry(g)) \o body

(* Reading at a place of the words: what is there and the place after it.  *)
Read(value, next) == [value |-> value, next |-> next]

(* Read one item after the other, n of them, with Item(place).             *)
ReadEach(n, at, Item(_)) ==
  LET read[k \in 0..n] ==
        IF k = 0 THEN Read(<<>>, at)
        ELSE LET sofar == read[k - 1]
                 item == Item(sofar.next)
             IN  Read(Append(sofar.value, item.value), item.next)
  IN  read[n]

DimOfOffset(offset) == [z |-> (offset \div 1000) % 2 = 1, m |-> offset \div 1000 >= 2]

ReadLine(words, at, dim) ==
  LET size == OrdinateCount(dim)
      Item(place) == Read(FromOrdinates(SubSeq(words, place, place + size - 1), dim), place + size)
  IN  ReadEach(words[at], at + 1, Item)

RECURSIVE ReadWkb(_, _)
ReadWkb(words, at) ==
  LET base == words[at] % 1000
      dim == DimOfOffset(words[at] - base)
      type == CHOOSE t \in DOMAIN TypeCode : TypeCode[t] = base
      Ring(place) == ReadLine(words, place, dim)
      Member(place) == ReadWkb(words, place)
      size == OrdinateCount(dim)
      many == ReadEach(words[at + 1], at + 2, Member)
      body == CASE type = "Point" ->
                     Read(FromOrdinates(SubSeq(words, at + 1, at + size), dim), at + 1 + size)
                [] type = "LineString" -> ReadLine(words, at + 1, dim)
                [] type = "Polygon" -> ReadEach(words[at + 1], at + 2, Ring)
                [] type = "GeometryCollection" -> many
                [] OTHER -> Read([i \in DOMAIN many.value |-> many.value[i].of], many.next)
  IN  Read(Geometry(type, body.value), body.next)

(* wkb_size: the words of a geometry, counted before they are written.     *)
RECURSIVE WkbSize(_)
WkbSize(g) ==
  LET total(f) == FoldLeft(LAMBDA a, b : a + b, 0, f)
      poly(rings) == 1 + total([i \in DOMAIN rings |->
                                 1 + Len(rings[i]) * OrdinateCount(DimOfRings(rings))])
  IN  1 + CASE g.type = "Point"      -> OrdinateCount(DimOf(<<g.of>>))
            [] g.type = "LineString" -> 1 + Len(g.of) * OrdinateCount(DimOfFirst(g.of))
            [] g.type = "Polygon"    -> poly(g.of)
            [] OTHER -> 1 + total([i \in DOMAIN g.of |-> WkbSize(Members(g)[i])])

(* gpkg_geometry: flags that give the envelope's size, the srs, the envelope *)
(* (least and greatest of x, of y and, where any position has one, of z,    *)
(* never of m), then the WKB.                                              *)
Envelope(g) ==
  LET ps == Positions(g)
      zs == {ps[i].z[1] : i \in {j \in DOMAIN ps : ps[j].z # <<>>}}
  IN  IF ps = <<>> THEN <<>>
      ELSE LET b == BoxOf(ps)[1]
           IN  <<b.low[1], b.high[1], b.low[2], b.high[2]>>
                 \o (IF zs = {} THEN <<>> ELSE <<LeastOf(zs), GreatestOf(zs)>>)

GpkgBlob(g, srs, enveloped) ==
  LET envelope == IF enveloped THEN Envelope(g) ELSE <<>>
      indicator == CASE Len(envelope) = 0 -> 0 [] Len(envelope) = 4 -> 1 [] OTHER -> 2
  IN  <<1 + 2 * indicator, srs>> \o envelope \o Wkb(g)

(* strip_gpkg_header and what it leaves.                                   *)
EnvelopeSize == <<0, 4, 6, 6, 8>>
ReadGpkgBlob(blob) == ReadWkb(blob, 3 + EnvelopeSize[((blob[1] \div 2) % 8) + 1]).value

-----------------------------------------------------------------------------
(* WKT, as tokens: a word, a parenthesis, a comma or a number.             *)
Word(w) == [word |-> w, number |-> 0]
Number(n) == [word |-> "", number |-> n]

Suffix(dim) ==
  IF dim = XY THEN <<>>
  ELSE <<Word(IF dim.z /\ dim.m THEN "ZM" ELSE IF dim.z THEN "Z" ELSE "M")>>

Listed(items) ==
  LET separated(i) == (IF i > 1 THEN <<Word(",")>> ELSE <<>>) \o items[i]
  IN  <<Word("(")>> \o FlattenSeq([i \in DOMAIN items |-> separated(i)]) \o <<Word(")")>>

(* A coordinate writes what it has, whatever the header says.              *)
WktCoord(p) ==
  LET ordinates == <<p.x, p.y>> \o p.z \o p.m
  IN  [i \in DOMAIN ordinates |-> Number(ordinates[i])]

WktCoords(ps) == Listed([i \in DOMAIN ps |-> WktCoord(ps[i])])
WktRings(rings) == Listed([i \in DOMAIN rings |-> WktCoords(rings[i])])

RECURSIVE Wkt(_)
Wkt(g) ==
  <<Word(g.type)>> \o Suffix(DimOfGeometry(g)) \o
    CASE g.type = "Point"        -> Listed(<<WktCoord(g.of)>>)
      [] g.type \in Lines        -> WktCoords(g.of)
      [] g.type \in Rings        -> WktRings(g.of)
      [] g.type = "MultiPolygon" -> Listed([i \in DOMAIN g.of |-> WktRings(g.of[i])])
      [] OTHER                   -> Listed([i \in DOMAIN g.of |-> Wkt(g.of[i])])

TokenAt(tokens, at) == IF at \in DOMAIN tokens THEN tokens[at].word ELSE "end"
Broken == Read("broken", 0)

(* A coordinate: the numbers up to a comma or a parenthesis, the first two  *)
(* of them x and y. Without a dimension the third is z and the fourth m.   *)
ReadCoord(tokens, at, dim) ==
  LET run == {n \in 0..(Len(tokens) + 1 - at) :
                \A i \in at..(at + n - 1) : tokens[i].word = ""}
      count == GreatestOf(run)
      extra == [i \in 1..(count - 2) |-> tokens[at + 1 + i].number]
      asM == dim # <<>> /\ ~dim[1].z /\ dim[1].m
      hasM == dim = <<>> \/ (dim[1].z /\ dim[1].m)
  IN  IF at > Len(tokens) \/ count < 2 THEN Broken
      ELSE Read(Position(tokens[at].number, tokens[at + 1].number,
                         IF asM THEN <<>> ELSE ItemAt(extra, 1),
                         IF asM THEN ItemAt(extra, 1)
                         ELSE IF hasM THEN ItemAt(extra, 2) ELSE <<>>),
                at + count)

(* A parenthesised list of at least one item.                              *)
ReadList(tokens, at, Item(_)) ==
  LET from[place \in DOMAIN tokens] ==   \* the items behind a "(" or a ","
        LET item == Item(place + 1)
            after == TokenAt(tokens, item.next)
            more == from[item.next]
        IN  CASE item.next # 0 /\ after = ")" -> Read(<<item.value>>, item.next + 1)
              [] item.next # 0 /\ after = "," ->
                   IF more.next = 0 THEN Broken ELSE Read(<<item.value>> \o more.value, more.next)
              [] OTHER -> Broken
  IN  IF TokenAt(tokens, at) = "(" THEN from[at] ELSE Broken

RECURSIVE ReadWkt(_, _)
ReadWkt(tokens, at) ==
  LET type == TokenAt(tokens, at)
      suffix == TokenAt(tokens, at + 1)
      dim == IF suffix \in {"Z", "M", "ZM"}
             THEN <<[z |-> suffix # "M", m |-> suffix # "Z"]>> ELSE <<>>
      Coord(place) == ReadCoord(tokens, place, dim)
      Coords(place) == ReadList(tokens, place, Coord)
      Ring(place) == ReadList(tokens, place, Coords)
      Member(place) == ReadWkt(tokens, place)
      start == at + 1 + Len(dim)
      body == CASE type \in {"Point", "LineString", "MultiPoint"} -> Coords(start)
                [] type \in Rings        -> Ring(start)
                [] type = "MultiPolygon" -> ReadList(tokens, start, Ring)
                [] type = "GeometryCollection" -> ReadList(tokens, start, Member)
                [] OTHER -> Broken
  IN  IF body.next = 0 \/ (type = "Point" /\ Len(body.value) # 1) THEN Broken
      ELSE Read(Geometry(type, IF type = "Point" THEN body.value[1] ELSE body.value), body.next)

(* decode: nothing may follow the geometry.                                *)
DecodesWkt(tokens) == ReadWkt(tokens, 1).next = Len(tokens) + 1
DecodeWkt(tokens) == ReadWkt(tokens, 1).value

=============================================================================
