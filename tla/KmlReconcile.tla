---------------------------- MODULE KmlReconcile ----------------------------
(***************************************************************************)
(* An edited feature written into the element it was read from: its        *)
(* ExtendedData and its geometry, and the whole of it (reconcile.rs); a    *)
(* document assembled of its skeleton and its features.                    *)
(***************************************************************************)
EXTENDS KmlEdits

(* The first property wanted under a key that nothing holds yet.           *)
Claim(want, placed, key) ==
  SelectInSeq([i \in DOMAIN want |-> i \notin placed /\ want[i].key = key], LAMBDA free : free)

(* Mutant of SetSimple: a value that did not change is spelled anew.       *)
SetSimpleAlways(leaf, url, ctx, value) == Says(leaf, Words(value.text))

(* A SimpleData brought to a value: kept as spelled where it reads so.     *)
SetSimple(leaf, url, ctx, value) ==
  IF SimpleValue(leaf, url, ctx) = value THEN leaf ELSE Says(leaf, Words(value.text))

SetData(data, value) ==
  IF DataValue(data) = value THEN data ELSE SetLeaf(data, "value", <<Words(value.text)>>)

(* A child at a place of acc kept as another, or taken out; acc has the    *)
(* node as it stands, the place of its next child and what is placed.      *)
Kept(acc, kid, claimed) ==
  [node |-> [acc.node EXCEPT !.kids[acc.next] = kid], next |-> acc.next + 1,
   placed |-> acc.placed \cup claimed]
Dropped(acc) == [acc EXCEPT !.node = WithoutChild(@, acc.next)]

(* The values of one SchemaData.                                           *)
ReconcileSimples(set, want, placed, ctx) ==
  LET url == AttrOf(set, "schemaUrl")
      step(acc, kid) ==
        LET key == AttrOf(kid, "name")
            i == IF key = <<>> THEN 0 ELSE Claim(want, acc.placed, key[1])
        IN  CASE ~Is(kid, "SimpleData") \/ key = <<>> -> Kept(acc, kid, {})
              [] i = 0 -> Dropped(acc)
              [] OTHER -> Kept(acc, SetSimple(kid, url, ctx, want[i].value), {i})
  IN  FoldLeft(step, [node |-> set, next |-> 1, placed |-> placed], set.kids)

(* Mutant of ReconcileValues: a repeated key takes the first of its values *)
(* every time.                                                             *)
ReconcileValuesFirst(extended, want, ctx) ==
  LET step(acc, kid) ==
        LET key == AttrOf(kid, "name")
            i == IF key = <<>> THEN 0 ELSE Claim(want, {}, key[1])
            simples == ReconcileSimples(kid, want, acc.placed, ctx)
        IN  CASE Is(kid, "SchemaData") -> Kept(acc, simples.node, simples.placed)
              [] ~Is(kid, "Data") \/ key = <<>> -> Kept(acc, kid, {})
              [] i = 0 -> Dropped(acc)
              [] OTHER -> Kept(acc, SetData(kid, want[i].value), {i})
  IN  FoldLeft(step, [node |-> extended, next |-> 1, placed |-> {}], extended.kids)

(* The values an ExtendedData holds brought in line, one by one.           *)
ReconcileValues(extended, want, ctx) ==
  LET step(acc, kid) ==
        LET key == AttrOf(kid, "name")
            i == IF key = <<>> THEN 0 ELSE Claim(want, acc.placed, key[1])
            simples == ReconcileSimples(kid, want, acc.placed, ctx)
        IN  CASE Is(kid, "SchemaData") -> Kept(acc, simples.node, simples.placed)
              [] ~Is(kid, "Data") \/ key = <<>> -> Kept(acc, kid, {})
              [] i = 0 -> Dropped(acc)
              [] OTHER -> Kept(acc, SetData(kid, want[i].value), {i})
  IN  FoldLeft(step, [node |-> extended, next |-> 1, placed |-> {}], extended.kids)

(* A new Data goes after the last one, else before the first SchemaData.   *)
AppendData(extended, property) ==
  LET last == SelectLastInSeq(extended.kids, LAMBDA kid : Is(kid, "Data"))
      set == PlaceOf(extended, {"SchemaData"})
      at == IF last # 0 THEN last + 1 ELSE IF set # 0 THEN set ELSE Len(extended.kids) + 1
  IN  WithChild(extended, at, DataElement(property))

(* A node with its ExtendedData as it is brought to be, or without it.     *)
WithExtended(n, at, extended) ==
  IF extended.kids = <<>> /\ extended.notes = <<>> THEN WithoutChild(n, at)
  ELSE [n EXCEPT !.kids[at] = extended]

(* The properties that no value there is was brought to, each a new Data.  *)
WithRest(brought, want) ==
  FoldLeft(AppendData, brought.node,
           FlattenSeq([i \in DOMAIN want |-> IF i \in brought.placed THEN <<>> ELSE <<want[i]>>]))

(* The ExtendedData at a place brought to hold some values, if it does not. *)
ReconcileExtendedAt(n, at, want, ctx) ==
  WithExtended(n, at, WithRest(ReconcileValues(n.kids[at], want, ctx), want))

ReconcileExtended(n, want, ctx) ==
  LET held == Child(n, "ExtendedData")
      said == IF held = <<>> THEN <<>> ELSE ExtendedValues(held[1], ctx)
      of(m) == ReconcileExtendedAt(m, PlaceOf(m, {"ExtendedData"}), want, ctx)
  IN  IF said = want THEN n ELSE of(Holding(n, "ExtendedData"))

-----------------------------------------------------------------------------
(* Geometry. A node that cannot hold what it is given is none.             *)
CoordinatesPlace(n) == PlaceOf(n, {"coordinates"})

SetCoordinates(n, ps) == [n EXCEPT !.kids[CoordinatesPlace(n)].says = Coordinates(ps)]

(* A geometry element with new coordinates in place, where it can hold     *)
(* them.                                                                   *)
UpdateInPlace(existing, g) ==
  LET coords == SelectSeq([i \in DOMAIN existing.kids |-> i], LAMBDA i : Is(existing.kids[i], "coord"))
      onto(n, k) == [n EXCEPT !.kids[coords[k]].says = Coordinates(<<g.of[k]>>)]
  IN  CASE Is(existing, "Point") /\ g.type = "Point" /\ CoordinatesPlace(existing) # 0 ->
             <<SetCoordinates(existing, <<g.of>>)>>
        [] In(existing, {"LineString", "LinearRing"}) /\ g.type = "LineString"
             /\ CoordinatesPlace(existing) # 0 -> <<SetCoordinates(existing, g.of)>>
        [] Is(existing, "Track") /\ g.type = "LineString" /\ Len(coords) = Len(g.of) ->
             <<FoldLeft(onto, existing, [k \in DOMAIN coords |-> k])>>
        [] OTHER -> <<>>

ReplaceOrInsert(n, at, fresh) ==
  IF at = 0 THEN InsertInOrder(n, fresh) ELSE [n EXCEPT !.kids[at] = fresh]

(* Mutant of ReconcileGeometry: a geometry is always built anew.           *)
ReconcileGeometryAnew(n, geometry) ==
  LET at == PlaceOf(n, GeometryGroup)
  IN  IF geometry = <<>> THEN IF at = 0 THEN n ELSE WithoutChild(n, at)
      ELSE ReplaceOrInsert(n, at, GeometryElement(geometry[1]))

(* A Placemark's geometry: updated in place, replaced, put in or taken out. *)
ReconcileGeometry(n, geometry) ==
  LET at == PlaceOf(n, GeometryGroup)
      updated == IF at = 0 \/ geometry = <<>> THEN <<>> ELSE UpdateInPlace(n.kids[at], geometry[1])
  IN  CASE geometry = <<>> -> IF at = 0 THEN n ELSE WithoutChild(n, at)
        [] updated # <<>> -> [n EXCEPT !.kids[at] = updated[1]]
        [] OTHER -> ReplaceOrInsert(n, at, GeometryElement(geometry[1]))

(* The edges of a box set where an edit moved them.                        *)
SetBox(n, box) ==
  LET stored == BoxRead(n)
      stands(el) == stored # <<>> /\ stored[1][el] = box[el] /\ Child(n, el) # <<>>
      wanted(el) == ~stands(el) /\ (el = "rotation" => box.rotation # 0 \/ Child(n, el) # <<>>)
      set(m, el) == IF wanted(el) THEN SetLeaf(m, el, <<Figure(box[el])>>) ELSE m
  IN  FoldLeft(set, n, Edges)

(* A footprint of four corners in an overlay: a quad stays a quad, a box   *)
(* that is one is a box, any other four corners are a quad.                *)
WithCorners(n, corners, box, version) ==
  LET atBox == PlaceOf(n, {"LatLonBox"})
      atQuad == PlaceOf(n, {"LatLonQuad"})
      quad == Spelled(Element("LatLonQuad", <<Leaf("coordinates", Coordinates(corners))>>),
                      "LatLonQuad", IF version = "2.2" THEN "gx" ELSE "kml")
      boxed(held) == [held EXCEPT !.kids[PlaceOf(held, {"LatLonBox"})] = SetBox(@, box[1])]
  IN  CASE atQuad # 0 -> [n EXCEPT !.kids[atQuad] = SetLeaf(@, "coordinates", <<Coordinates(corners)>>)]
        [] atQuad = 0 /\ box # <<>> -> boxed(Holding(n, "LatLonBox"))
        [] OTHER -> ReplaceOrInsert(n, atBox, quad)

(* A ground overlay's footprint: taken out, or one of four corners set.    *)
ReconcileFootprint(n, geometry, version) ==
  LET without(m, el) == LET at == PlaceOf(m, {el}) IN IF at = 0 THEN m ELSE WithoutChild(m, at)
      corners == IF geometry # <<>> /\ geometry[1].type = "Polygon" /\ Len(geometry[1].of) = 1
                 THEN QuadCorners(geometry[1].of[1]) ELSE <<>>
  IN  IF geometry = <<>> THEN <<without(without(n, "LatLonBox"), "LatLonQuad")>>
      ELSE [i \in DOMAIN corners |-> WithCorners(n, corners[i], BoxFromRing(corners[i]), version)]

ReconcilePhotoPoint(n, geometry) ==
  LET at == PlaceOf(n, {"Point"})
      isPoint == geometry # <<>> /\ geometry[1].type = "Point"
  IN  CASE geometry = <<>> -> <<IF at = 0 THEN n ELSE WithoutChild(n, at)>>
        [] ~isPoint -> <<>>
        [] at = 0 -> <<InsertInOrder(n, GeometryElement(geometry[1]))>>
        [] OTHER -> <<[n EXCEPT !.kids[at] = SetLeaf(@, "coordinates", <<Coordinates(<<geometry[1].of>>)>>)]>>

WithGeometry(n, geometry, version) ==
  CASE Is(n, "GroundOverlay") -> ReconcileFootprint(n, geometry, version)
    [] Is(n, "PhotoOverlay")  -> ReconcilePhotoPoint(n, geometry)
    [] OTHER                  -> <<ReconcileGeometry(n, geometry)>>

-----------------------------------------------------------------------------
(* The members of a feature element, brought in line with where the        *)
(* properties go.                                                          *)
Applied(n, placed, ctx, version) ==
  LET said == SetWords(SetWords(n, "name", placed.member["name"]), "description", placed.member["description"])
      iconed(timed) == ReconcileIcon(timed, placed.member["icon"])
  IN  ReconcileExtended(ReconcileAltitude(iconed(ReconcileTime(said, placed.member)), placed.member, version),
                        placed.extended, ctx)

(* An element that has a feature's geometry, with its properties.          *)
WithProperties(n, f, ctx, version) ==
  Applied(n, Place(f.properties, ElementOf(n), Able(GeometryOf(n))), ctx, version)

(* An edited feature in its element as it has been given the geometry; a   *)
(* Placemark of its own where the element cannot hold it.                  *)
Edited(shaped, f, ctx, version) ==
  IF shaped = <<>> THEN Placemark(f, version, {}) ELSE WithProperties(shaped[1], f, ctx, version)

(* A stored element, projected, with a feature's edits.                    *)
ReconcileFrom(stored, projected, f, ctx, version) ==
  LET reshaped == projected.geometry # f.geometry
  IN  IF ~reshaped /\ projected.properties = f.properties THEN stored
      ELSE Edited(IF reshaped THEN WithGeometry(stored, f.geometry, version) ELSE <<stored>>, f, ctx, version)

Reconcile(stored, f, ctx, version) == ReconcileFrom(stored, Project(stored, ctx)[1], f, ctx, version)

(* A feature in its place: an element of its own, or the one it was read   *)
(* from, reconciled.                                                       *)
InItsPlace(f, ctx, version) ==
  IF f.model = <<>>
  THEN [node |-> Placemark(f, version, {}), container |-> <<>>, slot |-> 0, leading |-> <<>>]
  ELSE [node |-> Reconcile(f.model[1].node, f, ctx, version), container |-> <<f.model[1].container>>,
        slot |-> f.model[1].slot, leading |-> f.model[1].leading]

(* A document of its skeleton and its features.                            *)
AssembleDocument(skeleton, features, version) ==
  LET ctx == Context(skeleton.root)
  IN  Assemble(skeleton, [i \in DOMAIN features |-> InItsPlace(features[i], ctx, version)])

(* What a write that gives an element back cannot carry of an edit of its  *)
(* geometry, as it is warned of.                                           *)
EditDrops(n, geometry) ==
  LET at == PlaceOf(n, GeometryGroup)
      replaced == at # 0 /\ (geometry = <<>> \/ UpdateInPlace(n.kids[at], geometry[1]) = <<>>)
  IN  (IF "TrackData" \in Unprojected(n) /\ replaced THEN {"EditedTrack"} ELSE {})
        \cup (IF In(n, OverlayGroup) /\ WithGeometry(n, geometry, "2.3") = <<>> THEN {"EditedOverlay"} ELSE {})

Reshapes(projected, geometry) == projected # <<>> /\ projected[1].geometry # geometry

(* What a write cannot carry of a feature's element: all of it where the   *)
(* model is not given back, an edit's where it is.                         *)
DropCauses(f, carried, toKml, stated) ==
  CASE f.model = <<>> -> {}
    [] f.model # <<>> /\ ~carried ->
         Unprojected(f.model[1].node)
           \cup (IF ~toKml /\ ~stated /\ VerticalOf(f.model[1].node) # "Flat" THEN {"Vertical"} ELSE {})
    [] OTHER -> IF Reshapes(Project(f.model[1].node, {}), f.geometry)
                THEN EditDrops(f.model[1].node, f.geometry) ELSE {}
=============================================================================
