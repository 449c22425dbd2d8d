--------------------------- MODULE KmlProjection ----------------------------
(***************************************************************************)
(* The footprint of a ground overlay, the projection of a feature element  *)
(* (project.rs), what of the element the projection has no place for, and  *)
(* where a feature's properties are written (place.rs).                    *)
(***************************************************************************)
EXTENDS KmlFeatures

Edges == <<"north", "south", "east", "west", "rotation">>

(* A box's edges and its turn, a missing one the schema's default; none    *)
(* where one of them is no number.                                         *)
BoxRead(n) ==
  LET default == [north |-> 90, south |-> -90, east |-> 180, west |-> -180, rotation |-> 0]
      numeric(leaf) == leaf.says.text = "" /\ Len(leaf.says.tuples) = 1
                       /\ Len(leaf.says.tuples[1]) = 1
      edge(el) == LET held == Child(n, el)
                  IN  IF held = <<>> THEN default[el] ELSE held[1].says.tuples[1][1]
  IN  IF \E i \in DOMAIN Edges : LET held == Child(n, Edges[i])
                                 IN  held # <<>> /\ ~numeric(held[1])
      THEN <<>> ELSE <<[el \in ToSet(Edges) |-> edge(el)]>>

Point2(x, y) == Position(x, y, <<>>, <<>>)

Sine(turn) == CASE turn = 90 -> 1 [] turn = -90 -> -1 [] OTHER -> 0
Cosine(turn) == CASE turn = 0 -> 1 [] turn \in {180, -180} -> -1 [] OTHER -> 0

(* The corners of a box, from the south-west one against the clock; an     *)
(* east edge west of the west edge is a whole turn on.                     *)
Corners(box) ==
  LET east == IF box.east < box.west THEN box.east + 360 ELSE box.east
      flat == <<<<box.west, box.south>>, <<east, box.south>>, <<east, box.north>>, <<box.west, box.north>>>>
      cx == (box.west + east) \div 2
      cy == (box.north + box.south) \div 2
      sin == Sine(box.rotation)
      cos == Cosine(box.rotation)
      turned(c) == LET dx == c[1] - cx
                       dy == c[2] - cy
                   IN  Point2(cx + dx * cos - dy * sin, cy + dx * sin + dy * cos)
  IN  [i \in 1..4 |-> IF box.rotation = 0 THEN Point2(flat[i][1], flat[i][2]) ELSE turned(flat[i])]

Closed(corners) == Geometry("Polygon", <<Append(corners, corners[1])>>)

(* The four corners of a ring that has exactly four, closed or not.        *)
QuadCorners(ring) ==
  LET closes == ring # <<>> /\ ring[1].x = Last(ring).x /\ ring[1].y = Last(ring).y
  IN  IF Len(ring) = 5 /\ closes THEN <<SubSeq(ring, 1, 4)>>
      ELSE IF Len(ring) = 4 /\ ~closes THEN <<ring>> ELSE <<>>

Within(x) == IF x > 180 THEN x - 360 ELSE x

(* The turn that brings the first edge of four corners level, none where   *)
(* the edge is oblique.                                                    *)
TurnOf(c) ==
  LET dx == c[2].x - c[1].x
      dy == c[2].y - c[1].y
  IN  CASE dy = 0 /\ dx >= 0 -> <<0>> [] dy = 0 -> <<180>>
        [] dx = 0 /\ dy > 0 -> <<90>> [] dx = 0 -> <<-90>> [] OTHER -> <<>>

(* A box as it is written.                                                 *)
LatLonBoxOf(north, south, east, west, rotation) ==
  [north |-> north, south |-> south, east |-> Within(east), west |-> west, rotation |-> rotation]

(* Four corners about a centre, turned back.                               *)
TurnedBack(c, centre, turn) ==
  LET dx(i) == c[i].x - centre.x
      dy(i) == c[i].y - centre.y
  IN  [i \in 1..4 |-> <<dx(i) * Cosine(turn) + dy(i) * Sine(turn), dy(i) * Cosine(turn) - dx(i) * Sine(turn)>>]

(* The box about a centre that has these corners before it is turned.      *)
BoxAbout(centre, turn, corners) ==
  LET a == corners[2][1]
      b == corners[3][2]
  IN  IF corners = <<<<-a, -b>>, <<a, -b>>, <<a, b>>, <<-a, b>>>> /\ a > 0 /\ b > 0
      THEN <<LatLonBoxOf(centre.y + b, centre.y - b, centre.x + a, centre.x - a, turn)>> ELSE <<>>

BoxFromCorners(c) ==
  LET level == c[1].y = c[2].y /\ c[2].x = c[3].x /\ c[3].y = c[4].y /\ c[4].x = c[1].x
               /\ c[1].x # c[2].x /\ c[1].y < c[3].y
      centre == [x |-> (c[1].x + c[2].x + c[3].x + c[4].x) \div 4,
                 y |-> (c[1].y + c[2].y + c[3].y + c[4].y) \div 4]
      about(turn) == BoxAbout(centre, turn, TurnedBack(c, centre, turn))
  IN  IF level THEN <<LatLonBoxOf(c[3].y, c[1].y, c[2].x, c[1].x, 0)>>
      ELSE IF TurnOf(c) = <<>> THEN <<>> ELSE about(TurnOf(c)[1])

(* The box whose corners are a ring's, if it is one.                       *)
BoxFromRing(ring) ==
  IF QuadCorners(ring) = <<>> THEN <<>> ELSE BoxFromCorners(QuadCorners(ring)[1])

(* A ground overlay's footprint: its quad as written, or its box.          *)
Footprint(overlay) ==
  LET quad == Child(overlay, "LatLonQuad")
      given == IF quad = <<>> THEN <<>> ELSE LineOf(quad[1])
      held == Child(overlay, "LatLonBox")
      box == IF held = <<>> THEN <<>> ELSE BoxRead(held[1])
  IN  IF quad # <<>>
      THEN IF given = <<>> \/ Len(given[1]) # 4 THEN <<>> ELSE <<<<Closed(given[1])>>>>
      ELSE IF held = <<>> THEN <<<<>>>>
      ELSE IF box = <<>> THEN <<>> ELSE <<<<Closed(Corners(box[1]))>>>>

(* What a feature element says outside its ExtendedData, by its keys.      *)
SaidOutside(feature, time, altitude) ==
  Keyed("name", SaidBy(Child(feature, "name")))
    \o Keyed("description", SaidBy(Child(feature, "description")))
    \o Keyed("timestamp", time.timestamp) \o Keyed("begin", time.begin)
    \o Keyed("end", time.end) \o Keyed("icon", IconHref(feature))
    \o FlattenSeq([i \in DOMAIN AltitudeMembers |->
                     Keyed(AltitudeMembers[i], altitude[AltitudeMembers[i]])])

Projection(properties, geometry) ==
  [i \in DOMAIN geometry |-> [properties |-> properties, geometry |-> geometry[i]]]

(* The geometry of a feature element that has, or lacks, one of its own.   *)
ProjectedGeometry(feature, shape) ==
  CASE Is(feature, "GroundOverlay") -> Footprint(feature)
    [] shape = <<>> -> <<<<>>>>
    [] OTHER -> ParseGeometry(shape[1])

(* A feature element as a feature: its properties in their order, and its  *)
(* geometry; none where that cannot be parsed.                             *)
Project(feature, ctx) ==
  LET extended == Child(feature, "ExtendedData")
  IN  Projection(SaidOutside(feature, TimeOf(feature), AltitudeOf(feature))
                   \o FlattenSeq([i \in DOMAIN extended |-> ExtendedValues(extended[i], ctx)]),
                 ProjectedGeometry(feature, GeometryOf(feature)))

-----------------------------------------------------------------------------
(* What a feature's geometry holds that the projection cannot.             *)
RECURSIVE UnprojectedIn(_)
UnprojectedIn(geometry) ==
  CASE Is(geometry, "Model") -> {"Model"}
    [] Is(geometry, "Track") ->
         IF PlaceOf(geometry, {"when", "angles", "ExtendedData", "Model"}) # 0 THEN {"TrackData"} ELSE {}
    [] In(geometry, {"MultiTrack", "MultiGeometry"}) ->
         UNION {UnprojectedIn(geometry.kids[i]) : i \in DOMAIN geometry.kids}
    [] OTHER -> {}

Unprojected(feature) ==
  LET geometry == GeometryOf(feature)
  IN  IF geometry = <<>> THEN {} ELSE UnprojectedIn(geometry[1])

(* Whether a leaf geometry's coordinates have heights.                     *)
HasHeights(n) ==
  LET tall(held) == \E i \in DOMAIN held.says.tuples : Len(held.says.tuples[i]) >= 3
      someTall(kids) == \E i \in DOMAIN kids : tall(kids[i])
      rings == [i \in DOMAIN ChildrenOf(n, {"outerBoundaryIs", "innerBoundaryIs"}) |->
                  Child(ChildrenOf(n, {"outerBoundaryIs", "innerBoundaryIs"})[i], "LinearRing")]
  IN  CASE In(n, {"Point", "LineString", "LinearRing"}) -> someTall(Child(n, "coordinates"))
        [] Is(n, "Polygon") ->
             \E i \in DOMAIN rings : rings[i] # <<>> /\ someTall(Child(rings[i][1], "coordinates"))
        [] Is(n, "Track") -> someTall(ChildrenOf(n, {"coord"}))
        [] OTHER -> FALSE

(* What the heights under a geometry are: absolute only in that mode, a    *)
(* track without a mode taking its multi-track's.                          *)
RECURSIVE HeightsIn(_, _)
HeightsIn(geometry, inherited) ==
  LET mode == ItemAt(Child(geometry, "seaFloorAltitudeMode") \o Child(geometry, "altitudeMode")
                     \o inherited, 1)
      members == ChildrenOf(geometry, GeometryGroup)
  IN  CASE In(geometry, {"MultiGeometry", "MultiTrack"}) ->
             UNION {HeightsIn(members[i], mode) : i \in DOMAIN members}
        [] HasHeights(geometry) ->
             {IF mode # <<>> /\ Is(mode[1], "altitudeMode") /\ SaysText(mode[1]) = "absolute"
              THEN "Absolute" ELSE "Other"}
        [] OTHER -> {}

(* The greatest of what some heights are.                                  *)
Vertical(kinds) ==
  IF "Other" \in kinds THEN "Other" ELSE IF "Absolute" \in kinds THEN "Absolute" ELSE "Flat"

VerticalOf(feature) ==
  LET geometry == GeometryOf(feature)
  IN  Vertical(IF geometry = <<>> THEN {} ELSE HeightsIn(geometry[1], <<>>))

-----------------------------------------------------------------------------
Admits(member, text) ==
  CASE member = "altitudeMode" -> text \in {"clampToGround", "relativeToGround", "absolute"}
    [] member = "seaFloorAltitudeMode" -> text \in {"clampToSeaFloor", "relativeToSeaFloor"}
    [] OTHER -> text \in {"0", "1", "true", "false"}

(* Mutant of Place: a begin or end beside a stamp is taken out of the rest *)
(* with the stamp.                                                         *)
PlaceTakesSpan(properties, el, able) ==
  LET first(key) == IF key \in ElementKeys(el)
                    THEN SelectInSeq(properties, LAMBDA p : p.key = key) ELSE 0
      says(key) == properties[first(key)].value.text
      timed(key) == first(key) # 0 /\ IsKmlTime(says(key))
      carried(m) == first(m) # 0 /\ m \in able /\ Admits(m, says(m))
      members == {key \in {"name", "description"} : first(key) # 0}
                 \cup (IF timed("timestamp") THEN {"timestamp"}
                       ELSE {key \in {"begin", "end"} : timed(key)})
                 \cup {key \in {"icon"} : first(key) # 0 /\ says(key) # ""}
                 \cup {m \in ToSet(AltitudeMembers) :
                         carried(m) /\ ~(m = "seaFloorAltitudeMode" /\ carried("altitudeMode"))}
      taken == members \cup {key \in {"begin", "end"} : timed(key)}
      spare == {i \in DOMAIN properties : \A key \in taken : first(key) # i}
  IN  [member |-> [key \in ElementKeys("PhotoOverlay") |->
                     IF key \in members THEN <<says(key)>> ELSE <<>>],
       extended |-> FlattenSeq([i \in DOMAIN properties |->
                                 IF i \in spare THEN <<properties[i]>> ELSE <<>>])]

(* Where a feature's properties go: under a key its element has, the first *)
(* of that key where its value is one the element admits; the rest to      *)
(* ExtendedData. One time, and one altitude mode, is all an element holds. *)
Place(properties, el, able) ==
  LET first(key) == IF key \in ElementKeys(el)
                    THEN SelectInSeq(properties, LAMBDA p : p.key = key) ELSE 0
      says(key) == properties[first(key)].value.text
      timed(key) == first(key) # 0 /\ IsKmlTime(says(key))
      carried(m) == first(m) # 0 /\ m \in able /\ Admits(m, says(m))
      members == {key \in {"name", "description"} : first(key) # 0}
                 \cup (IF timed("timestamp") THEN {"timestamp"}
                       ELSE {key \in {"begin", "end"} : timed(key)})
                 \cup {key \in {"icon"} : first(key) # 0 /\ says(key) # ""}
                 \cup {m \in ToSet(AltitudeMembers) :
                         carried(m) /\ ~(m = "seaFloorAltitudeMode" /\ carried("altitudeMode"))}
      spare == {i \in DOMAIN properties : \A key \in members : first(key) # i}
  IN  [member |-> [key \in ElementKeys("PhotoOverlay") |->
                     IF key \in members THEN <<says(key)>> ELSE <<>>],
       extended |-> FlattenSeq([i \in DOMAIN properties |->
                                 IF i \in spare THEN <<properties[i]>> ELSE <<>>])]
=============================================================================
