------------------------------ MODULE KmlEdits ------------------------------
(***************************************************************************)
(* Features written as KML elements: a feature of its own as a Placemark   *)
(* (writer.rs), and an edited feature into the element it was read from    *)
(* (reconcile.rs).                                                         *)
(*                                                                         *)
(* A feature is its properties, its geometry, and the element it was read  *)
(* from, each geometry and element an Option.                              *)
(***************************************************************************)
EXTENDS KmlProjection

TupleFor(p) == <<p.x, p.y>> \o p.z

Coordinates(ps) == Numbers([i \in DOMAIN ps |-> TupleFor(ps[i])])

PointElement(p) == Element("Point", <<Leaf("coordinates", Coordinates(<<p>>))>>)
LineElement(ps) == Element("LineString", <<Leaf("coordinates", Coordinates(ps))>>)
Boundary(name, ring) ==
  Element(name, <<Element("LinearRing", <<Leaf("coordinates", Coordinates(ring))>>)>>)
PolygonElement(rings) ==
  Element("Polygon", [i \in DOMAIN rings |->
            Boundary(IF i = 1 THEN "outerBoundaryIs" ELSE "innerBoundaryIs", rings[i])])

RECURSIVE GeometryElement(_)
GeometryElement(g) ==
  LET multi(members) == Element("MultiGeometry", members)
  IN  CASE g.type = "Point" -> PointElement(g.of)
        [] g.type = "LineString" -> LineElement(g.of)
        [] g.type = "Polygon" -> PolygonElement(g.of)
        [] g.type = "MultiPoint" -> multi([i \in DOMAIN g.of |-> PointElement(g.of[i])])
        [] g.type = "MultiLineString" -> multi([i \in DOMAIN g.of |-> LineElement(g.of[i])])
        [] g.type = "MultiPolygon" -> multi([i \in DOMAIN g.of |-> PolygonElement(g.of[i])])
        [] OTHER -> multi([i \in DOMAIN g.of |-> GeometryElement(g.of[i])])

(* An altitude member as an element: 2.2 spells the sea floor's in gx.     *)
AltitudeElement(member, text, version) ==
  Spelled(Leaf(member, Words(text)), member,
          IF member = "seaFloorAltitudeMode" /\ version = "2.2" THEN "gx" ELSE "kml")

GeometryRank(el) ==
  CASE el = "extrude" -> 0 [] el = "tessellate" -> 1
    [] el \in {"altitudeMode", "seaFloorAltitudeMode"} -> 2 [] OTHER -> 3

(* Members put on a built geometry, and on each of its members that can    *)
(* hold them, in the order of the schema.                                  *)
RECURSIVE WithAltitude(_, _, _)
WithAltitude(geometry, want, version) ==
  LET order == <<"extrude", "tessellate", "altitudeMode", "seaFloorAltitudeMode">>
      held == SelectSeq(order, LAMBDA m : want[m] # <<>> /\ CanCarry(geometry.name, m))
      leading == [i \in DOMAIN held |-> AltitudeElement(held[i], want[held[i]][1], version)]
  IN  IF geometry.name = "MultiGeometry"
      THEN [geometry EXCEPT !.kids = [i \in DOMAIN @ |-> WithAltitude(@[i], want, version)]]
      ELSE [geometry EXCEPT !.kids = leading \o @]

(* Which members some part of a geometry, if there is one, can hold.       *)
Able(geometry) ==
  LET carriers == FlattenSeq([i \in DOMAIN geometry |-> Carriers(geometry[i])])
  IN  {m \in ToSet(AltitudeMembers) : \E i \in DOMAIN carriers : CanCarry(ElementOf(carriers[i]), m)}

TimeElement(time) ==
  LET leaves(el, option) == [i \in DOMAIN option |-> Leaf(el, Words(option[i]))]
  IN  IF time.timestamp # <<>> THEN Element("TimeStamp", leaves("when", time.timestamp))
      ELSE Element("TimeSpan", leaves("begin", time.begin) \o leaves("end", time.end))

HasTime(time) == time.timestamp # <<>> \/ time.begin # <<>> \/ time.end # <<>>

DataElement(property) ==
  Named("Data", property.key, <<Leaf("value", Words(property.value.text))>>)

-----------------------------------------------------------------------------
(* The columns a document built from features types: those declared, of a  *)
(* type that still describes their values.                                 *)
HubOf(decl) ==
  CASE decl = "Bool" -> "Bool" [] decl \in {"Float32", "Float64"} -> "Float"
    [] decl \in {"Int16", "UInt16", "Int32", "UInt32"} -> "Int" [] OTHER -> "String"

(* Mutant of Typed: an integer's width is not looked at.                   *)
TypedAnyWidth(features, declarations) ==
  LET values(name) == UNION {{p.value : p \in {q \in ToSet(features[i].properties) : q.key = name}} :
                               i \in DOMAIN features}
      kinds(name) == {v.kind : v \in values(name)} \ {"Null"}
      describes(d) == kinds(d.name) \in {{}, {HubOf(d.decl)}}
      typed == {d \in declarations : values(d.name) # {} /\ describes(d) /\ d.name \notin ElementKeys("Placemark")}
  IN  {[name |-> d.name, type |-> FieldTypeFor(d.decl)] : d \in typed}

Typed(features, declarations) ==
  LET values(name) == UNION {{p.value : p \in {q \in ToSet(features[i].properties) : q.key = name}} :
                               i \in DOMAIN features}
      kinds(name) == {v.kind : v \in values(name)} \ {"Null"}
      inferred(name) == CASE kinds(name) = {"Int", "Float"} -> "Float"
                          [] Cardinality(kinds(name)) = 1 -> CHOOSE k \in kinds(name) : TRUE
                          [] OTHER -> "String"
      fits(d) == \A v \in values(d.name) :
                   v.kind = "Int" /\ HubOf(d.decl) = "Int" => InRange(FieldTypeFor(d.decl), Wholes[v.text])
      describes(d) == (kinds(d.name) = {} \/ inferred(d.name) = HubOf(d.decl)) /\ fits(d)
      typed == {d \in declarations : values(d.name) # {} /\ describes(d) /\ d.name \notin ElementKeys("Placemark")}
  IN  {[name |-> d.name, type |-> FieldTypeFor(d.decl)] : d \in typed}

SchemaElement(typed) ==
  LET fields == SetToSeq(typed)
      field(f) == Node("kml", "SimpleField", {Attr("", "type", f.type), Attr("", "name", f.name)}, Silent, <<>>)
  IN  IF typed = {} THEN <<>>
      ELSE <<Node("kml", "Schema", {Attr("", "id", "schema")}, Silent, [i \in DOMAIN fields |-> field(fields[i])])>>

(* The first value of a typed column goes to SchemaData, the rest to Data. *)
ExtendedElement(extended, typed) ==
  LET types(key) == \E f \in typed : f.name = key
      isSimple(i) == types(extended[i].key) /\ \A h \in 1..(i - 1) : extended[h].key # extended[i].key
      places == [i \in DOMAIN extended |-> i]
      data == SelectSeq(places, LAMBDA i : ~isSimple(i))
      simple == SelectSeq(places, isSimple)
      leaf(p) == Node("kml", "SimpleData", {Attr("", "name", p.key)}, Words(p.value.text), <<>>)
      set == IF simple = <<>> THEN <<>>
             ELSE <<Node("kml", "SchemaData", {Attr("", "schemaUrl", "#schema")}, Silent,
                         [i \in DOMAIN simple |-> leaf(extended[simple[i]])])>>
  IN  IF extended = <<>> THEN <<>>
      ELSE <<Element("ExtendedData", [i \in DOMAIN data |-> DataElement(extended[data[i]])] \o set)>>

(* A Placemark of a geometry element, if any, and properties in place.     *)
PlacemarkOf(geometry, placed, version, typed) ==
  LET leaves(key) == [i \in DOMAIN placed.member[key] |-> Leaf(key, Words(placed.member[key][i]))]
      time == IF HasTime(placed.member) THEN <<TimeElement(placed.member)>> ELSE <<>>
  IN  Element("Placemark",
        leaves("name") \o leaves("description") \o time \o ExtendedElement(placed.extended, typed)
        \o [i \in DOMAIN geometry |-> WithAltitude(geometry[i], placed.member, version)])

(* A feature as a Placemark of its own.                                    *)
Placemark(f, version, typed) ==
  LET geometry == [i \in DOMAIN f.geometry |-> GeometryElement(f.geometry[i])]
  IN  PlacemarkOf(geometry, Place(f.properties, "Placemark", Able(geometry)), version, typed)

-----------------------------------------------------------------------------
(* The sequence of the schema for a parent's children, as the groups that  *)
(* stand at each place.                                                    *)
OrderOf(parent) ==
  LET only(el, S) == IF parent = el THEN S ELSE {}
  IN  CASE parent = "TimeSpan" -> <<{"begin"}, {"end"}>>
        [] parent = "LatLonBox" -> [i \in DOMAIN Edges |-> {Edges[i]}]
        [] parent = "Icon" -> <<{"href"}>>
        [] parent = "Data" -> <<{"displayName"}, {"value"}>>
        [] OTHER ->
             <<{"name"}, {"visibility"}, {"open"}, {"address"}, {"phoneNumber"}, {"Snippet"},
               {"snippet"}, {"description"}, ViewGroup, TimeGroup, {"styleUrl"}, StyleGroup,
               {"Region"}, {"Metadata"}, {"ExtendedData"},
               only("Placemark", GeometryGroup) \cup {"color"}, {"drawOrder"}, {"Icon"},
               only("GroundOverlay", {"altitude"}) \cup only("PhotoOverlay", {"rotation"}),
               only("GroundOverlay", {"altitudeMode", "seaFloorAltitudeMode"}) \cup {"ViewVolume"},
               {"LatLonBox", "ImagePyramid"}, {"LatLonQuad"} \cup only("PhotoOverlay", {"Point"}),
               {"shape"}>>

(* The place of a child in that sequence, none where it is not named.      *)
Rank(parent, child) ==
  IF ElementOf(child) = "foreign" THEN <<>>
  ELSE IF parent \in GeometryGroup THEN <<GeometryRank(ElementOf(child))>>
  ELSE LET at == SelectInSeq(OrderOf(parent), LAMBDA S : ElementOf(child) \in S)
       IN  IF at = 0 THEN <<>> ELSE <<at>>

(* Where a child goes: after the last that is ranked at or before it.      *)
OrderPlace(n, child) ==
  LET rank(kid) == Rank(ElementOf(n), kid)
  IN  IF rank(child) = <<>> THEN Len(n.kids) + 1
      ELSE SelectLastInSeq(n.kids, LAMBDA k : rank(k) # <<>> /\ rank(k)[1] <= rank(child)[1]) + 1

InsertInOrder(n, child) == WithChild(n, OrderPlace(n, child), child)

(* A leaf child brought to say what is wanted: set, taken out or put in.   *)
SetLeaf(n, el, want) ==
  LET at == PlaceOf(n, {el})
  IN  CASE want = <<>> -> IF at = 0 THEN n ELSE WithoutChild(n, at)
        [] at # 0 -> [n EXCEPT !.kids[at].says = want[1]]
        [] OTHER -> InsertInOrder(n, Leaf(el, want[1]))

SetWords(n, el, want) == SetLeaf(n, el, [i \in DOMAIN want |-> Words(want[i])])

(* The time brought in line, in the element it has where that is of the    *)
(* kind wanted.                                                            *)
ReconcileTime(n, want) ==
  LET at == PlaceOf(n, TimeGroup)
      stamp == want.timestamp # <<>>
      kind == IF at = 0 THEN "none" ELSE ElementOf(n.kids[at])
  IN  CASE \A key \in {"timestamp", "begin", "end"} : TimeOf(n)[key] = want[key] -> n
        [] ~HasTime(want) -> IF at = 0 THEN n ELSE WithoutChild(n, at)
        [] stamp /\ kind = "TimeStamp" -> [n EXCEPT !.kids[at] = SetWords(@, "when", want.timestamp)]
        [] ~stamp /\ kind = "TimeSpan" ->
             [n EXCEPT !.kids[at] = SetWords(SetWords(@, "begin", want.begin), "end", want.end)]
        [] at # 0 -> [n EXCEPT !.kids[at] = TimeElement(want)]
        [] OTHER -> InsertInOrder(n, TimeElement(want))

(* A node with a child it can be given an edit in, made where it has none. *)
Holding(n, el) == IF PlaceOf(n, {el}) # 0 THEN n ELSE InsertInOrder(n, Element(el, <<>>))

(* An overlay's icon brought in line.                                      *)
ReconcileIcon(n, want) ==
  LET set(held) == [held EXCEPT !.kids[PlaceOf(held, {"Icon"})] = SetWords(@, "href", want)]
  IN  IF ~In(n, OverlayGroup) \/ IconHref(n) = want THEN n ELSE set(Holding(n, "Icon"))

(* A member set on every carrier that can hold it, or taken from each; one *)
(* altitude mode put in takes the other out.                               *)
RECURSIVE SetMember(_, _, _, _)
SetMember(geometry, member, want, version) ==
  LET at == PlaceOf(geometry, {member})
      other == CASE member = "altitudeMode" -> {"seaFloorAltitudeMode"}
                 [] member = "seaFloorAltitudeMode" -> {"altitudeMode"} [] OTHER -> {}
      rival == PlaceOf(geometry, other)
      cleared == IF rival = 0 THEN geometry ELSE WithoutChild(geometry, rival)
      own == CASE ~CanCarry(ElementOf(geometry), member) -> geometry
               [] want = <<>> -> IF at = 0 THEN geometry ELSE WithoutChild(geometry, at)
               [] at # 0 -> [geometry EXCEPT !.kids[at].says = Words(want[1])]
               [] OTHER -> InsertInOrder(cleared, AltitudeElement(member, want[1], version))
  IN  IF In(geometry, {"MultiGeometry", "MultiTrack"})
      THEN [own EXCEPT !.kids = [i \in DOMAIN @ |-> IF In(@[i], GeometryGroup)
                                                    THEN SetMember(@[i], member, want, version)
                                                    ELSE @[i]]]
      ELSE own

(* A geometry that states some members brought to state those wanted.      *)
RestateAltitude(geometry, have, want, version) ==
  FoldLeft(LAMBDA g, member : IF have[member] = want[member] THEN g
                              ELSE SetMember(g, member, want[member], version),
           geometry, AltitudeMembers)

ReconcileAltitude(n, want, version) ==
  LET at == GeometryPlace(n)
  IN  IF at = 0 THEN n ELSE [n EXCEPT !.kids[at] = RestateAltitude(@, AltitudeOf(n), want, version)]
=============================================================================
