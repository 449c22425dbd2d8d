---------------------------- MODULE KmlFeatures -----------------------------
(***************************************************************************)
(* What a KML feature element is as a feature (project.rs): its properties *)
(* in their order and its geometry; and where each property of a feature   *)
(* goes when it is written (place.rs).                                     *)
(*                                                                         *)
(* A property is a key and a value; a value is its kind and the text       *)
(* property_text gives it. Of boxes turned on the ground only quarter      *)
(* turns about a centre on the equator are modelled.                       *)
(***************************************************************************)
EXTENDS KmlDocument

Value(kind, text) == [kind |-> kind, text |-> text]
Text(text) == Value("String", text)
Property(key, value) == [key |-> key, value |-> value]

(* All of a sequence of Options, none when one of them is none.            *)
AllOf(options) ==
  IF \E i \in DOMAIN options : options[i] = <<>> THEN <<>>
  ELSE <<[i \in DOMAIN options |-> options[i][1]]>>

AltitudeMembers == <<"altitudeMode", "seaFloorAltitudeMode", "extrude", "tessellate">>

(* The keys a feature element can hold as elements of its own.             *)
ElementKeys(el) ==
  {"name", "description", "timestamp", "begin", "end"}
    \cup (IF el \in {"GroundOverlay", "PhotoOverlay"} THEN {"icon"} ELSE {})
    \cup (IF el # "GroundOverlay" THEN ToSet(AltitudeMembers) ELSE {})

-----------------------------------------------------------------------------
(* The field types of a Schema.                                            *)
WholeTypes == {"int", "uint", "short", "ushort"}
FieldTypes == WholeTypes \cup {"string", "float", "double", "bool"}

Declared ==
  [t \in FieldTypes |->
     CASE t = "string" -> "String" [] t = "int" -> "Int32" [] t = "uint" -> "UInt32"
       [] t = "short" -> "Int16" [] t = "ushort" -> "UInt16" [] t = "float" -> "Float32"
       [] t = "double" -> "Float64" [] t = "bool" -> "Bool"]

FieldTypeFor(decl) ==
  CASE decl = "Bool" -> "bool"
    [] decl \in {"Int8", "Int16"} -> "short"
    [] decl \in {"UInt8", "UInt16"} -> "ushort"
    [] decl = "Int32" -> "int" [] decl = "UInt32" -> "uint"
    [] decl = "Float32" -> "float" [] decl = "Float64" -> "double"
    [] OTHER -> "string"

(* The spellings of numbers this model's texts hold.                       *)
Wholes == [t \in {"-1", "0", "1", "5", "05", "40000"} |->
             CASE t = "-1" -> -1 [] t = "0" -> 0 [] t = "1" -> 1 [] t = "40000" -> 40000
               [] OTHER -> 5]
Reals == [t \in DOMAIN Wholes \cup {"5e0", "2.5", "2.50"} |->
            IF t \in DOMAIN Wholes THEN ToString(Wholes[t]) \o ".0"
            ELSE IF t = "5e0" THEN "5.0" ELSE "2.5"]

InRange(type, n) ==
  CASE type = "short" -> n \in -32768..32767
    [] type = "ushort" -> n \in 0..65535
    [] type = "uint" -> n >= 0
    [] OTHER -> TRUE

(* A text as a value of a field type, or the text where it is not one.     *)
FieldValue(type, text) ==
  CASE type = "string" -> Text(text)
    [] text = "" -> Value("Null", "")
    [] type \in WholeTypes /\ text \in DOMAIN Wholes /\ InRange(type, Wholes[text]) ->
         Value("Int", ToString(Wholes[text]))
    [] type \in {"float", "double"} /\ text \in DOMAIN Reals -> Value("Float", Reals[text])
    [] type = "bool" /\ text \in {"true", "1"} -> Value("Bool", "true")
    [] type = "bool" /\ text \in {"false", "0"} -> Value("Bool", "false")
    [] OTHER -> Text(text)

(* The schemas of a document, those of containers in containers with them. *)
RECURSIVE Schemas(_)
Schemas(container) ==
  LET field(f) == [name |-> AttrOf(f, "name")[1], type |-> AttrOf(f, "type")[1]]
      typed(f) == AttrOf(f, "name") # <<>> /\ AttrOf(f, "type") # <<>>
                  /\ AttrOf(f, "type")[1] \in FieldTypes
      fieldsOf(n) == LET held == SelectSeq(ChildrenOf(n, {"SimpleField"}), typed)
                     IN  [i \in DOMAIN held |-> field(held[i])]
      of(n) == CASE Is(n, "Schema") /\ AttrOf(n, "id") # <<>> ->
                      <<[url |-> "#" \o AttrOf(n, "id")[1], fields |-> fieldsOf(n)]>>
                 [] In(n, ContainerGroup \cup {"kml"}) -> Schemas(n)
                 [] OTHER -> <<>>
  IN  FlattenSeq([i \in DOMAIN container.kids |-> of(container.kids[i])])

(* The first schema of each id.                                            *)
Context(root) ==
  LET all == Schemas(root)
  IN  {all[i] : i \in {j \in DOMAIN all : \A h \in 1..(j - 1) : all[h].url # all[j].url}}

(* The type a schema gives a field, as an Option.                          *)
FieldType(ctx, url, name) ==
  LET named == {s \in ctx : url # <<>> /\ s.url = url[1]}
      fields == IF named = {} THEN <<>> ELSE (CHOOSE s \in named : TRUE).fields
      at == SelectInSeq(fields, LAMBDA f : f.name = name)
  IN  IF at = 0 THEN <<>> ELSE <<fields[at].type>>

(* Each field and its type, where the schemas agree on one.                *)
Declarations(ctx) ==
  LET all == UNION {{[name |-> s.fields[i].name, decl |-> Declared[s.fields[i].type]] :
                       i \in DOMAIN s.fields} : s \in ctx}
  IN  {d \in all : \A e \in all : e.name = d.name => e.decl = d.decl}

-----------------------------------------------------------------------------
(* The times KML admits: a year, a month, a date or a date and time, zoned *)
(* or not.                                                                 *)
Zones == {"", "Z", "+01:00"}
Years == {"2024", "-0044"}
Dates == {y \o "-05-01" : y \in Years}
DateTimes == {d \o "T" \o t \o z : d \in Dates, t \in {"10:00:00", "10:00:00.5"}, z \in Zones}
KmlTimes == DateTimes \cup {s \o z : s \in Years \cup Dates \cup {y \o "-05" : y \in Years}, z \in Zones}

IsKmlTime(text) == text \in KmlTimes

(* What a leaf says, as text.                                              *)
SaysText(n) == n.says.text
SaidBy(option) == [i \in DOMAIN option |-> SaysText(option[i])]
Keyed(key, option) == [i \in DOMAIN option |-> Property(key, Text(option[i]))]

(* The feature's time, by its keys, each an Option.                        *)
TimeOf(feature) ==
  LET time == FirstOf(feature, TimeGroup)
      said(el) == IF time = <<>> THEN <<>> ELSE SaidBy(Child(time[1], el))
      stamp == time # <<>> /\ Is(time[1], "TimeStamp")
  IN  [timestamp |-> IF stamp THEN said("when") ELSE <<>>,
       begin |-> IF stamp THEN <<>> ELSE said("begin"),
       end |-> IF stamp THEN <<>> ELSE said("end")]

IconHref(feature) ==
  LET icon == IF In(feature, OverlayGroup) THEN Child(feature, "Icon") ELSE <<>>
  IN  IF icon = <<>> THEN <<>> ELSE SaidBy(Child(icon[1], "href"))

(* Where the feature's geometry element is among its children.             *)
GeometryPlace(feature) ==
  CASE Is(feature, "Placemark") -> PlaceOf(feature, GeometryGroup)
    [] Is(feature, "PhotoOverlay") -> PlaceOf(feature, {"Point"})
    [] OTHER -> 0

GeometryOf(feature) == ItemAt(feature.kids, GeometryPlace(feature))

(* The geometry elements that can each say what their heights are.         *)
RECURSIVE Carriers(_)
Carriers(geometry) ==
  LET members == IF In(geometry, {"MultiGeometry", "MultiTrack"})
                 THEN ChildrenOf(geometry, GeometryGroup) ELSE <<>>
  IN  <<geometry>> \o FlattenSeq([i \in DOMAIN members |-> Carriers(members[i])])

CanCarry(geometry, member) ==
  CASE member = "extrude" -> geometry \in {"Point", "LineString", "LinearRing", "Polygon"}
    [] member = "tessellate" -> geometry \in {"LineString", "LinearRing", "Polygon"}
    [] OTHER -> geometry \in GeometryGroup \ {"MultiGeometry"}

(* The members every carrier that states them states alike.                *)
AltitudeOf(feature) ==
  LET geometry == GeometryOf(feature)
      carriers == IF geometry = <<>> THEN <<>> ELSE Carriers(geometry[1])
      stated(member) == FlattenSeq([i \in DOMAIN carriers |-> SaidBy(Child(carriers[i], member))])
      agreed(member) == IF Cardinality(ToSet(stated(member))) = 1 THEN <<stated(member)[1]>> ELSE <<>>
  IN  [member \in ToSet(AltitudeMembers) |-> agreed(member)]

DataValue(data) ==
  LET said == SaidBy(Child(data, "value")) IN Text(IF said = <<>> THEN "" ELSE said[1])

SimpleValue(simple, url, ctx) ==
  LET type == FieldType(ctx, url, AttrOf(simple, "name")[1])
  IN  IF type = <<>> THEN Text(SaysText(simple)) ELSE FieldValue(type[1], SaysText(simple))

(* The named values of ExtendedData: every Data, then every SimpleData.    *)
ExtendedValues(extended, ctx) ==
  LET named(s) == SelectSeq(s, LAMBDA n : AttrOf(n, "name") # <<>>)
      data == named(ChildrenOf(extended, {"Data"}))
      sets == ChildrenOf(extended, {"SchemaData"})
      simples(set) == LET held == named(ChildrenOf(set, {"SimpleData"}))
                      IN  [i \in DOMAIN held |->
                             Property(AttrOf(held[i], "name")[1],
                                      SimpleValue(held[i], AttrOf(set, "schemaUrl"), ctx))]
  IN  [i \in DOMAIN data |-> Property(AttrOf(data[i], "name")[1], DataValue(data[i]))]
      \o FlattenSeq([i \in DOMAIN sets |-> simples(sets[i])])

-----------------------------------------------------------------------------
(* Geometry. What cannot be parsed is none; what is parsed is an Option of *)
(* a geometry, none for one a feature has no variant for.                  *)
PositionOf(tuple) ==
  CASE Len(tuple) < 2 -> <<>>
    [] Len(tuple) = 2 -> <<Position(tuple[1], tuple[2], <<>>, <<>>)>>
    [] OTHER -> <<Position(tuple[1], tuple[2], <<tuple[3]>>, <<>>)>>

PositionsIn(says) ==
  IF says.text # "" THEN <<>> ELSE AllOf([i \in DOMAIN says.tuples |-> PositionOf(says.tuples[i])])

(* The positions of a node's coordinates, none where it has none.          *)
LineOf(n) ==
  LET held == Child(n, "coordinates") IN IF held = <<>> THEN <<>> ELSE PositionsIn(held[1].says)

PolygonOf(n) ==
  LET ring(boundary) == LET held == Child(boundary, "LinearRing")
                        IN  IF held = <<>> THEN <<>> ELSE LineOf(held[1])
      boundaries == Child(n, "outerBoundaryIs") \o ChildrenOf(n, {"innerBoundaryIs"})
  IN  IF Child(n, "outerBoundaryIs") = <<>> THEN <<>>
      ELSE AllOf([i \in DOMAIN boundaries |-> ring(boundaries[i])])

(* A track's coordinates stand in elements of their own, two or three      *)
(* ordinates in each.                                                      *)
TrackOf(n) ==
  LET coords == ChildrenOf(n, {"coord"})
      one(c) == IF Len(c.says.tuples) = 1 /\ Len(c.says.tuples[1]) \in {2, 3}
                THEN PositionOf(c.says.tuples[1]) ELSE <<>>
  IN  AllOf([i \in DOMAIN coords |-> one(coords[i])])

(* Members of one kind are that kind's multi-geometry.                     *)
Combine(geometries) ==
  LET kinds == {geometries[i].type : i \in DOMAIN geometries}
      of == [i \in DOMAIN geometries |-> geometries[i].of]
  IN  CASE kinds = {"Point"} -> Geometry("MultiPoint", of)
        [] kinds = {"LineString"} -> Geometry("MultiLineString", of)
        [] kinds = {"Polygon"} -> Geometry("MultiPolygon", of)
        [] OTHER -> Geometry("GeometryCollection", geometries)

RECURSIVE ParseGeometry(_)
ParseGeometry(n) ==
  LET as(type, option) == [i \in DOMAIN option |-> <<Geometry(type, option[i])>>]
      members == ChildrenOf(n, GeometryGroup)
      parsed == AllOf([i \in DOMAIN members |-> ParseGeometry(members[i])])
      held == IF parsed = <<>> THEN <<>> ELSE FlattenSeq(parsed[1])
      tracks == ChildrenOf(n, {"Track"})
      point == LineOf(n)
  IN  CASE Is(n, "Point") -> IF point \in {<<>>, <<<<>>>>} THEN <<>>
                             ELSE <<<<Geometry("Point", point[1][1])>>>>
        [] In(n, {"LineString", "LinearRing"}) -> as("LineString", LineOf(n))
        [] Is(n, "Polygon") -> as("Polygon", PolygonOf(n))
        [] Is(n, "Track") -> as("LineString", TrackOf(n))
        [] Is(n, "MultiTrack") ->
             as("MultiLineString", AllOf([i \in DOMAIN tracks |-> TrackOf(tracks[i])]))
        [] Is(n, "MultiGeometry") ->
             IF parsed = <<>> \/ members = <<>> THEN <<>>
             ELSE IF held = <<>> THEN <<<<>>>> ELSE <<<<Combine(held)>>>>
        [] OTHER -> <<<<>>>>                                     \* a Model
=============================================================================
