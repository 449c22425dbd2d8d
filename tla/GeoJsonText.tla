----------------------------- MODULE GeoJsonText -----------------------------
(***************************************************************************)
(* GeoJSON: the document geojson/mod.rs writes for a layer, and its two    *)
(* readers, the streaming one every run uses and the tree it falls back    *)
(* on. An object is the sequence of its members, in order and repeated     *)
(* names included; a position is the sequence of its numbers.              *)
(***************************************************************************)
EXTENDS Cells, CrsIdentity, Geometries

Member(key, value) == [key |-> key, value |-> value]

Valued(members, key) == SelectSeq(members, LAMBDA m : m.key = key)

(* JsonValue::get: the first member of a name, as an Option.               *)
Get(members, key) ==
  LET named == Valued(members, key)
  IN  IF named = <<>> THEN <<>> ELSE <<named[1].value>>

IsReplayable(key) == key \notin {"type", "bbox", "geometry", "properties", "features"}

(* native_from: members for this format alone to replay, where there are any. *)
NativeFrom(kept) == IF kept = <<>> THEN <<>> ELSE <<[format |-> "GeoJson", payload |-> kept]>>

-----------------------------------------------------------------------------
(* The writer. A position has no measure; a value is written as JSON has it, *)
(* so bytes become the text of their hex.                                  *)
WritePosition(p) == <<p.x, p.y>> \o p.z

WriteCoordinates(g) ==
  LET line(ps) == [i \in DOMAIN ps |-> WritePosition(ps[i])]
      lines(s) == [i \in DOMAIN s |-> line(s[i])]
  IN  CASE g.type = "Point"  -> WritePosition(g.of)
        [] g.type \in Lines  -> line(g.of)
        [] g.type \in Rings  -> lines(g.of)
        [] OTHER -> [i \in DOMAIN g.of |-> lines(g.of[i])]

RECURSIVE WriteGeometry(_)
WriteGeometry(g) ==
  <<Member("type", g.type),
    IF g.type = "GeometryCollection"
    THEN Member("geometries", [i \in DOMAIN g.of |-> WriteGeometry(g.of[i])])
    ELSE Member("coordinates", WriteCoordinates(g))>>

WriteValue(value) == IF value.kind = "bytes" THEN Text("hex", value.v, 2) ELSE value

(* natives: only what this format's own reader kept.                       *)
Natives(native) ==
  IF native = <<>> \/ native[1].format # "GeoJson" THEN <<>> ELSE native[1].payload

WriteFeature(row) ==
  <<Member("type", "Feature")>> \o Natives(row.native)
    \o <<Member("geometry", IF row.geometry = <<>> THEN <<>> ELSE <<WriteGeometry(row.geometry[1])>>),
         Member("properties",
                <<[i \in DOMAIN row.props |-> Member(row.props[i].name, WriteValue(row.props[i].value))]>>)>>

WriteGeoJson(layer) ==
  <<Member("type", "FeatureCollection")>>
    \o (IF layer.name = <<>> THEN <<>> ELSE <<Member("name", layer.name[1])>>)
    \o Natives(layer.native)
    \o <<Member("features", [r \in DOMAIN layer.rows |-> WriteFeature(layer.rows[r])])>>

-----------------------------------------------------------------------------
(* A position is its first three numbers.                                  *)
ReadPosition(numbers) == Position(numbers[1], numbers[2], ItemAt(numbers, 3), <<>>)

GeometryFromCoords(type, c) ==
  LET line(ps) == [i \in DOMAIN ps |-> ReadPosition(ps[i])]
      lines(s) == [i \in DOMAIN s |-> line(s[i])]
  IN  Geometry(type,
        CASE type = "Point" -> ReadPosition(c)
          [] type \in Lines -> line(c)
          [] type \in Rings -> lines(c)
          [] OTHER          -> [i \in DOMAIN c |-> lines(c[i])])

(* stream_geometry: members in the order they come. Coordinates that come   *)
(* before a type wait for it; of two, those read with a type win.          *)
RECURSIVE StreamGeometry(_)
StreamGeometry(members) ==
  LET start == [type |-> <<>>, read |-> <<>>, deferred |-> <<>>, parts |-> <<>>]
      take(s, m) ==
        CASE m.key = "type" -> [s EXCEPT !.type = <<m.value>>]
          [] m.key = "coordinates" /\ s.type # <<>> ->
               [s EXCEPT !.read = <<GeometryFromCoords(s.type[1], m.value)>>]
          [] m.key = "coordinates" -> [s EXCEPT !.deferred = <<m.value>>]
          [] m.key = "geometries" ->
               [s EXCEPT !.parts = <<[i \in DOMAIN m.value |-> StreamGeometry(m.value[i])]>>]
          [] OTHER -> s
      end == FoldLeft(take, start, members)
  IN  CASE end.type[1] = "GeometryCollection" -> Geometry("GeometryCollection", end.parts[1])
        [] end.read # <<>> -> end.read[1]
        [] OTHER -> GeometryFromCoords(end.type[1], end.deferred[1])

(* stream_properties: the members as they stand.                           *)
ReadProps(members) == [i \in DOMAIN members |-> [name |-> members[i].key, value |-> members[i].value]]

(* stream_feature: the last geometry and the last properties of a feature. *)
StreamFeature(members) ==
  LET start == [geometry |-> <<>>, props |-> <<>>, kept |-> <<>>]
      take(f, m) ==
        CASE m.key = "geometry" -> IF m.value = <<>> THEN f
                                   ELSE [f EXCEPT !.geometry = <<StreamGeometry(m.value[1])>>]
          [] m.key = "properties" -> IF m.value = <<>> THEN f
                                     ELSE [f EXCEPT !.props = ReadProps(m.value[1])]
          [] IsReplayable(m.key) -> [f EXCEPT !.kept = Append(@, m)]
          [] OTHER -> f
      end == FoldLeft(take, start, members)
  IN  [geometry |-> end.geometry, props |-> end.props, native |-> NativeFrom(end.kept)]

(* Mutant of StreamCollection: every member is kept to be replayed. *)
StreamCollectionKeepsAll(members) ==
  [rows |-> [i \in DOMAIN Get(members, "features")[1] |-> StreamFeature(Get(members, "features")[1][i])],
   schema |-> <<>>, crs |-> <<Wgs84>>, name |-> Get(members, "name"),
   native |-> NativeFrom(SelectSeq(members, LAMBDA m : m.key # "features"))]

(* stream_collection: the first features and the first name that is a text; *)
(* everything else a writer would not derive is kept.                      *)
StreamCollection(members) ==
  LET start == [features |-> <<>>, name |-> <<>>, kept |-> <<>>]
      take(s, m) ==
        CASE m.key = "features" /\ s.features = <<>> ->
               [s EXCEPT !.features = <<[i \in DOMAIN m.value |-> StreamFeature(m.value[i])]>>]
          [] m.key = "name" /\ s.name = <<>> /\ m.value.kind = "text" -> [s EXCEPT !.name = <<m.value>>]
          [] IsReplayable(m.key) -> [s EXCEPT !.kept = Append(@, m)]
          [] OTHER -> s
      end == FoldLeft(take, start, members)
  IN  [rows |-> end.features[1], schema |-> <<>>, crs |-> <<Wgs84>>, name |-> end.name,
       native |-> NativeFrom(end.kept)]

-----------------------------------------------------------------------------
(* The tree reader: the first member of each name.                         *)
RECURSIVE ParseGeometry(_)
ParseGeometry(members) ==
  LET type == Get(members, "type")[1]
  IN  IF type = "GeometryCollection"
      THEN LET parts == Get(members, "geometries")[1]
           IN  Geometry(type, [i \in DOMAIN parts |-> ParseGeometry(parts[i])])
      ELSE GeometryFromCoords(type, Get(members, "coordinates")[1])

(* Mutant of ParseFeature: members nobody models are dropped. *)
ParseFeatureBare(members) ==
  LET geometry == Get(members, "geometry")
      props == Get(members, "properties")
  IN  [geometry |-> IF geometry = <<>> \/ geometry[1] = <<>> THEN <<>>
                    ELSE <<ParseGeometry(geometry[1][1])>>,
       props |-> IF props = <<>> \/ props[1] = <<>> THEN <<>> ELSE ReadProps(props[1][1]),
       native |-> <<>>]

ParseFeature(members) ==
  LET geometry == Get(members, "geometry")
      props == Get(members, "properties")
  IN  [geometry |-> IF geometry = <<>> \/ geometry[1] = <<>> THEN <<>>
                    ELSE <<ParseGeometry(geometry[1][1])>>,
       props |-> IF props = <<>> \/ props[1] = <<>> THEN <<>> ELSE ReadProps(props[1][1]),
       native |-> NativeFrom(SelectSeq(members, LAMBDA m : IsReplayable(m.key)))]

(* from_json: a collection, or one feature, or a bare geometry; of a        *)
(* collection neither the name nor what nobody models.                     *)
FromJson(members) ==
  LET type == Get(members, "type")[1]
      features == Get(members, "features")
  IN  [rows |-> CASE type = "FeatureCollection" ->
                       [i \in DOMAIN features[1] |-> ParseFeature(features[1][i])]
                  [] type = "Feature" -> <<ParseFeature(members)>>
                  [] OTHER -> <<[geometry |-> <<ParseGeometry(members)>>, props |-> <<>>, native |-> <<>>]>>,
       schema |-> <<>>, crs |-> <<Wgs84>>, name |-> <<>>, native |-> <<>>]

(* from_geojson_str: the stream when there are features, else the tree.     *)
ReadGeoJson(members) ==
  IF Valued(members, "features") # <<>> THEN StreamCollection(members) ELSE FromJson(members)

=============================================================================
