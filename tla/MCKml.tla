------------------------------- MODULE MCKml --------------------------------
(* KML files of each version with folders, comments, overlays, tracks and  *)
(* schemas, an archive of two documents, files that are refused, and       *)
(* collections that come from elsewhere.                                   *)
EXTENDS Kml

At(x, y, z) == Geometry("Point", Position(x, y, z, <<>>))
Flat(ps) == [i \in DOMAIN ps |-> Point2(ps[i][1], ps[i][2])]

Noted(n, notes) == [n EXCEPT !.notes = notes]
Note(at, note) == [at |-> at, note |-> note]
Say(name, text) == Leaf(name, Words(text))
Gx(name, kids) == Node("gx", name, {}, Silent, kids)
GxSay(name, text) == Node("gx", name, {}, Words(text), <<>>)
Coords(tuples) == Leaf("coordinates", Numbers(tuples))
GxCoord(tuple) == Node("gx", "coord", {}, Numbers(<<tuple>>), <<>>)
DataNamed(key, text) == Named("Data", key, <<Say("value", text)>>)
Author == Node("atom", "author", {}, Words("me"), <<>>)
Kept1 == Node("x", "kept", {}, Words("1"), <<>>)
KmlRoot(attrs, kids) == Node("kml", "kml", attrs, Silent, kids)
Stamp(version) == {Attr("", "version", version)}
Box(north, south, east, west, more) ==
  Element("LatLonBox", <<Leaf("north", Figure(north)), Leaf("south", Figure(south)),
                         Leaf("east", Figure(east)), Leaf("west", Figure(west))>> \o more)
Image(href) == Element("Icon", <<Say("href", href), Say("viewRefreshMode", "never")>>)

-----------------------------------------------------------------------------
(* A 2.2 document of placemarks, two of them in a folder.                  *)
Placed1 == Noted(Element("Placemark",
  <<Say("name", "a"), Author, Say("description", "b"), Element("TimeStamp", <<Say("when", "2024-05-01")>>),
    Say("styleUrl", "#s"),
    Noted(Element("ExtendedData", <<DataNamed("k", "1"), Kept1, DataNamed("k", "05"), DataNamed("m", "5")>>),
          <<Note(2, "of k")>>),
    Element("Point", <<Say("extrude", "1"), Coords(<<<<1, 2>>>>)>>)>>),
  <<Note(1, "of author"), Note(6, "of point")>>)

Placed2 == Element("Placemark",
  <<Element("TimeSpan", <<Say("begin", "2024-05"), Say("end", "2024")>>),
    Element("LineString", <<Say("tessellate", "1"), Say("altitudeMode", "absolute"), Coords(<<<<0, 0, 7>>, <<3, 1, 8>>>>)>>)>>)

Placed3 == Element("Placemark",
  <<Say("name", "c"),
    Element("MultiGeometry", <<Element("Point", <<Say("altitudeMode", "absolute"), Coords(<<<<1, 1>>>>)>>),
                               Element("Point", <<Say("altitudeMode", "absolute"), Coords(<<<<2, 2>>>>)>>)>>)>>)

Placemarks == Document("ogc", KmlRoot({}, <<
  Noted(Element("Document",
    <<Say("name", "top"), Element("Style", <<Element("LineStyle", <<Say("width", "3")>>)>>), Placed1,
      Noted(Element("Folder", <<Say("name", "in"), Placed2, Placed3>>), <<Note(1, "of two"), Note(3, "last")>>),
      Element("NetworkLink", <<Element("Link", <<Say("href", "u")>>)>>)>>),
    <<Note(2, "of one"), Note(3, "of folder"), Note(5, "end")>>)>>))

(* One of overlays.                                                        *)
Overlays == Document("ogc", KmlRoot({}, <<Element("Document", <<
  Element("GroundOverlay", <<Say("name", "g"), Image("i"), Box(5, 0, 10, 0, <<>>)>>),
  Element("GroundOverlay", <<Image("j"), Gx("LatLonQuad", <<Coords(<<<<0, 0>>, <<4, 1>>, <<5, 5>>, <<1, 4>>>>)>>)>>),
  Element("PhotoOverlay", <<Image("p"), Element("Point", <<Say("altitudeMode", "absolute"), Coords(<<<<1, 2, 3>>>>)>>),
                            Say("shape", "rectangle")>>)>>)>>))

(* One with a schema, and values under it.                                 *)
Field(name, type, more) == Node("kml", "SimpleField", {Attr("", "type", type), Attr("", "name", name)} \cup more, Silent, <<>>)
Simple(name, text) == Node("kml", "SimpleData", {Attr("", "name", name)}, Words(text), <<>>)
SchemaOf(fields) == Node("kml", "Schema", {Attr("", "id", "s")}, Silent, fields)
Typed1 == Element("Placemark", <<Element("ExtendedData",
  <<DataNamed("k", "1"),
    Node("kml", "SchemaData", {Attr("", "schemaUrl", "#s")}, Silent, <<Simple("n", "05"), Simple("flag", "1"), Simple("x", "5e0")>>)>>)>>)

Schemed == Document("none", KmlRoot({}, <<Element("Document",
  <<SchemaOf(<<Field("n", "int", {}), Field("flag", "bool", {}), Field("x", "double", {})>>), Typed1>>)>>))

(* A 2.3 document with what 2.2 spells otherwise, orders, or has no place  *)
(* for.                                                                    *)
Later1 == Noted(Element("Placemark",
  <<Element("Track", <<Leaf("coord", Numbers(<<<<1, 2>>>>)), Say("when", "2024-05-01"), Say("seaFloorAltitudeMode", "clampToSeaFloor"),
                       Leaf("coord", Numbers(<<<<3, 4>>>>)), Say("when", "2024")>>),
    Element("ExtendedData", <<Node("kml", "Data", {Attr("", "name", "k"), Attr("", "uom", "m")}, Silent, <<Say("value", "1")>>)>>),
    Say("name", "t"), Author>>), <<Note(2, "of name")>>)

Later2 == Element("Placemark",
  <<Element("Region", <<Box(5, 0, 9, 1, <<Leaf("rotation", Figure(0))>>)>>),
    Element("LookAt", <<Element("TimeStamp", <<Say("when", "2024")>>), Leaf("longitude", Figure(1))>>),
    Say("balloonVisibility", "1"), Element("TimeStamp", <<Say("when", "2024")>>), Element("Point", <<Coords(<<<<1, 2>>>>)>>)>>)

Later3 == Noted(Element("GroundOverlay",
  <<Element("LatLonAltBox", <<Leaf("north", Figure(5))>>), Image("i"), Element("Region", <<Box(5, 0, 9, 1, <<Leaf("rotation", Figure(90))>>)>>)>>),
  <<Note(0, "of box"), Note(2, "of region")>>)

Later == Document("ogc", KmlRoot(Stamp("2.3"), <<
  Element("NetworkLinkControl", <<Element("Update", <<Say("targetHref", "u"), Element("Create", <<Element("MultiGeometry", <<>>)>>)>>)>>),
  Element("Document", <<Later1, SchemaOf(<<Field("n", "int", {Attr("", "uom", "m")})>>), Later2, Later3,
    Element("Metadata", <<Say("name", "z"), Element("Tour", <<>>)>>),
    Element("Tour", <<Element("Playlist", <<Element("Wait", <<Say("duration", "5")>>)>>)>>)>>)>>))

(* A 2.2 document of Google's elements.                                    *)
Snippet(lines) == Node("kml", "Snippet", {Attr("", "maxLines", lines)}, Words("s"), <<>>)
Google1 == Element("Placemark",
  <<Snippet("2"), GxSay("duration", "5"), GxSay("balloonVisibility", "1"), Element("TimeStamp", <<Say("when", "2024-05-01T10:00:00")>>),
    Gx("Track", <<GxSay("altitudeMode", "clampToSeaFloor"), Say("when", "2024"), Say("when", "2024-05"),
                  GxCoord(<<1, 2>>), GxCoord(<<3, 4>>)>>)>>)
Google2 == Element("Placemark",
  <<Snippet("5"),
    Element("Point", <<GxSay("altitudeOffset", "1"), GxSay("altitudeMode", "relativeToSeaFloor"), Coords(<<<<1, 2, 3>>>>)>>)>>)

Googled == Document("google", KmlRoot({}, <<Element("Folder", <<Element("Metadata", <<Kept1>>), Google1, Google2,
  Gx("Tour", <<Gx("Playlist", <<Gx("Wait", <<GxSay("duration", "5")>>)>>)>>)>>)>>))

(* A placemark with no document about it.                                  *)
Bare(attrs, more) == Document("none", KmlRoot(attrs, <<Element("Placemark",
  <<Say("name", "r")>> \o more \o <<Element("Polygon", <<Element("outerBoundaryIs", <<Element("LinearRing",
      <<Coords(<<<<0, 0>>, <<4, 0>>, <<4, 4>>, <<0, 0>>>>)>>)>>)>>)>>)>>))

Kml1(doc) == File("Kml", <<Entry("doc.kml", <<doc>>)>>)

(* An overlay, and a footprint that winds the other way.                   *)
FootprintFiles == {Kml1(Document("ogc", KmlRoot({}, <<Element("GroundOverlay", <<Image("i"), Box(5, 0, 10, 0, <<>>)>>)>>)))}
FootprintShapes == {<<Geometry("Polygon", <<Flat(<<<<10, 0>>, <<0, 0>>, <<0, 5>>, <<10, 5>>, <<10, 0>>>>)>>)>>}

(* A layered archive: its first document only links to the others.         *)
Linking == Document("ogc", KmlRoot({}, <<Element("Document",
  <<Element("NetworkLink", <<Element("Link", <<Say("href", "layers/a.kml")>>)>>)>>)>>))
Layer(type) == Document("ogc", KmlRoot(Stamp("2.3"), <<Element("Document",
  <<SchemaOf(<<Field("n", type, {})>>),
    Element("Placemark", <<Element("ExtendedData", <<Node("kml", "SchemaData", {Attr("", "schemaUrl", "#s")}, Silent, <<Simple("n", "1")>>)>>),
                           Element("Point", <<Say("seaFloorAltitudeMode", "clampToSeaFloor"), Coords(<<<<1, 2, 3>>>>)>>)>>)>>)>>))

Layered == File("Kmz", <<Entry("images/i.png", <<>>), Entry("doc.kml", <<Linking>>),
                         Entry("layers/a.kml", <<Layer("int")>>), Entry("layers/b.kml", <<Bare({}, <<>>)>>),
                         Entry("layers/c.kml", <<Layer("bool")>>)>>)

Refused == {
  Kml1(Document("older", KmlRoot({}, <<>>))), Kml1(Document("ogc", KmlRoot(Stamp("2.4"), <<>>))),
  Kml1(Document("ogc", KmlRoot({}, <<Element("Placemark", <<Element("Point", <<Coords(<<>>)>>)>>)>>))),
  File("Kmz", <<Entry("a.png", <<>>)>>),
  File("Kmz", <<Entry("doc.kml", <<Linking>>), Entry("b.kml", <<Document("other", Node("x", "kml", {}, Silent, <<>>))>>)>>)}

MCFiles == {Kml1(Placemarks), Kml1(Overlays), Kml1(Schemed), Kml1(Later), Kml1(Googled), 
            Kml1(Bare({}, <<Say("balloonVisibility", "1")>>)), Layered} \cup Refused

-----------------------------------------------------------------------------
Quad == Flat(<<<<0, 0>>, <<6, 0>>, <<6, 4>>, <<0, 4>>, <<0, 0>>>>)
Slanted == Flat(<<<<0, 0>>, <<6, 1>>, <<6, 4>>, <<0, 4>>, <<0, 0>>>>)

MCValues == {Property("name", Text("z")), Property("timestamp", Text("2024-05-01T10:00:00")),
             Property("end", Text("2024")), Property("icon", Text("q")),
             Property("altitudeMode", Text("relativeToGround")), Property("tessellate", Text("0")),
             Property("k", Text("9")), Property("n", Value("Int", "40000"))}

MCShapes == {<<>>, <<At(7, 8, <<>>)>>, <<Geometry("LineString", Flat(<<<<0, 1>>, <<2, 3>>>>))>>,
             <<Geometry("Polygon", <<Quad>>)>>, <<Geometry("Polygon", <<Slanted>>)>>}

Elsewhere(features, declarations) ==
  [features |-> features, declarations |-> declarations, crs |-> "Wgs84", source |-> <<>>]
Fresh(properties, geometry) == [properties |-> properties, geometry |-> geometry, model |-> <<>>]

MCCollections == {
  Elsewhere(<<Fresh(<<Property("n", Value("Int", "5")), Property("name", Text("a"))>>, <<At(1, 2, <<3>>)>>),
              Fresh(<<Property("n", Value("Int", "40000")), Property("n", Value("Int", "1"))>>, <<>>)>>,
            {[name |-> "n", decl |-> "Int32"]}),
  Elsewhere(<<Fresh(<<Property("n", Value("Int", "40000"))>>, <<>>)>>, {[name |-> "n", decl |-> "Int16"]}),
  Elsewhere(<<Fresh(<<Property("x", Value("Float", "2.5")), Property("seaFloorAltitudeMode", Text("clampToSeaFloor"))>>,
                    <<At(1, 2, <<3>>)>>)>>, {[name |-> "x", decl |-> "Float64"]})}
=============================================================================
