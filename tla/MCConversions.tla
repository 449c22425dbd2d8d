--------------------------- MODULE MCConversions ---------------------------
(* Conversions on layers that differ from a plain one in their geometries,  *)
(* in one column and its declaration, in their reference system or in what *)
(* an earlier reader kept for its own format.                              *)
EXTENDS Conversions

XYs(ps) == [i \in DOMAIN ps |-> Position(ps[i][1], ps[i][2], <<>>, <<>>)]
At(x, y) == Geometry("Point", Position(x, y, <<>>, <<>>))
Raised(p, z, m) == [p EXCEPT !.z = z, !.m = m]

Square(low, high) == XYs(<<<<low, low>>, <<high, low>>, <<high, high>>, <<low, high>>, <<low, low>>>>)
Line == XYs(<<<<0, 0>>, <<3, 1>>>>)
Measured == [i \in 1..2 |-> Raised(Line[i], <<i>>, <<7 - i>>)]

GeometryLists ==
  <<<<At(1, 2), At(3, 4)>>,
    <<Geometry("Point", Raised(Line[1], <<5>>, <<>>)), Geometry("Point", Raised(Line[2], <<6>>, <<>>))>>,
    <<Geometry("Point", Raised(Line[1], <<>>, <<5>>)), At(2, 2)>>,
    <<Geometry("LineString", Measured), Geometry("MultiLineString", <<Line, Reverse(Line)>>)>>,
    <<Geometry("LineString", <<Line[1], Raised(Line[2], <<4>>, <<>>)>>)>>,
    <<Geometry("MultiPoint", Measured), Geometry("MultiPoint", Line)>>,
    <<Geometry("MultiLineString", <<Line>>), Geometry("LineString", Line)>>,
    <<Geometry("Polygon", <<Square(0, 9), Square(1, 3)>>)>>,
    <<Geometry("MultiPolygon", <<<<Square(0, 9), Square(1, 3), Reverse(Square(4, 6))>>, <<Square(20, 25)>>>>),
      Geometry("Polygon", <<Reverse(Square(0, 2))>>)>>,
    <<Geometry("MultiPolygon", <<<<Square(0, 2)>>>>)>>,
    <<Geometry("GeometryCollection", <<At(1, 2), Geometry("LineString", Measured)>>)>>>>

-----------------------------------------------------------------------------
Date(n) == Text("date", n, 8)
Time(n) == Text("time", n, 20)
WordOf(n, len) == Text("word", n, len)

Sized(d, part, n) == [d EXCEPT ![part] = <<n>>]

(* A column: its values row by row and what is declared of it.             *)
Column(values, decl) == [values |-> values, decl |-> decl]
Typed2(a, b, ty) == Column(<<a, b>>, <<Decl("a", <<ty>>)>>)

Columns ==
  {Column(<<Whole(1), Whole(2)>>, <<>>),
   Typed2(Whole(-2), Whole(1), "Int8"), Typed2(Whole(3), Null, "UInt8"), Typed2(Whole(7), Whole(0), "UInt16"),
   Typed2(Whole(-4), Whole(3), "Int16"), Typed2(Whole(7), Whole(-8), "Int32"), Typed2(Whole(12), Whole(1), "UInt32"),
   Typed2(Whole(15), Null, "UInt64"), Typed2(Whole(-16), Whole(15), "Int64"),
   Typed2(Whole(3), Whole(-3), "Int8"), Typed2(Whole(12), Whole(-1), "UInt32"),
   Typed2(Decimal(25), Decimal(150), "Float32"), Typed2(Decimal(110), Decimal(200), "Float64"),
   Typed2(Null, Null, "Int32"), Typed2(Null, Null, "Date"), Typed2(Null, Null, "Bool"), Typed2(Null, Null, "Float32"),
   Typed2(Date(1), Date(2), "Date"), Typed2(Date(1), Null, "Date"), Typed2(Date(1), WordOf(2, 4), "Date"),
   Typed2(Text("baddate", 3, 10), Null, "Date"),
   Typed2(Time(1), Null, "DateTime"), Typed2(Time(1), WordOf(1, 3), "DateTime"),
   Typed2(Truth(TRUE), Null, "Bool"), Typed2(Truth(TRUE), Whole(1), "Bool"),
   Typed2(Bytes(1), Null, "Binary"), Typed2(Nested(1), Nested(2), "Json"), Typed2(WordOf(1, 4), Empty, "String"),
   Column(<<Whole(1), Decimal(150)>>, <<>>), Column(<<Null, Whole(5)>>, <<>>),
   Column(<<Decimal(150), Truth(TRUE)>>, <<>>), Column(<<WordOf(1, 3), Decimal(200)>>, <<>>),
   Column(<<Nested(1), Whole(1)>>, <<>>), Column(<<Text("padint", 7, 3), Text("int", 8, 1)>>, <<>>),
   Column(<<Text("shoutbool", 1, 4), Text("bool", 0, 5)>>, <<>>), Column(<<Text("bool", 1, 4), Text("int", 4, 1)>>, <<>>),
   Column(<<WordOf(1, 14), WordOf(2, 4)>>, <<>>), Column(<<Bytes(1), Bytes(2)>>, <<>>),
   Column(<<WordOf(1, 3), Null>>, <<Sized(Decl("a", <<"String">>), "width", 6)>>),
   Column(<<Whole(4), Whole(15)>>,
          <<Sized(Sized(Decl("a", <<"Int64">>), "precision", 5), "scale", 0)>>),
   Column(<<Decimal(150), Null>>,
          <<Sized(Sized(Sized(Decl("a", <<"Float64">>), "precision", 7), "scale", 1), "nullable", FALSE)>>),
   Column(<<Whole(4), Whole(5)>>,
          <<Sized(Sized(Decl("a", <<"Int64">>), "unique", TRUE), "key", TRUE)>>)}

-----------------------------------------------------------------------------
Degrees == Geographic("datum", <<>>, "degree", 2, <<>>)
Etrs == [Degrees EXCEPT !.id = <<Id("EPSG", Code(4258))>>]
Ensemble == [Degrees EXCEPT !.datum = "ensemble", !.id = <<Id("EPSG", Code(4979))>>]

Mercator(name, id) == <<[name |-> name, id |-> id]>>
Projected(form, geo, method, id) ==
  Definition(form, "projected", geo, method, <<"east", "north">>, "metre", id)

EpsgMethod(n) == <<Id("EPSG", Code(n))>>

(* 9807 is in the tables and 9999 is not.                                  *)
Systems ==
  {<<>>, <<Wgs84>>,
   <<Named(<<"EPSG">>, <<Code(3857)>>, <<>>, <<>>)>>,
   <<Named(<<"EPSG">>, <<Code(4258)>>, <<GeographicIn("WKT1", Etrs)>>, <<>>)>>,
   <<Named(<<"IGNF">>, <<Worded(7)>>, <<Projected("WKT1", Degrees, Mercator(9807, <<>>), <<>>)>>, <<>>)>>,
   <<FromDefinitionText(Projected("WKT1", Degrees, Mercator(9807, <<>>), <<>>))>>,
   <<FromDefinitionText(Projected("WKT1", Degrees, Mercator(9999, <<>>), <<>>))>>,
   <<FromDefinitionText(GeographicIn("WKT2", Ensemble))>>,
   <<CrsFromProjjson(Projected("PROJJSON", Etrs, Mercator(9807, EpsgMethod(9807)), <<Id("EPSG", Code(25832))>>))>>,
   <<CrsFromProjjson(IdOnly(Egm96))>>}

MCOverrides ==
  {Projected("PROJJSON", Etrs, Mercator(9807, EpsgMethod(9807)), <<Id("EPSG", Code(25833))>>),
   Projected("WKT2", Etrs, Mercator(9807, EpsgMethod(9807)), <<Id("EPSG", Code(25833))>>)}

-----------------------------------------------------------------------------
Row(geometry, props, native) == [geometry |-> geometry, props |-> props, native |-> native]
Prop(name, value) == [name |-> name, value |-> value]

LayerOf(geometries, column, crs, native) ==
  [rows |-> [r \in DOMAIN geometries |-> Row(<<geometries[r]>>, <<Prop("a", column.values[r])>>, <<>>)],
   schema |-> column.decl, crs |-> crs, name |-> <<WordOf(9, 5)>>, native |-> native]

PlainColumn == Column(<<Whole(1), Whole(2)>>, <<>>)
PlainGeometries == GeometryLists[1]
Plain == LayerOf(PlainGeometries, PlainColumn, <<>>, <<>>)

Members2 == <<Member("title", WordOf(3, 5)), Member("title", WordOf(4, 5))>>

Carried(columns) ==
  ParquetNative(<<KeyValue("ARROW:schema", "schema"), KeyValue("gdal:metadata", "more")>>, <<"ccw">>, columns)

(* Rows that have no geometry or no value, an attribute of a name that dBase *)
(* cuts, two such that it cuts to one, a name repeated in a row, and what   *)
(* GeoJSON's and GeoParquet's readers keep.                                *)
Odd ==
  {[Plain EXCEPT !.rows[2] = Row(<<>>, <<Prop("a", Whole(3))>>, <<>>)],
   [Plain EXCEPT !.rows[1] = Row(<<>>, <<Prop("a", Null)>>, <<>>)],
   [Plain EXCEPT !.rows[1].props = <<Prop("inhabitants", Whole(3))>>],
   [Plain EXCEPT !.rows[1].props = <<Prop("inhabitants", Whole(3)), Prop("inhabitantsOld", Whole(3))>>],
   [Plain EXCEPT !.rows[1].props = <<Prop("a", Whole(3)), Prop("a", Decimal(150))>>],
   [Plain EXCEPT !.rows[1].props = <<>>, !.rows[2].props = <<>>],
   [Plain EXCEPT !.rows[1].native = <<[format |-> "GeoJson", payload |-> Members2]>>,
                 !.native = <<[format |-> "GeoJson", payload |-> Members2]>>],
   [Plain EXCEPT !.native = <<[format |-> "Parquet", payload |-> Carried(<<"a">>)]>>],
   [Plain EXCEPT !.native = <<[format |-> "Parquet", payload |-> Carried(<<"b">>)]>>],
   [Plain EXCEPT !.native = <<[format |-> "FlatGeobuf", payload |-> "title"]>>]}

MCSources ==
  {LayerOf(GeometryLists[i], PlainColumn, <<Wgs84>>, <<>>) : i \in DOMAIN GeometryLists}
    \union {LayerOf(PlainGeometries, column, <<>>, <<>>) : column \in Columns}
    \union {LayerOf(PlainGeometries, PlainColumn, crs, <<>>) : crs \in Systems}
    \union Odd

-----------------------------------------------------------------------------
(* A column plain, optional, in structures, in lists of three levels, of    *)
(* two and of one, and in lists of structures of one field.                *)
Paths ==
  {<<"REQUIRED">>, <<"OPTIONAL">>, <<"OPTIONAL", "OPTIONAL">>, <<"REQUIRED", "OPTIONAL">>,
   <<"OPTIONAL", "REPEATED", "OPTIONAL">>, <<"REQUIRED", "REPEATED", "OPTIONAL">>,
   <<"OPTIONAL", "REPEATED", "REQUIRED">>, <<"REPEATED">>, <<"OPTIONAL", "REPEATED">>,
   <<"OPTIONAL", "REPEATED", "OPTIONAL", "OPTIONAL">>}

Layouts ==
  [per : {1, 2, 9}, type : {"DATA_PAGE", "DATA_PAGE_V2"}, runs : {"repeats", "packed"},
   values : {"plain", "dictionary", "fallback"}, groups : {1, 2}]

(* Every file on one of these wires, by the parity of what else it is.      *)
Wires ==
  <<Wire("SNAPPY", <<>>, TRUE, "geo"), Wire("LZ4_RAW", <<TRUE>>, FALSE, "type"),
    Wire("UNCOMPRESSED", <<FALSE>>, TRUE, "type"), Wire("SNAPPY", <<FALSE>>, FALSE, "geo")>>

WireOf(path, layout) ==
  Wires[1 + ((Len(path) + layout.per + 2 * layout.groups + (IF layout.runs = "packed" THEN 1 ELSE 0)) % Len(Wires))]

ListOf(inner) == <<SchemaNode("a", "OPTIONAL", Blob, <<>>, <<SchemaNode("list", "REPEATED", Blob, <<>>, inner)>>)>>
Element1 == Elements(<<"element">>, <<"OPTIONAL">>, <<>>)
Shaped(name) == SchemaNode(name, "OPTIONAL", Blob, GeometryType(<<>>), <<>>)
Opaque(name) == SchemaNode(name, "OPTIONAL", Blob, <<>>, <<>>)

(* What is refused for its schema or its metadata: a list of structures, a  *)
(* list of lists, a geometry in a list, two native geometries, two in the   *)
(* metadata, and row groups that disagree.                                 *)
Refused ==
  [structures |-> UnreadOf(ListOf(<<Element1, Elements(<<"other">>, <<"OPTIONAL">>, <<>>)>>),
                           <<<<<<"a", "list", "element">>>>>>, <<>>),
   nested |-> UnreadOf(ListOf(ListOf(<<Element1>>)), <<<<<<"a", "list", "a", "list", "element">>>>>>, <<>>),
   listed |-> UnreadOf(<<Elements(<<"geometry">>, <<"REPEATED">>, <<>>)>>, <<<<<<"geometry">>>>>>, <<>>),
   native |-> UnreadOf(<<Shaped("geometry"), Shaped("b")>>, <<<<<<"geometry">>, <<"b">>>>>>, <<>>),
   second |-> UnreadOf(<<Opaque("geometry"), Opaque("b")>>, <<<<<<"b">>>>>>, <<"geometry", "b">>),
   groups |-> UnreadOf(<<Opaque("geometry"), Opaque("b")>>,
                       <<<<<<"geometry">>, <<"b">>>>, <<<<"geometry">>>>>>, <<>>)]

PlainLayout == [per |-> 9, type |-> "DATA_PAGE", runs |-> "repeats", values |-> "plain", groups |-> 1]
ToDamage ==
  [path |-> <<"OPTIONAL", "REPEATED", "OPTIONAL">>, layout |-> PlainLayout, wire |-> Wire("SNAPPY", <<>>, FALSE, "type"),
   crs |-> <<>>]

MCForeign ==
  {[path |-> path, layout |-> layout, wire |-> WireOf(path, layout),
    crs |-> IF layout.per = 1 THEN <<IdOnly(Egm96)>> ELSE <<>>] : path \in Paths, layout \in Layouts}

MCSpoilt ==
  [how \in Damages \union DOMAIN Refused |->
     IF how \in Damages THEN Damaged(FileOf(ToDamage).file, how) ELSE Refused[how]]

MCCutNames == [inhabitants |-> "inhabitant", inhabitantsOld |-> "inhabitant"]

(* A projected system without an id over a base that has one.              *)
Anonymous == Projected("PROJJSON", Etrs, Mercator(9807, EpsgMethod(9807)), <<>>)
NoFile == <<>>

BaseOnly == {Anonymous}
=============================================================================
