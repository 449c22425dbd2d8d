---------------------------- MODULE ShapefileSet ----------------------------
(***************************************************************************)
(* The .shp and .dbf of a Shapefile: shapefile/geometry.rs, shapefile/dbf.rs *)
(* and the reader and writer that pair them. A record is a TLA+ record of   *)
(* the arrays it holds; the widths of dBase are scaled down with FieldCap   *)
(* for 255, NameCap for the 10 bytes of a name and FallbackDecimals for 15. *)
(***************************************************************************)
EXTENDS Cells, CrsIdentity, Geometries

FieldCap == 12
FallbackDecimals == 3

-----------------------------------------------------------------------------
(* geometry.rs. NoData stands for every m at or below -1e38.               *)
NoData == -1000
MValue(m) == IF m = <<>> THEN NoData ELSE m[1]
MOrNone(v) == IF v <= NoData THEN <<>> ELSE <<v>>

SignedArea(ring) ==
  LET next(i) == ring[(i % Len(ring)) + 1]
  IN  FoldLeft(LAMBDA a, b : a + b, 0,
               [i \in DOMAIN ring |-> ring[i].x * next(i).y - next(i).x * ring[i].y])

IsClockwise(ring) == SignedArea(ring) < 0

EnsureWinding(ring, clockwise) == IF IsClockwise(ring) = clockwise THEN ring ELSE Reverse(ring)

(* Mutant of PolygonRings: the rings are written as they wind. *)
PolygonRingsAsTheyAre(rings) == rings

(* An outer ring is clockwise, its holes are not.                          *)
PolygonRings(rings) == [i \in DOMAIN rings |-> EnsureWinding(rings[i], i = 1)]

(* A clockwise ring starts a polygon, any other is a hole of the last one.  *)
ClassifyRings(rings) ==
  LET place(polys, ring) ==
        IF polys = <<>> \/ IsClockwise(ring) THEN Append(polys, <<ring>>)
        ELSE [polys EXCEPT ![Len(polys)] = Append(@, ring)]
      polys == FoldLeft(place, <<>>, rings)
  IN  IF Len(polys) > 1 THEN Geometry("MultiPolygon", polys)
      ELSE Geometry("Polygon", IF polys = <<>> THEN <<>> ELSE polys[1])

ShapeType(g) ==
  CASE g.type \in {"Point", "MultiPoint"} -> g.type
    [] g.type \in {"LineString", "MultiLineString"} -> "PolyLine"
    [] g.type \in {"Polygon", "MultiPolygon"} -> "Polygon"
    [] OTHER -> "none"

Given(geometries) == {geometries[i][1] : i \in {j \in DOMAIN geometries : geometries[j] # <<>>}}

(* One shape type per file, and no collection.                             *)
ShpRefused(geometries) ==
  LET types == {ShapeType(g) : g \in Given(geometries)}
  IN  "none" \in types \/ Cardinality(types) > 1

(* write_z_section and write_m_section: a range, then a value per point.    *)
RangeOf(values) == IF values = {} THEN <<0, 0>> ELSE <<LeastOf(values), GreatestOf(values)>>

ZSection(ps) ==
  LET z(i) == IF ps[i].z = <<>> THEN 0 ELSE ps[i].z[1]
  IN  [range |-> RangeOf({z(i) : i \in DOMAIN ps}), values |-> [i \in DOMAIN ps |-> z(i)]]

MSection(ps) ==
  [range |-> RangeOf({ps[i].m[1] : i \in {j \in DOMAIN ps : ps[j].m # <<>>}}),
   values |-> [i \in DOMAIN ps |-> MValue(ps[i].m)]]

EncodeParts(type, parts, dim) ==
  LET all == FlattenSeq(parts)
      start[i \in 0..Len(parts)] == IF i = 0 THEN 0 ELSE start[i - 1] + Len(parts[i])
  IN  [type |-> type, dim |-> dim, box |-> BoxOf(all),
       starts |-> [i \in DOMAIN parts |-> start[i - 1]],
       xy |-> [i \in DOMAIN all |-> <<all[i].x, all[i].y>>],
       z |-> IF dim.z THEN <<ZSection(all)>> ELSE <<>>,
       m |-> IF dim.m THEN <<MSection(all)>> ELSE <<>>]

EncodeShape(geometry, dim) ==
  IF geometry = <<>> THEN <<>>
  ELSE LET g == geometry[1]
           rings == IF g.type = "MultiPolygon"
                    THEN FlattenSeq([i \in DOMAIN g.of |-> PolygonRings(g.of[i])])
                    ELSE PolygonRings(g.of)
       IN  <<EncodeParts(ShapeType(g),
               CASE g.type = "Point" -> <<<<g.of>>>>
                 [] g.type \in Lines -> <<g.of>>
                 [] g.type = "MultiLineString" -> g.of
                 [] OTHER -> rings,
               dim)>>

(* The dimension, the box and the z and m ranges are the file's.           *)
WriteShp(geometries) ==
  LET given == Given(geometries)
      dim == [z |-> \E g \in given : HasZ(g), m |-> \E g \in given : HasM(g)]
      all == FlattenSeq([i \in DOMAIN geometries |->
               IF geometries[i] = <<>> THEN <<>> ELSE Positions(geometries[i][1])])
      zs == IF dim.z THEN ZSection(all).range ELSE <<0, 0>>
      ms == IF dim.m THEN MSection(all).range ELSE <<0, 0>>
  IN  [type |-> IF given = {} THEN "Null" ELSE ShapeType(CHOOSE g \in given : TRUE),
       dim |-> dim, box |-> BoxOf(all), z |-> zs, m |-> ms,
       records |-> [i \in DOMAIN geometries |-> EncodeShape(geometries[i], dim)]]

(* decode_shape: the m section is there when the record is long enough.     *)
DecodeShape(record) ==
  LET r == record[1]
      point(i) == Position(r.xy[i][1], r.xy[i][2],
                           IF r.z = <<>> THEN <<>> ELSE <<r.z[1].values[i]>>,
                           IF r.m = <<>> THEN <<>> ELSE MOrNone(r.m[1].values[i]))
      points == [i \in DOMAIN r.xy |-> point(i)]
      end(k) == IF k = Len(r.starts) THEN Len(points) ELSE r.starts[k + 1]
      parts == [k \in DOMAIN r.starts |-> SubSeq(points, r.starts[k] + 1, end(k))]
  IN  CASE record = <<>> -> <<>>
        [] r.type = "Point" -> <<Geometry("Point", points[1])>>
        [] r.type = "MultiPoint" -> <<Geometry("MultiPoint", points)>>
        [] r.type = "PolyLine" ->
             <<IF Len(parts) = 1 THEN Geometry("LineString", parts[1])
               ELSE Geometry("MultiLineString", parts)>>
        [] OTHER -> <<ClassifyRings(parts)>>

-----------------------------------------------------------------------------
(* dbf.rs: the field of a column. The type is L, D, N or C; the length is   *)
(* what the widest cell needs or what was declared, whichever is more.      *)
Field(name, type, len, decimals) == [name |-> name, type |-> type, len |-> len, decimals |-> decimals]

Capped(n) == IF n > FieldCap THEN FieldCap ELSE n
AtLeast(n, least) == IF n < least THEN least ELSE n

CellsOf(column, kind) == {c \in {column.cells[i] : i \in DOMAIN column.cells} : c.kind = kind}

Widest(sizes, none) == IF sizes = {} THEN none ELSE GreatestOf(sizes)

DeclaredPart(column, part) == IF column.decl = <<>> THEN <<>> ELSE column.decl[1][part]

(* Bytes of a number with d decimals.                                      *)
FixedSize(h, d) == Digits(Truncated(ToDecimals(h, d))) + (IF d = 0 THEN 0 ELSE 1 + d)

Decimals(column) ==
  LET whole == Widest({FixedSize(c.v, 0) : c \in CellsOf(column, "float")}, 1)
      room == AtLeast(FieldCap - (whole + 1), 0)
      declared == DeclaredPart(column, "scale")
  IN  IF declared # <<>> THEN declared[1]
      ELSE IF room < FallbackDecimals THEN room ELSE FallbackDecimals

NumberSize(column) ==
  LET d == Decimals(column)
  IN  AtLeast(Widest({FixedSize(c.v, d) : c \in CellsOf(column, "float")}, d + 2), d + 2)

DbfField(column) ==
  LET sized(size, part) == DeclaredOr(DeclaredPart(column, part), size)
  IN  CASE Declared(column) = <<"Bool">> \/ (Declared(column) # <<"Date">> /\ column.ty = "bool") ->
             Field(column.name, "L", 1, 0)
        [] Declared(column) = <<"Date">> -> Field(column.name, "D", 8, 0)
        [] OTHER ->
             CASE column.ty = "int" ->
                    Field(column.name, "N",
                          Capped(sized(Capped(AtLeast(Widest({Digits(c.v) : c \in CellsOf(column, "int")}, 1), 1)),
                                       "precision")), 0)
               [] column.ty = "float" ->
                    Field(column.name, "N", Capped(sized(NumberSize(column), "precision")),
                          Decimals(column))
               [] OTHER ->
                    Field(column.name, "C",
                          AtLeast(Capped(sized(Widest({c.len : c \in CellsOf(column, "text")}, 1), "width")), 1), 0)

(* A number too wide for a field is refused, as are two columns whose names *)
(* are cut to one.                                                         *)
DbfRefused(columns, cut) ==
  \/ \E i \in DOMAIN columns :
       Declared(columns[i]) \notin {<<"Bool">>, <<"Date">>} /\ columns[i].ty = "float"
         /\ NumberSize(columns[i]) > FieldCap
  \/ \E i, j \in DOMAIN columns : i # j /\ cut[columns[i].name] = cut[columns[j].name]

(* truncate_at_char_boundary, then trim_end by the reader.                 *)
Cut(text, len) ==
  IF text.len <= len THEN text ELSE Text("cut", text.v, len)

Blank == Text("blank", 0, 0)

(* write_cell: the characters of a cell.                                   *)
WriteCell(field, cell) ==
  CASE field.type = "L" -> IF cell.kind = "bool" THEN cell ELSE Blank
    [] field.type = "N" /\ cell.kind = "int" -> IntText(cell.v)
    [] field.type = "N" /\ cell.kind = "float" -> FloatText(ToDecimals(cell.v, field.decimals))
    [] field.type = "C" /\ cell.kind = "text" -> Cut(cell, field.len)
    [] field.type = "D" /\ cell.kind = "text" /\ cell.as = "date" -> cell
    [] OTHER -> Blank

(* decode_field: blanks in a character field are the empty text.           *)
DecodeField(field, chars) ==
  CASE field.type = "C" -> IF chars = Blank THEN Empty ELSE chars
    [] field.type = "N" /\ chars # Blank ->
         IF field.decimals = 0
         THEN Whole(IF chars.as = "int" THEN chars.v ELSE Truncated(chars.v))
         ELSE IF chars.as = "int" THEN Decimal(100 * chars.v) ELSE Decimal(chars.v)
    [] chars = Blank -> Null
    [] OTHER -> chars

(* read_schema.                                                            *)
FieldDecl(field) ==
  LET d == Decl(field.name,
                CASE field.type = "L" -> <<"Bool">> [] field.type = "D" -> <<"Date">>
                  [] field.type = "C" -> <<"String">>
                  [] OTHER -> IF field.decimals = 0 THEN <<"Int64">> ELSE <<"Float64">>)
  IN  IF field.type = "N" THEN [d EXCEPT !.precision = <<field.len>>, !.scale = <<field.decimals>>]
      ELSE [d EXCEPT !.width = <<field.len>>]

-----------------------------------------------------------------------------
ShapefileRefused(layer, cut) ==
  \/ ShpRefused([r \in DOMAIN layer.rows |-> layer.rows[r].geometry])
  \/ DbfRefused(ColumnsFor(layer), cut)

WriteShapefile(layer, cut) ==
  LET columns == ColumnsFor(layer)
      fields == [i \in DOMAIN columns |-> DbfField(columns[i])]
  IN  [shp |-> WriteShp([r \in DOMAIN layer.rows |-> layer.rows[r].geometry]),
       prj |-> PrjWkt(layer.crs),
       fields |-> [i \in DOMAIN fields |-> [fields[i] EXCEPT !.name = cut[@]]],
       records |-> [r \in DOMAIN layer.rows |->
                      [i \in DOMAIN fields |-> WriteCell(fields[i], columns[i].cells[r])]]]

(* With no column there is no record in the .dbf, whatever the .shp holds.  *)
DbfCount(set) == IF set.fields = <<>> THEN 0 ELSE Len(set.records)

ShapefileUnreadable(set) == DbfCount(set) # Len(set.shp.records)

ReadShapefile(set) ==
  LET values == [r \in DOMAIN set.shp.records |->
                   [i \in DOMAIN set.fields |-> DecodeField(set.fields[i], set.records[r][i])]]
  IN  [rows |-> RowsOf([i \in DOMAIN set.fields |-> set.fields[i].name], values,
                       [r \in DOMAIN set.shp.records |-> DecodeShape(set.shp.records[r])]),
       schema |-> [i \in DOMAIN set.fields |-> FieldDecl(set.fields[i])],
       crs |-> ReadPrj(set.prj), name |-> <<>>, native |-> <<>>]

=============================================================================
