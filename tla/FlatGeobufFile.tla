--------------------------- MODULE FlatGeobufFile ---------------------------
(***************************************************************************)
(* A FlatGeobuf file as flatgeobuf/writer.rs builds it from a layer and    *)
(* flatgeobuf/reader.rs takes it apart: the header, the columns, and per   *)
(* feature a geometry table and the values that are not null. The tables   *)
(* are records; a vector that is absent is an empty Option.                *)
(***************************************************************************)
EXTENDS Cells, CrsIdentity, Geometries

ColumnTypes == DeclTypes \ {"Date"}

DeclColumnType(ty) == IF ty = "Date" THEN "DateTime" ELSE ty

InferredColumnType ==
  [bool |-> "Bool", int |-> "Int64", float |-> "Float64", text |-> "String", bytes |-> "Binary"]

FgbColumnType(column) ==
  IF Declared(column) = <<>> THEN InferredColumnType[column.ty]
  ELSE DeclColumnType(Declared(column)[1])

(* write_decl: what is declared, a flag at its default leaving no trace.   *)
WrittenFlag(flag, default) == IF flag = <<>> THEN default ELSE flag[1]
WrittenSize(size) == IF size = <<>> THEN -1 ELSE size[1]

WriteDecl(decl) ==
  LET d == IF decl = <<>> THEN Decl("", <<>>) ELSE decl[1]
  IN  [width |-> WrittenSize(d.width), precision |-> WrittenSize(d.precision),
       scale |-> WrittenSize(d.scale), nullable |-> WrittenFlag(d.nullable, TRUE),
       unique |-> WrittenFlag(d.unique, FALSE), key |-> WrittenFlag(d.key, FALSE)]

(* read_decl: 0 is a size nobody declared, but a scale of 0 beside a        *)
(* precision is one.                                                       *)
ReadSize(n) == IF n > 0 THEN <<n>> ELSE <<>>
ReadFlag(flag, default) == IF flag = default THEN <<>> ELSE <<flag>>

ReadDecl(c) ==
  LET precision == ReadSize(c.decl.precision)
  IN  [name |-> c.name, ty |-> <<c.ty>>, width |-> ReadSize(c.decl.width), precision |-> precision,
       scale |-> IF precision # <<>> /\ c.decl.scale >= 0 THEN <<c.decl.scale>>
                 ELSE ReadSize(c.decl.scale),
       nullable |-> ReadFlag(c.decl.nullable, TRUE), unique |-> ReadFlag(c.decl.unique, FALSE),
       key |-> ReadFlag(c.decl.key, FALSE)]

-----------------------------------------------------------------------------
(* encode_geometry: a table with xy, z and m of all positions and, of more  *)
(* than one ring, the ends. Whether there is a z is the first position's.  *)
Flat(ps, dim) ==
  LET held(option) == IF option = <<>> THEN 0 ELSE option[1]
  IN  [xy |-> [i \in DOMAIN ps |-> <<ps[i].x, ps[i].y>>],
       z |-> IF dim.z THEN <<[i \in DOMAIN ps |-> held(ps[i].z)]>> ELSE <<>>,
       m |-> IF dim.m THEN <<[i \in DOMAIN ps |-> held(ps[i].m)]>> ELSE <<>>]

RingEnds(rings) ==
  LET end[i \in 0..Len(rings)] == IF i = 0 THEN 0 ELSE end[i - 1] + Len(rings[i])
  IN  [i \in DOMAIN rings |-> end[i]]

GeomTable(type, flat, ends, parts) == [type |-> type, flat |-> flat, ends |-> ends, parts |-> parts]

RingTable(type, rings) ==
  GeomTable(type, <<Flat(FlattenSeq(rings), DimOfRings(rings))>>,
            IF Len(rings) > 1 THEN <<RingEnds(rings)>> ELSE <<>>, <<>>)

RECURSIVE EncodeGeometry(_)
EncodeGeometry(g) ==
  CASE g.type = "Point"  -> GeomTable(g.type, <<Flat(<<g.of>>, DimOf(<<g.of>>))>>, <<>>, <<>>)
    [] g.type \in Lines  -> GeomTable(g.type, <<Flat(g.of, DimOfFirst(g.of))>>, <<>>, <<>>)
    [] g.type \in Rings  -> RingTable(g.type, g.of)
    [] g.type = "MultiPolygon" ->
         GeomTable(g.type, <<>>, <<>>, [i \in DOMAIN g.of |-> RingTable("Polygon", g.of[i])])
    [] OTHER -> GeomTable(g.type, <<>>, <<>>, [i \in DOMAIN g.of |-> EncodeGeometry(g.of[i])])

TablePositions(table) ==
  IF table.flat = <<>> THEN <<>>
  ELSE LET f == table.flat[1]
           at(vector, i) == IF vector = <<>> THEN <<>> ELSE <<vector[1][i]>>
       IN  [i \in DOMAIN f.xy |-> Position(f.xy[i][1], f.xy[i][2], at(f.z, i), at(f.m, i))]

(* split_rings: without ends there is one ring, even of nothing.           *)
SplitRings(ps, ends) ==
  IF ends = <<>> THEN <<ps>>
  ELSE [i \in DOMAIN ends[1] |->
          SubSeq(ps, (IF i = 1 THEN 0 ELSE ends[1][i - 1]) + 1, ends[1][i])]

RECURSIVE DecodeGeometry(_)
DecodeGeometry(table) ==
  LET ps == TablePositions(table)
  IN  Geometry(table.type,
        CASE table.type = "Point" -> ps[1]
          [] table.type \in Lines -> ps
          [] table.type \in Rings -> SplitRings(ps, table.ends)
          [] table.type = "MultiPolygon" ->
               [i \in DOMAIN table.parts |-> DecodeGeometry(table.parts[i]).of]
          [] OTHER -> [i \in DOMAIN table.parts |-> DecodeGeometry(table.parts[i])])

-----------------------------------------------------------------------------
(* encode_properties: the index of the column and the value in its width.  *)
EncodeCell(ty, cell) ==
  CASE ty \in Ints -> Whole(Wrapped(cell.v, ty))
    [] ty = "Float32" -> Decimal(Single(cell.v))
    [] OTHER -> cell

EncodeProperties(columns, row) ==
  LET held == SelectSeq([i \in DOMAIN columns |-> i], LAMBDA i : columns[i].cells[row] # Null)
  IN  [k \in DOMAIN held |->
         [column |-> held[k],
          value |-> EncodeCell(FgbColumnType(columns[held[k]]), columns[held[k]].cells[row])]]

(* decode_properties: every column is a property, null where nothing is.   *)
DecodeProperties(properties, columns) ==
  LET of(i) == SelectSeq(properties, LAMBDA p : p.column = i)
  IN  [i \in DOMAIN columns |->
         [name |-> columns[i].name, value |-> IF of(i) = <<>> THEN Null ELSE of(i)[Len(of(i))].value]]

(* build_crs and read_crs_and_extras: the code is a number, 0 for none; of  *)
(* three absent members there is no system.                                *)
BuildCrs(crs) ==
  IF crs = <<>> THEN <<>>
  ELSE LET c == crs[1]
           code == IF c.code # <<>> /\ c.code[1].numeric THEN c.code[1].n ELSE 0
           built == IF c.wgs84 THEN [org |-> <<"EPSG">>, code |-> 4326, wkt |-> <<>>]
                    ELSE [org |-> c.authority, code |-> code, wkt |-> AsWkt(c)]
           none == ~c.wgs84 /\ built.org = <<>> /\ built.wkt = <<>>
                     /\ (c.code = <<>> \/ ~c.code[1].numeric)
       IN  IF none THEN <<>> ELSE <<built>>

ReadCrs(built) ==
  IF built = <<>> \/ (built[1].org = <<>> /\ built[1].code = 0 /\ built[1].wkt = <<>>) THEN <<>>
  ELSE LET b == built[1]
           code == IF b.code = 0 THEN <<>> ELSE <<Code(b.code)>>
       IN  <<FromAuthorityCode(b.org, code, b.wkt, <<>>)>>

-----------------------------------------------------------------------------
(* The header names one geometry type where there is one; the file is       *)
(* indexed when it has features and each has a geometry.                   *)
HeaderType(rows) ==
  LET types == {rows[r].geometry[1].type : r \in {q \in DOMAIN rows : rows[q].geometry # <<>>}}
  IN  IF Cardinality(types) = 1 THEN CHOOSE t \in types : TRUE ELSE "Unknown"

Indexed(rows) == rows # <<>> /\ \A r \in DOMAIN rows : rows[r].geometry # <<>>

WriteFgb(layer) ==
  LET columns == ColumnsFor(layer)
      encoded(geometry) == IF geometry = <<>> THEN <<>> ELSE <<EncodeGeometry(geometry[1])>>
      extras == IF layer.native # <<>> /\ layer.native[1].format = "FlatGeobuf" THEN layer.native ELSE <<>>
  IN  [type |-> HeaderType(layer.rows), indexed |-> Indexed(layer.rows),
       crs |-> BuildCrs(layer.crs), name |-> layer.name, extras |-> extras,
       columns |-> [i \in DOMAIN columns |->
                      [name |-> columns[i].name, ty |-> FgbColumnType(columns[i]),
                       decl |-> WriteDecl(columns[i].decl)]],
       features |-> [r \in DOMAIN layer.rows |->
                       [geometry |-> encoded(layer.rows[r].geometry),
                        properties |-> EncodeProperties(columns, r)]]]

ReadFgb(file) ==
  LET decoded(geometry) == IF geometry = <<>> THEN <<>> ELSE <<DecodeGeometry(geometry[1])>>
  IN  [rows |-> [r \in DOMAIN file.features |->
                   [geometry |-> decoded(file.features[r].geometry),
                    props |-> DecodeProperties(file.features[r].properties, file.columns),
                    native |-> <<>>]],
       schema |-> [i \in DOMAIN file.columns |-> ReadDecl(file.columns[i])],
       crs |-> ReadCrs(file.crs), name |-> file.name, native |-> file.extras]

=============================================================================
