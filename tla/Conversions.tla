----------------------------- MODULE Conversions -----------------------------
(***************************************************************************)
(* A layer carried from format to format. A step is one run of geosetta:   *)
(* what the last one wrote has been read, it is written as a target and    *)
(* the target is read by the next. Of a step are kept the layer before it, *)
(* the warnings it printed and, as history, what the layer has been said   *)
(* to be in since a warning last gave up its reference system.             *)
(***************************************************************************)
EXTENDS FlatGeobufFile, ShapefileSet, ParquetRecords, GpkgFeatureTable, GeoJsonText, TextTables, Formats

CONSTANTS
  Sources,    \* the layers a first run may read
  Foreign,    \* files of other writers: a column's path and its layout, a wire
              \* and a system
  Spoilt,     \* files that cannot be held
  Targets,    \* the formats that are written
  Overrides,  \* definitions that may be given with --crs
  CutNames,   \* column names of more than ten bytes, with what dBase keeps
  MaxRuns     \* bound on the runs of a behaviour

VARIABLES layer, before, via, came, warned, outcome, runs, stated

vars == <<layer, before, via, came, warned, outcome, runs, stated>>

CutName(n) == IF n \in DOMAIN CutNames THEN CutNames[n] ELSE n

(* What a system is to whoever looks it up: the meaning of its definition,  *)
(* and of its code where it has one in full.                               *)
Denotes(crs) ==
  LET body == IF crs.wgs84 THEN <<Wgs84Wkt1>> ELSE DefinitionBody(crs)
  IN  [code |-> AuthorityCode(crs), means |-> [i \in DOMAIN body |-> Meaning(body[i])]]

LayerOfRows(rows) == [rows |-> rows, schema |-> <<>>, crs |-> <<>>, name |-> <<>>, native |-> <<>>]

(* A file of another writer, read.                                         *)
Reads(given) ==
  \E read \in {ReadParquet(given.file)} :
    /\ outcome = IF read.bad THEN "unreadable" ELSE "read"
    /\ layer = IF read.bad THEN LayerOfRows(<<>>) ELSE read.value
    /\ before = [LayerOfRows(given.says) EXCEPT !.crs = given.crs]
    /\ via = "foreign"

ReadForeign ==
  \/ \E f \in Foreign : \E given \in {FileOf(f)} : Reads(given)
  \/ \E how \in DOMAIN Spoilt : \E file \in {Spoilt[how]} : Reads(Unread(file))

Init ==
  /\ \/ layer \in Sources /\ before = layer /\ via = "source" /\ outcome = "read"
     \/ ReadForeign
  /\ came = "source"
  /\ warned = {}
  /\ runs = 0
  /\ stated = layer.crs

-----------------------------------------------------------------------------
(* A foreign file is only read.                                            *)
Running == outcome = "read" /\ runs < MaxRuns /\ via # "foreign"

(* The layer as f writes and reads it.                                     *)
Step(f, refused, unreadable, read) ==
  /\ Running
  /\ f \in Targets
  /\ runs' = runs + 1
  /\ via' = f
  /\ came' = via
  /\ before' = layer
  /\ warned' = Warnings(layer, f)
  /\ outcome' = IF refused THEN "refused" ELSE IF unreadable THEN "unreadable" ELSE "read"
  /\ layer' = IF outcome' = "read" THEN read ELSE layer
  /\ stated' = IF "crs" \in warned' THEN <<>> ELSE stated

ToGeoJson == Step("GeoJson", FALSE, FALSE, ReadGeoJson(WriteGeoJson(layer)))

ToParquet ==
  LET step(read) == Step("Parquet", FALSE, read.bad, read.value)
  IN  step(ReadParquet(WriteParquet(layer)))

ToFlatGeobuf == Step("FlatGeobuf", FALSE, FALSE, ReadFgb(WriteFgb(layer)))

ToCsv ==
  LET step(file) == Step("Csv", FALSE, CsvUnreadable(file), ReadCsv(file))
  IN  step(WriteCsv(layer))

ToWkt ==
  LET lines == WriteWktLines(layer)
  IN  Step("Wkt", FALSE, WktLinesUnreadable(lines), ReadWktLines(lines))

ToShapefile ==
  LET cut == [n \in {column.name : column \in ToSet(ColumnsFor(layer))} |-> CutName(n)]
      step(set) == Step("Shapefile", ShapefileRefused(layer, cut), ShapefileUnreadable(set), ReadShapefile(set))
  IN  step(WriteShapefile(layer, cut))

ToGpkg == \E enveloped \in BOOLEAN : Step("Gpkg", FALSE, FALSE, ReadGpkgTable(WriteGpkgTable(layer, enveloped)))

(* --crs: the layer is given another system before it is written.          *)
Override ==
  /\ Running
  /\ runs = 0
  /\ \E d \in Overrides :
       /\ layer' = [layer EXCEPT !.crs = <<FromDefinitionText(d)>>]
       /\ layer'.crs # layer.crs
       /\ stated' = layer'.crs
  /\ runs' = runs + 1
  /\ before' = layer'
  /\ UNCHANGED <<via, came, warned, outcome>>

Ended == ~Running /\ UNCHANGED vars

Next ==
  \/ ToGeoJson \/ ToParquet \/ ToFlatGeobuf \/ ToCsv \/ ToWkt \/ ToShapefile \/ ToGpkg
  \/ Override
  \/ Ended

Spec == Init /\ [][Next]_vars

-----------------------------------------------------------------------------
Typed == {"Parquet", "FlatGeobuf", "Gpkg", "Shapefile"}
Arrived == outcome = "read" /\ via \in Targets

DeclOf(schema, name) == LET own == SelectSeq(schema, LAMBDA d : d.name = name) IN own[Len(own)]

(* A declared type the values allow comes back as Format::recast says it    *)
(* does (src/format.rs:322), from every format that declares one. Dates     *)
(* that are none are text to GeoParquet; an empty column is a character     *)
(* field to dBase unless it was declared a truth or a date.                *)
LandsAsRecast ==
  outcome = "read" /\ via \in Typed =>
    LET columns == ColumnsFor(before)
    IN  \A i \in DOMAIN columns :
          LET declared == Declared(columns[i])
              landed == DeclOf(layer.schema, IF via = "Shapefile" THEN CutName(columns[i].name)
                                             ELSE columns[i].name).ty
              unparsed == via = "Parquet" /\ declared[1] \in {"Date", "DateTime"}
                            /\ landed = <<"String">>
              silent == via = "Shapefile" /\ AllNull(columns[i]) /\ landed = <<"String">>
          IN  declared # <<>> =>
                landed = <<Recast(via, declared[1])>> \/ unparsed \/ silent

(* A declaration never costs a value (src/schema.rs:353): what a column of  *)
(* whole numbers, truths or bytes held before a run it holds after it, in   *)
(* every format that has such a type.                                      *)
DeclarationsDestroyNothing ==
  outcome = "read" /\ via \in Typed =>
    LET columns == ColumnsFor(before)
        hold == {"int", "bool"} \union (IF via = "Shapefile" THEN {} ELSE {"bytes"})
    IN  \A i \in DOMAIN columns : columns[i].ty \in hold =>
          \A r \in DOMAIN before.rows :
            layer.rows[r].props[i].value = columns[i].cells[r]

-----------------------------------------------------------------------------
(* Geometries of which every list has an item and every position the same   *)
(* ordinates: what every format can hold.                                  *)
RECURSIVE Full(_)
Full(g) ==
  LET some(s) == s # <<>>
      all(s) == some(s) /\ \A i \in DOMAIN s : some(s[i])
  IN  CASE g.type = "Point" -> TRUE
        [] g.type \in Lines -> some(g.of)
        [] g.type \in Rings -> all(g.of)
        [] g.type = "MultiPolygon" -> some(g.of) /\ \A i \in DOMAIN g.of : all(g.of[i])
        [] OTHER -> some(g.of) /\ \A i \in DOMAIN g.of : Full(g.of[i])

OneDimension(g) ==
  \A i, j \in DOMAIN Positions(g) : DimOf(<<Positions(g)[i]>>) = DimOf(<<Positions(g)[j]>>)

RECURSIVE WithoutM(_)
WithoutM(g) ==
  LET flat(p) == [p EXCEPT !.m = <<>>]
      line(ps) == [i \in DOMAIN ps |-> flat(ps[i])]
      lines(s) == [i \in DOMAIN s |-> line(s[i])]
  IN  Geometry(g.type,
        CASE g.type = "Point" -> flat(g.of)
          [] g.type \in Lines -> line(g.of)
          [] g.type \in Rings -> lines(g.of)
          [] g.type = "MultiPolygon" -> [i \in DOMAIN g.of |-> lines(g.of[i])]
          [] OTHER -> [i \in DOMAIN g.of |-> WithoutM(g.of[i])])

(* The polygons of a geometry, each a list of rings; of anything else one.  *)
Grouped(g) ==
  CASE g.type = "MultiPolygon" -> g.of
    [] g.type \in Rings -> <<g.of>>
    [] OTHER -> <<<<Positions(g)>>>>

(* A ring is the same walked either way; dBase's neighbour gives every      *)
(* position the dimension of the file.                                     *)
SameRing(a, b) ==
  LET same(p, q) == p.x = q.x /\ p.y = q.y /\ p.z \in {<<>>, q.z} /\ p.m = q.m
  IN  Len(a) = Len(b) /\ \E s \in {b, Reverse(b)} : \A i \in DOMAIN a : same(a[i], s[i])

SameShape(g, h) ==
  /\ ShapeType(g) = ShapeType(h)
  /\ Len(Grouped(g)) = Len(Grouped(h))
  /\ \A i \in DOMAIN Grouped(g) :
       LET a == Grouped(g)[i]
           b == Grouped(h)[i]
       IN  Len(a) = Len(b) /\ \A k \in DOMAIN a : SameRing(a[k], b[k])

SameGeometry(g, h) ==
  CASE via = "GeoJson"   -> h = WithoutM(g)
    [] via = "Shapefile" -> SameShape(g, h)
    [] OTHER             -> h = g

(* Every geometry comes back, in order, with its rings in their polygons    *)
(* and its ordinates in their places, through flattened arrays of rings,    *)
(* blobs and text alike (geometry/wkb.rs, geometry/wkt.rs, flatgeobuf,      *)
(* shapefile/geometry.rs); only the rows a text format has no line for go.  *)
GeometryReturns ==
  Arrived =>
    LET given(l) == SelectSeq(l.rows, LAMBDA row : row.geometry # <<>>)
        a == given(before)
        b == given(layer)
    IN  /\ Len(a) = Len(b)
        /\ \A i \in DOMAIN a :
             LET g == a[i].geometry[1]
             IN  Full(g) /\ OneDimension(g) => SameGeometry(g, b[i].geometry[1])
        /\ via \notin {"Csv", "Wkt"} =>
             [r \in DOMAIN before.rows |-> before.rows[r].geometry = <<>>]
               = [r \in DOMAIN layer.rows |-> layer.rows[r].geometry = <<>>]

(* What geosetta wrote and read once it writes and reads again without a    *)
(* difference, whatever the format: no value, width, type, member or        *)
(* definition drifts from run to run.                                      *)
SameFormatSettles == Arrived /\ came = via => layer = before

(* A layer that states a reference system and of which no warning gave it   *)
(* up is never said to be in another one, nor in none (src/crs.rs:229); only *)
(* WGS 84, which the text formats have no place for, may be left unsaid.    *)
CrsNeverRelabelled ==
  Arrived /\ stated # <<>> =>
    IF layer.crs = <<>> THEN stated[1].wgs84
    ELSE LET said == Denotes(stated[1])
             now == Denotes(layer.crs[1])
         IN  /\ now.code # <<>> \/ now.means # <<>>
             /\ now.code \in {<<>>, said.code}
             /\ now.means = <<>> \/ said.means = <<>> \/ now.means = said.means

(* The identity of a definition is the id of its own node (src/crs.rs:639); *)
(* nothing else in the text gives the layer one.                           *)
IdentityIsItsOwn ==
  Arrived /\ stated # <<>> /\ layer.crs # <<>> =>
    AuthorityCode(layer.crs[1]) \in {<<>>, AuthorityCode(stated[1])}

(* A column has the least type that holds all its values, in whatever order *)
(* the rows come and wherever the nulls are (src/schema.rs:406).           *)
LeastType ==
  \A name \in {NamesOf(layer.rows)[i] : i \in DOMAIN NamesOf(layer.rows)} :
    LET kinds == {Seen(p.value) : p \in {q \in UNION {{layer.rows[r].props[i] : i \in DOMAIN layer.rows[r].props}
                                                        : r \in DOMAIN layer.rows} : q.name = name}} \ {"none"}
    IN  Inferred(layer.rows, name) =
          IF kinds # {} /\ Cardinality(kinds) = 1 THEN CHOOSE k \in kinds : TRUE
          ELSE IF kinds = {"int", "float"} THEN "float" ELSE "text"

(* The streaming reader and the tree reader make the same rows of what      *)
(* geosetta writes (src/geojson/mod.rs:120). Only the rows: from_json drops *)
(* the collection's name and its members. The command gives it no text with *)
(* features; it reads lone features, and is the tests' reference.          *)
EitherReaderReads ==
  via = "GeoJson" /\ outcome = "read" =>
    FromJson(WriteGeoJson(before)).rows = StreamCollection(WriteGeoJson(before)).rows

(* What another writer nested, repeated or left out, in however many pages  *)
(* and row groups, each row has again as it was: no list, no empty list and *)
(* a list of none told apart by their levels alone, and no value in a row   *)
(* not its own (src/parquet/reader.rs:672, :1442). A damaged file, and one  *)
(* of a schema that has no place in a row (a list of lists or of structures *)
(* of several fields, a second geometry or one in a list, row groups of     *)
(* different columns), is refused and not misread.                         *)
RecordsReadBack ==
  via = "foreign" =>
    IF before.rows = <<>> THEN outcome = "unreadable"
    ELSE outcome = "read" /\ layer.rows = before.rows /\ layer.crs = before.crs
=============================================================================
