---------------------------- MODULE ParquetFile -----------------------------
(***************************************************************************)
(* GeoParquet. First the property columns of the files parquet/writer.rs   *)
(* writes: the physical type and the annotation of a column, the values it *)
(* stores and what parquet/reader.rs makes of them. A date is the text of  *)
(* class "date"; the 31st of a shorter month is of class "baddate" and     *)
(* counts to the date 100 + its own; a "localtime" is a time without the Z *)
(* of a "time".                                                            *)
(*                                                                         *)
(* The file is the sequence of parts of ParquetBytes. write_geoparquet lays *)
(* one down; open_geoparquet and its columns read one of any writer: a     *)
(* footer with a tree of schema elements, row groups, and in each a chunk  *)
(* of pages per leaf. What is nested is written as occurrences, each with  *)
(* a repetition and a definition level, and rebuilt from the levels alone. *)
(***************************************************************************)
EXTENDS Cells, CrsIdentity, Geometries, ParquetBytes, FiniteSets

Plan(physical, converted) == [physical |-> physical, converted |-> converted]

NarrowInts == {"Int8", "UInt8", "Int16", "UInt16", "UInt32"}

(* parse_date_days and parse_timestamp_millis.                             *)
ParsesAsDate(text) == text.as \in {"date", "baddate"}
ParsesAsTimestamp(text) == text.as \in {"time", "localtime"}

DaysOf(text) == IF text.as = "baddate" THEN text.v + 100 ELSE text.v

TextsOf(column) == {column.cells[i] : i \in {j \in DOMAIN column.cells : column.cells[j].kind = "text"}}

PlanOfType ==
  [bool |-> Plan("BOOLEAN", "none"), int |-> Plan("INT64", "none"), float |-> Plan("DOUBLE", "none"),
   text |-> Plan("BYTE_ARRAY", "UTF8"), bytes |-> Plan("BYTE_ARRAY", "none")]

PlanFor(column) ==
  IF Declared(column) = <<>> THEN PlanOfType[column.ty]
  ELSE LET ty == Declared(column)[1]
       IN  CASE ty = "Bool"        -> Plan("BOOLEAN", "none")
             [] ty \in NarrowInts  -> Plan("INT32", ty)
             [] ty = "Int32"       -> Plan("INT32", "none")
             [] ty = "Int64"       -> Plan("INT64", "none")
             [] ty = "UInt64"      -> Plan("INT64", ty)
             [] ty = "Float32"     -> Plan("FLOAT", "none")
             [] ty = "Float64"     -> Plan("DOUBLE", "none")
             [] ty = "Json"        -> Plan("BYTE_ARRAY", "JSON")
             [] ty = "Binary"      -> Plan("BYTE_ARRAY", "none")
             [] ty = "Date" /\ (\A t \in TextsOf(column) : ParsesAsDate(t)) -> Plan("INT32", "DATE")
             [] ty = "DateTime" /\ (\A t \in TextsOf(column) : ParsesAsTimestamp(t)) ->
                  Plan("INT64", "TIMESTAMP_MILLIS")
             [] OTHER              -> Plan("BYTE_ARRAY", "UTF8")

(* prepare_property: a value as it is stored.                              *)
Stored(plan, cell) ==
  CASE cell = Null -> Null
    [] plan.converted = "DATE" -> Whole(IF ParsesAsDate(cell) THEN DaysOf(cell) ELSE 0)
    [] plan.converted = "TIMESTAMP_MILLIS" -> Whole(cell.v)
    [] plan.physical = "INT32" -> Whole(Wrapped(cell.v, "Int32"))
    [] plan.physical = "FLOAT" -> Decimal(Single(cell.v))
    [] OTHER -> cell

(* push_json_embedded: a JSON text is the value it spells.                  *)
Embedded(text) ==
  CASE text.as = "json"  -> Nested(text.v)
    [] text.as = "int"   -> Whole(text.v)
    [] text.as = "float" -> Decimal(text.v)
    [] text.as = "bool"  -> Truth(text.v = 1)
    [] text.as = "quoted" -> Text("word", text.v, text.len - 2)
    [] text.as = "quotedhex" -> Text("hex", text.v, text.len - 2)
    [] OTHER -> text

(* emit_ints and its kin: an unsigned annotation masks what was stored.     *)
Emitted(plan, value) ==
  CASE value = Null -> Null
    [] plan.converted = "DATE" -> Text("date", value.v, 10)
    [] plan.converted = "TIMESTAMP_MILLIS" -> Text("time", value.v, 20)
    [] plan.converted \in Unsigned \ {"UInt64"} -> Whole(Wrapped(value.v, plan.converted))
    [] plan.converted = "JSON" -> Embedded(value)
    [] OTHER -> value

(* decl_type of the reader: the annotation, else the physical type.         *)
ConvertedDecl ==
  [DATE |-> "Date", TIMESTAMP_MILLIS |-> "DateTime", JSON |-> "Json", UTF8 |-> "String",
   Int8 |-> "Int8", UInt8 |-> "UInt8", Int16 |-> "Int16", UInt16 |-> "UInt16",
   UInt32 |-> "UInt32", UInt64 |-> "UInt64"]
PhysicalDecl ==
  [BOOLEAN |-> "Bool", INT32 |-> "Int32", INT64 |-> "Int64", FLOAT |-> "Float32",
   DOUBLE |-> "Float64", BYTE_ARRAY |-> "Binary"]

DeclOfPlan(plan) ==
  IF plan.converted = "none" THEN PhysicalDecl[plan.physical] ELSE ConvertedDecl[plan.converted]

-----------------------------------------------------------------------------
Datum(value) == Part("value", 1, <<value>>)
Length(n) == Part("length", n, <<>>)
Repeats(n, level) == Part("rle", n, <<level>>)
Packed(levels) == Part("packed", Len(levels), levels)

(* The cell of a row that holds a list, and of one that holds a blob.      *)
ListCell(values) == [kind |-> "list", of |-> values]
BlobOf(geometry) == [kind |-> "blob", of |-> Wkb(geometry)]

(* ParquetNative: the pairs beside "geo", the winding it states and the     *)
(* columns they were read with. A pair that restates the schema is replayed *)
(* only while those are the columns.                                       *)
ParquetNative(keys, orientation, columns) == [keys |-> keys, orientation |-> orientation, columns |-> columns]
KeyValue(key, value) == [key |-> key, value |-> value]
SchemaDerived(key) == key = "ARROW:schema"

(* payload_for and replayable_metadata.                                    *)
PayloadFor(layer) ==
  IF layer.native # <<>> /\ layer.native[1].format = "Parquet" THEN layer.native[1].payload
  ELSE ParquetNative(<<>>, <<>>, <<>>)

Replayed(native, names) ==
  SelectSeq(native.keys, LAMBDA pair : native.columns = names \/ ~SchemaDerived(pair.key))

(* geoparquet_dim_suffix: by the first position alone.                     *)
DimensionSuffix(g) == DimOfGeometry(g)

(* The types the file's metadata names, each with its suffix.              *)
GeometryTypes(layer) ==
  LET given == {layer.rows[r].geometry[1] : r \in {q \in DOMAIN layer.rows : layer.rows[q].geometry # <<>>}}
  IN  {[type |-> g.type, dim |-> DimensionSuffix(g)] : g \in given}

(* metadata of geo.rs: the value of the key "geo". A column of it.          *)
GeoColumn(name, crs, orientation, covering, types) ==
  [name |-> name, crs |-> crs, orientation |-> orientation, covering |-> covering, types |-> types]
GeoMetadata(primary, columns) == [primary |-> primary, columns |-> columns]

-----------------------------------------------------------------------------
(* encode_rle_levels: a run for each stretch of equal levels.               *)
RECURSIVE EncodeRleLevels(_)
EncodeRleLevels(levels) ==
  LET other == SelectInSeq(levels, LAMBDA l : l # levels[1])
      n == IF other = 0 THEN Len(levels) ELSE other - 1
  IN  IF levels = <<>> THEN <<>>
      ELSE <<Repeats(n, levels[1])>> \o EncodeRleLevels(SubSeq(levels, n + 1, Len(levels)))

(* prepare_property and prepare_geometry: the levels, and the values that   *)
(* are there.                                                              *)
Prepared(name, plan, cells) ==
  [name |-> name, plan |-> plan, def |-> [r \in DOMAIN cells |-> IF cells[r] = Null THEN 0 ELSE 1],
   values |-> LET held == SelectSeq(cells, LAMBDA cell : cell # Null)
              IN  [i \in DOMAIN held |-> Datum(held[i])]]

PreparedProperty(column, plan) ==
  Prepared(column.name, plan, [r \in DOMAIN column.cells |-> Stored(plan, column.cells[r])])

PreparedGeometry(rows) ==
  LET blob(row) == IF row.geometry = <<>> THEN Null ELSE BlobOf(row.geometry[1])
  IN  Prepared("geometry", Plan("BYTE_ARRAY", "none"), [r \in DOMAIN rows |-> blob(rows[r])])

PreparedColumns(layer, columns) ==
  Append([i \in DOMAIN columns |-> PreparedProperty(columns[i], PlanFor(columns[i]))], PreparedGeometry(layer.rows))

(* write_column_page: one page, its header in the clear.                    *)
WriteColumnPage(column) ==
  LET rle == EncodeRleLevels(column.def)
      body == <<Length(Len(rle))>> \o rle \o column.values
      compressed == SnappyCompress(body)
      header == StructOf(<<FieldI32(1, PageId.DATA_PAGE), FieldI32(2, Len(body)), FieldI32(3, Len(compressed)),
                           FieldStruct(5, <<FieldI32(1, Len(column.def)), FieldI32(2, EncodingId.PLAIN),
                                            FieldI32(3, EncodingId.RLE), FieldI32(4, EncodingId.RLE)>>)>>)
  IN  [name |-> column.name, plan |-> column.plan, parts |-> header \o compressed, whole |-> Len(header) + Len(body)]

(* converted_type_for: the geometry has no annotation.                      *)
ConvertedField(name, plan) ==
  IF name = "geometry" \/ plan.converted = "none" THEN <<>> ELSE <<FieldI32(6, ConvertedId[plan.converted])>>

(* build_file_metadata, of columns whose pages begin at some offsets.       *)
BuildFileMetadata(columns, begins, rows, pairs) ==
  LET leaf(c) ==
        StructOf(<<FieldI32(1, PhysicalId[c.plan.physical]), FieldI32(3, RepetitionId.OPTIONAL),
                   FieldString(4, c.name)>> \o ConvertedField(c.name, c.plan))
      root == StructOf(<<FieldString(4, "schema"), FieldI32(5, Len(columns))>>)
      meta(i) ==
        FieldStruct(3, <<FieldI32(1, PhysicalId[columns[i].plan.physical]),
                         FieldList(2, "i32", <<<<Varint(EncodingId.PLAIN)>>, <<Varint(EncodingId.RLE)>>>>),
                         FieldList(3, "binary", <<<<Chars(columns[i].name)>>>>), FieldI32(4, CodecId.SNAPPY),
                         FieldI64(5, rows), FieldI64(6, columns[i].whole), FieldI64(7, Len(columns[i].parts)),
                         FieldI64(9, begins[i])>>)
      chunk(i) == StructOf(<<FieldI64(2, begins[i]), meta(i)>>)
      group == StructOf(<<FieldList(1, "struct", [i \in DOMAIN columns |-> chunk(i)]),
                          FieldI64(2, FoldLeft(LAMBDA sum, c : sum + c.whole, 0, columns)), FieldI64(3, rows)>>)
      pair(kv) == StructOf(<<FieldString(1, kv.key), FieldString(2, kv.value)>>)
  IN  StructOf(<<FieldI32(1, 1), FieldList(2, "struct", <<root>> \o [i \in DOMAIN columns |-> leaf(columns[i])]),
                 FieldI64(3, rows), FieldList(4, "struct", <<group>>),
                 FieldList(5, "struct", [i \in DOMAIN pairs |-> pair(pairs[i])]), FieldString(6, "geosetta")>>)

(* The offset of each of some stretches behind the magic, and of their end. *)
Begins(stretches) == FoldLeft(LAMBDA at, s : Append(at, at[Len(at)] + Len(s)), <<1>>, stretches)

(* write_geoparquet: the pages of all columns, and the footer behind them.  *)
WriteGeoparquet(columns, rows, pairs) ==
  LET file(pages) == FileOfParts(FlattenSeq(pages), BuildFileMetadata(columns, Begins(pages), rows, pairs))
  IN  file([i \in DOMAIN columns |-> columns[i].parts])

(* features_to_parquet.                                                    *)
WriteParquet(layer) ==
  LET native == PayloadFor(layer)
      geo == GeoMetadata(<<"geometry">>, <<GeoColumn("geometry", GeoMember(layer.crs), native.orientation,
                                                     <<>>, GeometryTypes(layer))>>)
      names(prepared) == [i \in 1..(Len(prepared) - 1) |-> prepared[i].name]
      file(prepared) ==
        WriteGeoparquet([i \in DOMAIN prepared |-> WriteColumnPage(prepared[i])], Len(layer.rows),
                        <<KeyValue("geo", geo)>> \o Replayed(native, names(prepared)))
  IN  file(PreparedColumns(layer, ColumnsFor(layer)))

-----------------------------------------------------------------------------
(* walk of flatten_schema over the flat list of elements: the leaves under  *)
(* the element at idx, with the levels added up from the root. A list is   *)
(* decoded only where no repeated group above the leaf has a second child.  *)
RECURSIVE Walk(_, _, _), WalkChildren(_, _, _, _)
Walk(nodes, idx, parent) ==
  LET node == nodes[idx]
      kids == FieldIn(node, 5, 0)
      repeated == FieldIn(node, 3, RepetitionId.REQUIRED) = RepetitionId.REPEATED
      path == Append(parent.path, FieldIn(node, 4, ""))
      def == parent.def + IF FieldIn(node, 3, RepetitionId.REQUIRED) = RepetitionId.REQUIRED THEN 0 ELSE 1
      rep == parent.rep + IF repeated THEN 1 ELSE 0
      group == IF repeated THEN def ELSE parent.group
      below == [path |-> path, def |-> def, rep |-> rep, group |-> group,
                clean |-> parent.clean /\ (repeated => kids = 1)]
      leaf == [path |-> path, def |-> def, rep |-> rep, eligible |-> rep = 1 /\ parent.clean, group |-> group,
               converted |-> MemberOf(ConvertedId, FieldIn(node, 6, -1)), logical |-> FieldIn(node, 10, <<>>)]
  IN  IF idx > Len(nodes) THEN [idx |-> idx, leaves |-> <<>>]
      ELSE IF kids <= 0 THEN [idx |-> idx + 1, leaves |-> <<leaf>>]
      ELSE WalkChildren(nodes, idx + 1, below, kids)

WalkChildren(nodes, idx, parent, kids) ==
  LET first == Walk(nodes, idx, parent)
      others == WalkChildren(nodes, first.idx, parent, kids - 1)
  IN  IF kids = 0 THEN [idx |-> idx, leaves |-> <<>>]
      ELSE [idx |-> others.idx, leaves |-> first.leaves \o others.leaves]

FlattenSchema(nodes) ==
  LET root == [path |-> <<>>, def |-> 0, rep |-> 0, group |-> 0, clean |-> TRUE]
  IN  IF nodes = <<>> THEN <<>> ELSE WalkChildren(nodes, 2, root, FieldIn(nodes[1], 5, 0)).leaves

(* parse_geometry_logical_type: a geometry or a geography, and the CRS it   *)
(* names.                                                                  *)
IsNativeGeometry(leaf) == {17, 18} \intersect DOMAIN leaf.logical # {}

NativeCrs(leaf) ==
  LET type == leaf.logical[CHOOSE id \in {17, 18} : id \in DOMAIN leaf.logical]
  IN  IF 1 \in DOMAIN type THEN <<type[1]>> ELSE <<>>

NameOfLeaf(path) == IF path = <<>> THEN "" ELSE path[Len(path)]

-----------------------------------------------------------------------------
(* parse_column_meta, with what the schema says of the leaf of its path. A  *)
(* list goes by its outermost name, any other leaf by its own.             *)
ColumnOf(chunk, leaves) ==
  LET meta == chunk[3]
      path == FieldIn(meta, 3, <<>>)
      own == SelectInSeq(leaves, LAMBDA l : l.path = path)
      leaf == IF own > 0 THEN leaves[own]
              ELSE [def |-> 1, rep |-> 0, group |-> 0, eligible |-> FALSE, converted |-> "none", logical |-> <<>>]
      start == IF FieldIn(meta, 11, -1) >= 0 THEN meta[11] ELSE FieldIn(meta, 9, -1)
  IN  [path |-> path, name |-> IF leaf.eligible THEN path[1] ELSE NameOfLeaf(path),
       codec |-> FieldIn(meta, 4, -1), occurrences |-> FieldIn(meta, 5, 0), start |-> start + 1,
       def |-> leaf.def, rep |-> leaf.rep, group |-> leaf.group, refused |-> leaf.rep > 0 /\ ~leaf.eligible,
       native |-> IsNativeGeometry(leaf),
       plan |-> Plan(MemberOf(PhysicalId, FieldIn(meta, 1, -1)), leaf.converted)]

(* parse_column_chunk and parse_column_meta give up without the metadata of *)
(* a chunk, or without the place of its pages.                             *)
ChunkIncomplete(chunk) == 3 \notin DOMAIN chunk \/ FieldIn(FieldIn(chunk, 3, <<>>), 9, -1) < 0

(* The last "geo" among the pairs that have a value, and all that are not.  *)
GeoOf(pairs) ==
  LET geo == SelectSeq(pairs, LAMBDA p : 1 \in DOMAIN p /\ 2 \in DOMAIN p /\ p[1] = "geo")
  IN  IF geo = <<>> THEN GeoMetadata(<<>>, <<>>) ELSE geo[Len(geo)][2]

KeysOf(pairs) ==
  LET other == SelectSeq(pairs, LAMBDA p : 2 \in DOMAIN p /\ FieldIn(p, 1, "") # "geo")
  IN  [i \in DOMAIN other |-> KeyValue(FieldIn(other[i], 1, ""), other[i][2])]

(* parse_file_metadata. The column that holds the geometry is the one the   *)
(* geo metadata says, else the only one of the native type, else the one   *)
(* so called; its system is that of the geo metadata, else of its type.    *)
MetadataOf(taken, geo, leaves) ==
  LET native == SelectSeq(leaves, IsNativeGeometry)
      called == IF geo.primary # <<>> THEN geo.primary[1] ELSE "geometry"
      name == IF geo.primary = <<>> /\ Len(native) = 1 THEN NameOfLeaf(native[1].path) ELSE called
      described(column) == SelectSeq(geo.columns, LAMBDA c : c.name = column)
      typed == SelectSeq(native, LAMBDA l : NameOfLeaf(l.path) = name)
      stated == IF geo.primary # <<>> /\ described(geo.primary[1]) # <<>>
                THEN <<described(geo.primary[1])[1].crs>>
                ELSE IF typed # <<>> THEN <<NativeCrs(typed[1])>> ELSE <<>>
      group(g) ==
        LET chunks == FieldIn(g, 1, <<>>)
        IN  [rows |-> FieldIn(g, 3, 0), columns |-> [i \in DOMAIN chunks |-> ColumnOf(chunks[i], leaves)]]
      groups == FieldIn(taken, 4, <<>>)
  IN  [rows |-> FieldIn(taken, 3, 0), groups |-> [g \in DOMAIN groups |-> group(groups[g])],
       geometry |-> name, geometries |-> {geo.columns[i].name : i \in DOMAIN geo.columns},
       covering |-> UNION {ToSet(geo.columns[i].covering) : i \in DOMAIN geo.columns},
       crs |-> IF stated = <<>> THEN <<>> ELSE ParseCrs(stated[1]),
       keys |-> KeysOf(FieldIn(taken, 5, <<>>)),
       orientation |-> IF described(called) = <<>> THEN <<>> ELSE described(called)[1].orientation]

ParseFileMetadata(taken) == MetadataOf(taken, GeoOf(FieldIn(taken, 5, <<>>)), FlattenSchema(FieldIn(taken, 2, <<>>)))

-----------------------------------------------------------------------------
(* What open_geoparquet makes of a row group's columns: covering boxes are  *)
(* no properties.                                                          *)
Columnar(meta, group) == SelectSeq(group.columns, LAMBDA c : c.path \notin meta.covering)

ColumnRefused(meta, column) ==
  LET geometry == column.name = meta.geometry
  IN  \/ column.refused
      \/ column.rep > 0 /\ geometry
      \/ ~geometry /\ (column.native \/ column.name \in meta.geometries)

Properties(meta, group) == SelectSeq(Columnar(meta, group), LAMBDA c : c.name # meta.geometry)
GeometriesIn(meta, group) == SelectSeq(Columnar(meta, group), LAMBDA c : c.name = meta.geometry)

OpenRefused(meta) ==
  \E g \in DOMAIN meta.groups :
    \/ \E c \in ToSet(Columnar(meta, meta.groups[g])) : ColumnRefused(meta, c)
    \/ Len(Properties(meta, meta.groups[g])) # Len(Properties(meta, meta.groups[1]))

(* open_geoparquet: the footer of a file, if it can be held.                *)
Incomplete(taken) ==
  \E group \in ToSet(FieldIn(taken, 4, <<>>)) : \E chunk \in ToSet(FieldIn(group, 1, <<>>)) : ChunkIncomplete(chunk)

Opened(meta) == IF OpenRefused(meta) THEN Bad ELSE Good(0, meta)

OpenFooter(footer) ==
  IF footer.bad THEN Bad ELSE IF Incomplete(footer.value) THEN Bad ELSE Opened(ParseFileMetadata(footer.value))

OpenGeoparquet(file) == OpenFooter(Footer(file))

-----------------------------------------------------------------------------
BitsNeeded(max) == CHOOSE w \in 0..max : 2 ^ w > max /\ \A v \in 0..(w - 1) : 2 ^ v <= max

(* Count levels or indices of a stream of runs; a run past the count, or    *)
(* what pads a packed one, is left.                                        *)
DecodeLevels(runs, width, count) ==
  LET spread(run) == IF run.is = "rle" THEN [i \in 1..run.n |-> run.of[1]] ELSE run.of
  IN  IF width = 0 THEN [i \in 1..count |-> 0]
      ELSE SubSeq(FlattenSeq([i \in DOMAIN runs |-> spread(runs[i])]), 1, count)

(* A body behind its next length: the stream of that length, and the rest. *)
Prefixed(body) ==
  [stream |-> SubSeq(body, 2, 1 + body[1].n), rest |-> SubSeq(body, 2 + body[1].n, Len(body))]

(* Which rows have a value: all of them where one run of the highest level *)
(* covers the page, else those of that level.                              *)
IsAllPresentRle(runs, max, rows) == runs[1].is = "rle" /\ runs[1].n >= rows /\ runs[1].of[1] = max

DecodePresent(runs, max, rows) ==
  IF IsAllPresentRle(runs, max, rows) THEN [i \in 1..rows |-> TRUE]
  ELSE LET levels == DecodeLevels(runs, BitsNeeded(max), rows) IN [i \in 1..rows |-> levels[i] = max]

SplitDefinitionLevels(body, max, rows) ==
  IF max = 0 THEN [present |-> [i \in 1..rows |-> TRUE], values |-> body]
  ELSE [present |-> DecodePresent(Prefixed(body).stream, max, rows), values |-> Prefixed(body).rest]

SplitListLevels(body, column, count) ==
  LET reps == Prefixed(body)
      defs == Prefixed(reps.rest)
  IN  [rep |-> DecodeLevels(reps.stream, BitsNeeded(column.rep), count),
       def |-> DecodeLevels(defs.stream, BitsNeeded(column.def), count), values |-> defs.rest]

(* decode_data_page_v2_body: the levels, whose lengths the header has, get  *)
(* the lengths in front that a page of the first version has; only what is *)
(* behind them may be compressed.                                          *)
BodyV2(page, comp, column) ==
  LET v2 == page.v2[1]
      levels == v2.rep + v2.def
      rest == SubSeq(comp, levels + 1, Len(comp))
      size == page.size - levels
      reps == SubSeq(comp, 1, v2.rep)
      defs == SubSeq(comp, v2.rep + 1, levels)
      behind(values) ==
        IF values.bad \/ column.def = 0 THEN values
        ELSE Good(0, (IF column.rep > 0 THEN <<Length(v2.rep)>> \o reps ELSE <<>>)
                       \o <<Length(v2.def)>> \o defs \o values.value)
  IN  IF (column.rep = 0 /\ v2.rep # 0) \/ levels > Len(comp) \/ size < 0 THEN Bad
      ELSE behind(IF v2.compressed THEN Decompress(column.codec, rest, size) ELSE OfSize(Good(0, rest), size))

(* A page's body, of the pages there are; what encodes its values, of which *)
(* indices need a dictionary.                                              *)
Body(page, comp, column) ==
  CASE page.type = PageId.DATA_PAGE_V2 /\ page.v2 # <<>> -> BodyV2(page, comp, column)
    [] page.type \in {PageId.DATA_PAGE, PageId.DICTIONARY_PAGE} -> Decompress(column.codec, comp, page.size)
    [] OTHER -> Bad

DictionaryCoded(page) == page.encoding \in {EncodingId.PLAIN_DICTIONARY, EncodingId.RLE_DICTIONARY}

EncodingRefused(page, dict) ==
  /\ page.type # PageId.DICTIONARY_PAGE
  /\ IF DictionaryCoded(page) THEN dict = <<>> ELSE page.encoding # EncodingId.PLAIN

(* push_json: each present place takes the next value, the others none.     *)
Place(present, values) ==
  LET before(i) == Cardinality({j \in 1..i : present[j]})
  IN  [i \in DOMAIN present |-> IF present[i] THEN values[before(i)] ELSE Null]

(* The values of a page where they are present: as they stand, or looked up *)
(* in the chunk's dictionary by indices behind their width. A dictionary's  *)
(* bytes are taken for text.                                               *)
DecodeValues(page, values, present, column, dict) ==
  LET count == Cardinality({i \in DOMAIN present : present[i]})
      plain == [i \in 1..count |-> Emitted(column.plan, values[i].of[1])]
      indices == IF count = 0 THEN <<>> ELSE DecodeLevels(Tail(values), values[1].n, count)
      textual(v) == IF v.kind = "bytes" THEN Text("word", v.v, 3) ELSE v
      looked == [i \in DOMAIN indices |-> textual(Emitted(column.plan, dict[1][indices[i] + 1].of[1]))]
  IN  Place(present, IF DictionaryCoded(page) THEN looked ELSE plain)

-----------------------------------------------------------------------------
(* The page loop of a chunk, from a position on: pages are read until they  *)
(* have given what is left, each with the dictionary before it.            *)
RECURSIVE ReadPages(_, _, _, _, _)
ReadPages(file, column, pos, left, dict) ==
  LET before(read, others) == IF others.bad THEN Bad ELSE Good(others.at, <<read>> \o others.value)
      on(at, page, body) ==
        IF body.bad \/ EncodingRefused(page, dict) THEN Bad
        ELSE IF page.type = PageId.DICTIONARY_PAGE THEN ReadPages(file, column, at, left, <<body.value>>)
        ELSE before([page |-> page, body |-> body.value, dict |-> dict],
                    ReadPages(file, column, at, left - page.n, dict))
      of(next) ==
        IF next.bad THEN Bad
        ELSE on(next.at, next.value.page, Body(next.value.page, next.value.comp, column))
  IN  IF left <= 0 THEN Good(pos, <<>>) ELSE of(NextPage(file, pos))

DecodeDataPage(read, column) ==
  LET split == SplitDefinitionLevels(read.body, column.def, read.page.n)
  IN  DecodeValues(read.page, split.values, split.present, column, read.dict)

(* decode_column of what is not repeated: a value per row.                 *)
DecodeFlat(file, column, rows) ==
  LET values(read) ==
        IF read.bad THEN Bad
        ELSE Good(read.at, FlattenSeq([i \in DOMAIN read.value |-> DecodeDataPage(read.value[i], column)]))
  IN  values(ReadPages(file, column, column.start, rows, <<>>))

(* Mutant of GroupListValues: a list without elements is taken for none.   *)
GroupListValuesEmptyIsNull(reps, defs, values, group) ==
  LET starts == SetToSortSeq({i \in DOMAIN reps : reps[i] = 0}, <)
      row(k) == (IF k = 1 THEN 1 ELSE starts[k])..(IF k = Len(starts) THEN Len(reps) ELSE starts[k + 1] - 1)
      held(k) == SetToSortSeq({i \in row(k) : defs[i] >= group}, <)
  IN  [k \in DOMAIN starts |->
         IF held(k) = <<>> THEN Null ELSE ListCell([i \in DOMAIN held(k) |-> values[held(k)[i]]])]

(* The occurrences of a chunk as rows: a row begins at repetition level 0;  *)
(* below the level under its repeated group it has no list, at it an empty  *)
(* one, above it an element, itself perhaps none.                          *)
GroupListValues(reps, defs, values, group) ==
  LET starts == SetToSortSeq({i \in DOMAIN reps : reps[i] = 0}, <)
      row(k) == (IF k = 1 THEN 1 ELSE starts[k])..(IF k = Len(starts) THEN Len(reps) ELSE starts[k + 1] - 1)
      held(k) == SetToSortSeq({i \in row(k) : defs[i] > group - 1}, <)
  IN  [k \in DOMAIN starts |->
         IF \E i \in row(k) : defs[i] < group - 1 THEN Null
         ELSE ListCell([i \in DOMAIN held(k) |-> values[held(k)[i]]])]

(* A page's levels, and its values in the places their levels say.         *)
DecodeListPage(read, column) ==
  LET split == SplitListLevels(read.body, column, read.page.n)
      present == [i \in 1..read.page.n |-> split.def[i] = column.def]
  IN  [rep |-> split.rep, def |-> split.def,
       values |-> DecodeValues(read.page, split.values, present, column, read.dict)]

(* Mutant of DecodeList: every page is grouped by itself.                  *)
DecodeListByPage(file, column) ==
  LET rows(page) == GroupListValues(page.rep, page.def, page.values, column.group)
      values(read) ==
        IF read.bad THEN Bad
        ELSE Good(read.at, FlattenSeq([i \in DOMAIN read.value |-> rows(DecodeListPage(read.value[i], column))]))
  IN  values(ReadPages(file, column, column.start, column.occurrences, <<>>))

(* decode_list_column: the levels and values of all pages together, grouped *)
(* when the chunk's occurrences have been read.                            *)
DecodeList(file, column) ==
  LET all(pages, part) == FlattenSeq([i \in DOMAIN pages |-> pages[i][part]])
      rows(pages) == GroupListValues(all(pages, "rep"), all(pages, "def"), all(pages, "values"), column.group)
      values(read) ==
        IF read.bad THEN Bad
        ELSE Good(read.at, rows([i \in DOMAIN read.value |-> DecodeListPage(read.value[i], column)]))
  IN  values(ReadPages(file, column, column.start, column.occurrences, <<>>))

DecodeColumn(file, column, rows) ==
  IF column.rep > 0 THEN DecodeList(file, column) ELSE DecodeFlat(file, column, rows)

(* Some chunks one after the other, if all can be decoded.                  *)
DecodeAll(decoded) ==
  IF \E i \in DOMAIN decoded : decoded[i].bad THEN Bad
  ELSE Good(0, FlattenSeq([i \in DOMAIN decoded |-> decoded[i].value]))

-----------------------------------------------------------------------------
(* A column through every row group; its name and its type are those of the *)
(* first.                                                                  *)
Property(file, meta, in) ==
  [name |-> in[1].name, decl |-> DeclOfPlan(in[1].plan),
   values |-> DecodeAll([g \in DOMAIN in |-> DecodeColumn(file, in[g], meta.groups[g].rows)])]

(* The properties go together by their places.                             *)
PropertiesOf(file, meta) ==
  LET in(i) == [g \in DOMAIN meta.groups |-> Properties(meta, meta.groups[g])[i]]
  IN  [i \in DOMAIN Properties(meta, meta.groups[1]) |-> Property(file, meta, in(i))]

(* geometry: the blobs of the column, or none for any row without one.      *)
Blobs(file, meta) ==
  LET own(g) == GeometriesIn(meta, meta.groups[g])
  IN  IF \A g \in DOMAIN meta.groups : own(g) = <<>> THEN Good(0, [r \in 1..meta.rows |-> Null])
      ELSE DecodeAll([g \in DOMAIN meta.groups |->
                        DecodeAll([i \in DOMAIN own(g) |-> DecodeFlat(file, own(g)[i], meta.groups[g].rows)])])

(* The layer of some columns and blobs, if they could all be decoded.       *)
LayerOfColumns(meta, columns, blobs) ==
  LET geometry(blob) == IF blob = Null THEN <<>> ELSE <<ReadWkb(blob.of, 1).value>>
      row(r) == [geometry |-> geometry(blobs.value[r]), native |-> <<>>,
                 props |-> [i \in DOMAIN columns |-> [name |-> columns[i].name, value |-> columns[i].values.value[r]]]]
      names == [i \in DOMAIN columns |-> columns[i].name]
  IN  IF blobs.bad \/ Len(blobs.value) < meta.rows \/ \E i \in DOMAIN columns : columns[i].values.bad THEN Bad
      ELSE Good(0, [rows |-> [r \in 1..meta.rows |-> row(r)],
                    schema |-> [i \in DOMAIN columns |-> Decl(names[i], <<columns[i].decl>>)],
                    crs |-> meta.crs, name |-> <<>>,
                    native |-> IF meta.keys = <<>> /\ meta.orientation = <<>> THEN <<>>
                               ELSE <<[format |-> "Parquet",
                                       payload |-> ParquetNative(meta.keys, meta.orientation, names)]>>])

(* parquet_to_features: the layer of a file, or that it cannot be read.     *)
LayerOfFile(file, opened) ==
  IF opened.bad THEN Bad
  ELSE LayerOfColumns(opened.value, PropertiesOf(file, opened.value), Blobs(file, opened.value))

ReadParquet(file) == LayerOfFile(file, OpenGeoparquet(file))
=============================================================================
