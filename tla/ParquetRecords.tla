--------------------------- MODULE ParquetRecords ---------------------------
(***************************************************************************)
(* GeoParquet files as any writer may lay them out, and what they say: the *)
(* reference that the reader of ParquetFile is held against.              *)
(*                                                                         *)
(* A column is a path of repetitions from the root to its leaf. A row's    *)
(* value follows the path: under an optional or a repeated element it is a *)
(* sequence of what is below, of at most one or of any number; under a     *)
(* required one it is what is below.                                       *)
(***************************************************************************)
EXTENDS ParquetFile

(* Rows that between them end in every way a path can end; a value stands   *)
(* three times, so that a copy of a codec overlaps what it writes.         *)
RECURSIVE Samples(_)
Samples(path) ==
  LET below == Samples(Tail(path))
      one == [i \in DOMAIN below |-> <<below[i]>>]
  IN  CASE path = <<>>           -> <<Whole(1), Whole(2), Whole(2), Whole(2)>>
        [] path[1] = "REQUIRED"  -> below
        [] path[1] = "OPTIONAL"  -> <<<<>>>> \o one
        [] OTHER                 -> <<<<>>, below, one[Len(one)]>>

(* What a value says: nothing where an optional element is missing, a list *)
(* of what each repetition says.                                           *)
RECURSIVE Says(_, _)
Says(path, v) ==
  CASE path = <<>>                           -> v
    [] path # <<>> /\ path[1] = "REQUIRED"   -> Says(Tail(path), v)
    [] path # <<>> /\ path[1] = "REPEATED"   -> ListCell([i \in DOMAIN v |-> Says(Tail(path), v[i])])
    [] OTHER                                 -> IF v = <<>> THEN Null ELSE Says(Tail(path), v[1])

(* A value as its occurrences: how far up the path each repeats, how far   *)
(* down it is defined, and its datum if that is all the way.               *)
RECURSIVE Shred(_, _, _)
Shred(path, v, at) ==
  LET under(i) == [rep |-> IF i = 1 THEN at.rep ELSE at.depth + 1, def |-> at.def + 1, depth |-> at.depth + 1]
  IN  CASE path = <<>>                         -> <<[rep |-> at.rep, def |-> at.def, value |-> v]>>
        [] path # <<>> /\ path[1] = "REQUIRED" -> Shred(Tail(path), v, at)
        [] path # <<>> /\ path[1] # "REQUIRED" /\ v = <<>> ->
             <<[rep |-> at.rep, def |-> at.def, value |-> Null]>>
        [] path # <<>> /\ path[1] = "OPTIONAL" /\ v # <<>> ->
             Shred(Tail(path), v[1], [at EXCEPT !.def = @ + 1])
        [] OTHER -> FlattenSeq([i \in DOMAIN v |-> Shred(Tail(path), v[i], under(i))])

Occurrences(path, v) == Shred(path, v, [rep |-> 0, def |-> 0, depth |-> 0])

MaxDef(path) == Len(SelectSeq(path, LAMBDA r : r # "REQUIRED"))
MaxRep(path) == Len(SelectSeq(path, LAMBDA r : r = "REPEATED"))

-----------------------------------------------------------------------------
(* Levels or indices as runs: a run per stretch of equals, or one such and  *)
(* the rest in a packed run, filled up to eights.                          *)
RunsOf(levels, style) ==
  LET other == SelectInSeq(levels, LAMBDA l : l # levels[1])
      rest == SubSeq(levels, other, Len(levels))
      filled == rest \o [i \in 1..((8 - Len(rest)) % 8) |-> 0]
  IN  IF levels = <<>> \/ style = "repeats" \/ other = 0 THEN EncodeRleLevels(levels)
      ELSE <<Repeats(other - 1, levels[1]), Packed(filled)>>

(* LZ4's sequences of some parts: literals behind a token and a match, and  *)
(* literals alone at the end.                                              *)
RECURSIVE Lz4Compress(_, _, _)
Lz4Compress(src, emit, s) ==
  LET candidates == {c \in 1..(s - 1) : SamePart(src[c], src[s])}
      offset == s - Max(candidates)
      differs == {k \in s..Len(src) : ~SamePart(src[k - offset], src[k])}
      end == IF differs = {} THEN Len(src) + 1 ELSE Min(differs)
      lits(to, match) == <<Part("token", to - emit + 1, <<match>>)>> \o SubSeq(src, emit, to)
  IN  CASE s > Len(src) -> lits(Len(src), 0)
        [] s <= Len(src) /\ candidates = {} -> Lz4Compress(src, emit, s + 1)
        [] OTHER -> lits(s - 1, end - s) \o <<Part("offset", offset, <<>>)>> \o Lz4Compress(src, end, end)

Compressed(codec, parts) ==
  CASE codec = "SNAPPY"  -> SnappyCompress(parts)
    [] codec = "LZ4_RAW" -> Lz4Compress(parts, 1, 1)
    [] OTHER             -> parts

-----------------------------------------------------------------------------
(* How a writer puts a file on the wire: its codec, whether a page of the   *)
(* second version says that it is compressed, the members it writes that   *)
(* this reader has no use for, and where it names the geometry: in the geo  *)
(* metadata or by the type of the column.                                  *)
Wire(codec, flag, extra, naming) == [codec |-> codec, flag |-> flag, extra |-> extra, naming |-> naming]

If(condition, fields) == IF condition THEN fields ELSE <<>>

(* Members nobody asks for: numbers, truths, texts, structures and lists, of *)
(* more items than a header's nibble counts.                               *)
Numbers(n) == [i \in 1..n |-> <<Varint(i)>>]
Statistics(id) ==
  FieldStruct(id, <<FieldI64(3, 0), FieldString(5, "max"), FieldBool(7, TRUE), FieldBool(8, FALSE)>>)
SizeStatistics(id) ==
  FieldStruct(id, <<FieldI64(1, 9), FieldList(2, "i64", Numbers(15)), FieldList(3, "struct", <<StructOf(<<>>)>>)>>)

(* A page's body, of whose values the writer says whether they are squeezed. *)
BodyOf(page, wire) ==
  page.reps \o page.defs
    \o IF page.type = "DATA_PAGE_V2" /\ wire.flag = <<FALSE>> THEN page.values ELSE Compressed(wire.codec, page.values)

(* The header of a page before its body.                                   *)
Headed(page, wire, body) ==
  LET sub == IF page.type = "DATA_PAGE_V2"
             THEN FieldStruct(8, <<FieldI32(1, page.n), FieldI32(2, 0), FieldI32(3, page.n),
                                   FieldI32(4, EncodingId[page.encoding]), FieldI32(5, Len(page.defs)),
                                   FieldI32(6, Len(page.reps))>>
                                 \o [i \in DOMAIN wire.flag |-> FieldBool(7, wire.flag[i])]
                                 \o If(wire.extra, <<Statistics(8)>>))
             ELSE FieldStruct(IF page.type = "DATA_PAGE" THEN 5 ELSE 7,
                              <<FieldI32(1, page.n), FieldI32(2, EncodingId[page.encoding])>>
                                \o If(wire.extra /\ page.type = "DATA_PAGE",
                                      <<FieldI32(3, 3), FieldI32(4, 3), Statistics(5)>>))
      size == Len(page.reps) + Len(page.defs) + Len(page.values)
  IN  StructOf(<<FieldI32(1, PageId[page.type]), FieldI32(2, size), FieldI32(3, Len(body))>>
                 \o If(wire.extra, <<FieldI32(4, 77)>>) \o <<sub>>) \o body

PageParts(page, wire) == Headed(page, wire, BodyOf(page, wire))

(* A page of some occurrences, its values by their places in a dictionary,  *)
(* if there is one. The first version has its levels in front of its values, *)
(* each stream behind its length.                                          *)
PageOf(path, held, dict, layout) ==
  LET levels(part, max) == IF max = 0 THEN <<>> ELSE RunsOf([i \in DOMAIN held |-> held[i][part]], layout.runs)
      present == SelectSeq(held, LAMBDA o : o.def = MaxDef(path))
      places == [i \in DOMAIN present |-> SelectInSeq(dict, LAMBDA d : d = present[i].value) - 1]
      plain == [i \in DOMAIN present |-> Datum(present[i].value)]
      indexed == <<Part("width", BitsNeeded(Len(dict) - 1), <<>>)>> \o RunsOf(places, layout.runs)
      values == IF dict = <<>> THEN plain ELSE IF present = <<>> THEN <<>> ELSE indexed
      behind(max, runs) == IF max = 0 THEN <<>> ELSE <<Length(Len(runs))>> \o runs
      v2 == layout.type = "DATA_PAGE_V2"
      page(reps, defs) ==
        [type |-> layout.type, n |-> Len(held), encoding |-> IF dict = <<>> THEN "PLAIN" ELSE "RLE_DICTIONARY",
         reps |-> If(v2, reps), defs |-> If(v2, defs),
         values |-> If(~v2, behind(MaxRep(path), reps) \o behind(MaxDef(path), defs)) \o values]
  IN  page(levels("rep", MaxRep(path)), levels("def", MaxDef(path)))

Dictionary(values) ==
  [type |-> "DICTIONARY_PAGE", n |-> Len(values), encoding |-> "PLAIN", reps |-> <<>>, defs |-> <<>>,
   values |-> [i \in DOMAIN values |-> Datum(values[i])]]

(* The chunk of some rows: pages of so many rows, or of so many occurrences *)
(* wherever those leave a row; a writer gives its dictionary up after the  *)
(* first page or keeps it.                                                 *)
DataPages(path, units, stored, layout, wire) ==
  LET count == (Len(units) + layout.per - 1) \div layout.per
      unitsOf(p) == SubSeq(units, (p - 1) * layout.per + 1, IF p = count THEN Len(units) ELSE p * layout.per)
      dict(p) == If(layout.values = "dictionary" \/ (layout.values = "fallback" /\ p = 1), stored)
  IN  FlattenSeq([p \in 1..count |-> PageParts(PageOf(path, FlattenSeq(unitsOf(p)), dict(p), layout), wire)])

ChunkOfOccurrences(column, shredded, all, stored, wire) ==
  LET layout == column.layout
      units == IF layout.type = "DATA_PAGE_V2" THEN shredded ELSE [i \in DOMAIN all |-> <<all[i]>>]
  IN  [path |-> column.names, plan |-> column.plan, occurrences |-> Len(all),
       dictionary |-> If(layout.values # "plain", PageParts(Dictionary(stored), wire)),
       data |-> DataPages(column.path, units, stored, layout, wire)]

ValuesOf(path, all) == {all[i].value : i \in {j \in DOMAIN all : all[j].def = MaxDef(path)}}

ChunkOfShreds(column, shredded, all, wire) ==
  ChunkOfOccurrences(column, shredded, all, SetToSeq(ValuesOf(column.path, all)), wire)

ChunkOfRows(column, shredded, wire) == ChunkOfShreds(column, shredded, FlattenSeq(shredded), wire)

ChunkOf(column, rows, wire) == ChunkOfRows(column, [r \in DOMAIN rows |-> Occurrences(column.path, rows[r])], wire)

-----------------------------------------------------------------------------
(* An element of the schema: its repetition, what a leaf stores, the members *)
(* of its logical type and its parts.                                      *)
SchemaNode(name, repetition, plan, logical, kids) ==
  [name |-> name, repetition |-> repetition, plan |-> plan, logical |-> logical, kids |-> kids]

RECURSIVE ElementParts(_)
ElementParts(node) ==
  LET leaf == node.kids = <<>>
  IN  StructOf(If(leaf, <<FieldI32(1, PhysicalId[node.plan.physical])>>)
                 \o <<FieldI32(3, RepetitionId[node.repetition]), FieldString(4, node.name)>>
                 \o If(~leaf, <<FieldI32(5, Len(node.kids))>>)
                 \o If(leaf, ConvertedField(node.name, node.plan))
                 \o If(node.logical # <<>>, <<FieldStruct(10, node.logical)>>))
        \o FlattenSeq([i \in DOMAIN node.kids |-> ElementParts(node.kids[i])])

RECURSIVE CountOf(_)
CountOf(node) == FoldLeft(LAMBDA sum, kid : sum + CountOf(kid), 1, node.kids)

(* The chunk's metadata, its pages at an offset.                            *)
ChunkParts(chunk, at, wire) ==
  LET data == at + Len(chunk.dictionary)
      size == Len(chunk.dictionary) + Len(chunk.data)
  IN  StructOf(<<FieldI64(2, 0),
                 FieldStruct(3, <<FieldI32(1, PhysicalId[chunk.plan.physical])>>
                                  \o If(wire.extra, <<FieldList(2, "i32", Numbers(2))>>)
                                  \o <<FieldList(3, "binary", [i \in DOMAIN chunk.path |-> <<Chars(chunk.path[i])>>]),
                                       FieldI32(4, CodecId[wire.codec]), FieldI64(5, chunk.occurrences),
                                       FieldI64(6, size), FieldI64(7, size), FieldI64(9, data)>>
                                  \o If(chunk.dictionary # <<>>, <<FieldI64(11, at)>>)
                                  \o If(wire.extra, <<Statistics(12), SizeStatistics(16)>>))>>)

(* A file of a schema, of row groups and of what is said of them.           *)
Serialised(nodes, groups, rows, pairs, wire) ==
  LET chunks == FlattenSeq([g \in DOMAIN groups |-> groups[g].chunks])
      pages == [i \in DOMAIN chunks |-> chunks[i].dictionary \o chunks[i].data]
      before(g) == FoldLeft(LAMBDA sum, h : sum + Len(groups[h].chunks), 0, [h \in 1..(g - 1) |-> h])
      root == StructOf(<<FieldString(4, "schema"), FieldI32(5, Len(nodes))>>)
      count == FoldLeft(LAMBDA sum, node : sum + CountOf(node), 1, nodes)
      schema == [id |-> 2, type |-> "list",
                 parts |-> ListHeader("struct", count) \o root
                             \o FlattenSeq([i \in DOMAIN nodes |-> ElementParts(nodes[i])])]
      chunk(g, i) == ChunkParts(groups[g].chunks[i], Begins(pages)[before(g) + i], wire)
      group(g) == StructOf(<<FieldList(1, "struct", [i \in DOMAIN groups[g].chunks |-> chunk(g, i)]),
                             FieldI64(2, 0), FieldI64(3, groups[g].rows)>>)
      pair(kv) == StructOf(<<FieldString(1, kv.key), FieldString(2, kv.value)>>)
  IN  FileOfParts(FlattenSeq(pages),
                  StructOf(<<FieldI32(1, 2), schema, FieldI64(3, rows),
                             FieldList(4, "struct", [g \in DOMAIN groups |-> group(g)])>>
                             \o If(pairs # <<>>, <<FieldList(5, "struct", [i \in DOMAIN pairs |-> pair(pairs[i])])>>)
                             \o <<FieldString(6, "other")>>
                             \o If(wire.extra, <<FieldList(7, "struct", <<StructOf(<<FieldStruct(1, <<>>)>>)>>)>>)))

-----------------------------------------------------------------------------
Names(path) == [i \in DOMAIN path |-> IF i = 1 THEN "a" ELSE <<"list", "element", "item">>[i - 1]]

(* The elements of a path, each in the one before it.                      *)
RECURSIVE Elements(_, _, _)
Elements(names, path, logical) ==
  SchemaNode(names[1], path[1], Plan("INT64", "none"), IF Len(path) = 1 THEN logical ELSE <<>>,
             IF Len(path) = 1 THEN <<>> ELSE <<Elements(Tail(names), Tail(path), logical)>>)

(* A geometry by its type, of a system if it has one: member 17 of the union. *)
GeometryType(crs) == <<FieldStruct(17, [i \in DOMAIN crs |-> FieldString(1, crs[i])] \o <<FieldI32(2, 0)>>)>>

Blob == Plan("BYTE_ARRAY", "none")
Measure == Plan("DOUBLE", "none")
BoundNode(name) == SchemaNode(name, "REQUIRED", Measure, <<>>, <<>>)
CoveringNode == SchemaNode("bbox", "REQUIRED", Blob, <<>>, <<BoundNode("xmin"), BoundNode("xmax")>>)
CoveringPaths == <<<<"bbox", "xmin">>, <<"bbox", "xmax">>>>

(* A column: the names and the repetitions of its path, what it stores and  *)
(* how its pages are laid out.                                             *)
ColumnSpec(names, path, plan, layout) == [names |-> names, path |-> path, plan |-> plan, layout |-> layout]

(* What a column of a file has in its rows: the box that covers a geometry  *)
(* where the geo metadata says so, the values of a path, and a geometry in *)
(* all rows but the first.                                                 *)
ShapeOf(r) == IF r = 1 THEN <<>> ELSE <<Geometry("Point", Position(r, 0, <<>>, <<>>))>>

SpecsOf(given) ==
  LET plain == [given.layout EXCEPT !.values = "plain"]
  IN  If(given.wire.naming = "geo",
         [i \in 1..2 |-> ColumnSpec(CoveringPaths[i], <<"REQUIRED">>, Measure, plain)])
        \o <<ColumnSpec(Names(given.path), given.path, Plan("INT64", "none"), given.layout),
             ColumnSpec(<<"shape">>, <<"OPTIONAL">>, Blob, plain)>>

HeldBy(given, rows) ==
  If(given.wire.naming = "geo", [i \in 1..2 |-> [r \in DOMAIN rows |-> Decimal(100)]])
    \o <<rows, [r \in DOMAIN rows |-> IF r = 1 THEN <<>> ELSE <<BlobOf(ShapeOf(r)[1])>>]>>

(* The g-th of the row groups.                                             *)
GroupOf(given, specs, cells, count, g) ==
  LET groups == given.layout.groups
      half == count \div groups
      part(s) == SubSeq(s, (g - 1) * half + 1, IF g = groups THEN count ELSE g * half)
  IN  [rows |-> IF g = groups THEN count - (g - 1) * half ELSE half,
       chunks |-> [i \in DOMAIN specs |-> ChunkOf(specs[i], part(cells[i]), given.wire)]]

FileOfRows(given, rows) ==
  LET geo == given.wire.naming = "geo"
      shape == SchemaNode("shape", "OPTIONAL", Blob, If(~geo, GeometryType(given.crs)), <<>>)
      said == GeoMetadata(<<"shape">>, <<GeoColumn("shape", given.crs, <<"ccw">>, CoveringPaths, {})>>)
  IN  Serialised(If(geo, <<CoveringNode>>) \o <<Elements(Names(given.path), given.path, <<>>), shape>>,
                 [g \in 1..given.layout.groups |-> GroupOf(given, SpecsOf(given), HeldBy(given, rows), Len(rows), g)],
                 Len(rows),
                 If(given.wire.extra, <<KeyValue("ARROW:schema", "schema")>>) \o If(geo, <<KeyValue("geo", said)>>),
                 given.wire)

(* What it says.                                                           *)
SaysOf(given, rows) ==
  LET path == given.path
      name == IF MaxRep(path) > 0 THEN "a" ELSE Names(path)[Len(path)]
  IN  [r \in DOMAIN rows |-> [geometry |-> ShapeOf(r), native |-> <<>>,
                              props |-> <<[name |-> name, value |-> Says(path, rows[r])]>>]]

FileOf(given) ==
  [file |-> FileOfRows(given, Samples(given.path)), says |-> SaysOf(given, Samples(given.path)),
   crs |-> ParseCrs(given.crs)]

(* A file that no rows are read of.                                        *)
Unread(file) == [file |-> file, says |-> <<>>, crs |-> <<>>]

(* A file of some elements and of chunks without pages.                     *)
UnreadOf(nodes, paths, geometries) ==
  LET wire == Wire("UNCOMPRESSED", <<>>, FALSE, "geo")
      chunk(path) == [path |-> path, plan |-> Blob, occurrences |-> 0, dictionary |-> <<>>, data |-> <<>>]
      group(g) == [rows |-> 1, chunks |-> [i \in DOMAIN paths[g] |-> chunk(paths[g][i])]]
      columns == [i \in DOMAIN geometries |-> GeoColumn(geometries[i], <<>>, <<>>, <<>>, {})]
  IN  Serialised(nodes, [g \in DOMAIN paths |-> group(g)], Len(paths),
                 <<KeyValue("geo", GeoMetadata(<<>>, columns))>>, wire)

(* A file with one part of it gone wrong: a footer longer than the file, no *)
(* magic, a page that is not of the size its header states, a codec nobody *)
(* knows, a chunk without its place, and copies from before the block.      *)
Damages == {"long", "magic", "size", "codec", "place", "before", "none"}

Damaged(file, how) ==
  LET end == Len(file)
      copy == SelectInSeq(file, LAMBDA p : p.is = "copy")
      place == SelectLastInSeq(file, LAMBDA p : p.is = "field" /\ p.n = 2 /\ p.of = <<"i64">>)
      headed(i, n, type) == file[i].is = "field" /\ file[i].n = n /\ file[i].of = <<type>>
      codec == 1 + Max({i \in 1..(end - 4) :
                          headed(i, 1, "i32") /\ headed(i + 2, 1, "i64") /\ headed(i + 4, 1, "i64")})
  IN  CASE how = "long"   -> [file EXCEPT ![end - 1].n = end]
        [] how = "magic"  -> SubSeq(file, 1, end - 1)
        [] how = "size"   -> [file EXCEPT ![5].n = @ + 1]
        [] how = "codec"  -> [file EXCEPT ![codec].n = 3]
        [] how = "place"  -> [file EXCEPT ![place].n = 3]
        [] how = "before" -> [file EXCEPT ![copy].of = <<99>>]
        [] OTHER          -> [file EXCEPT ![copy].of = <<0>>]
=============================================================================
