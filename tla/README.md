# geosetta in TLA+

geosetta converts geographic files: a reader per format fills a feature IR, a
writer per format empties it, and a GeoPackage or a KML document is more than
its features, so a write merges it with, or puts it back into, what was read.
These modules model what decides whether data survives: the order of passes and
of writes, long sequences of legal runs, what each format can say of a geometry,
a value, a column and a reference system, and what an edit does to a document
that is otherwise replayed. TLC checks them on small instances and TLAPS proves
the main invariants of the merges for all sizes. Paths below are relative to the
root of the repository.

## The system

The program is one sequential command (no threads, no network, no persistent
process). Its hard behaviour is therefore not interleaving but what several
passes do to each other's numbers, what several *runs* on one output or through
several formats add up to, what is left on disk when one of several writes
fails, and what of a document survives an edit made to its projection.

| component | sources | state it keeps | operations | what makes it correct |
|---|---|---|---|---|
| command | `src/main.rs`, `src/cli.rs` | the file system | refuse, read, reconcile, write, warn | the input survives; only the output is touched; what is left stale is announced |
| hub | `src/convert.rs`, `src/format.rs`, `src/tally.rs` | none | read to IR, write from IR, reorder | every format reaches every other; what a format cannot hold is announced |
| feature IR | `src/feature.rs`, `src/native.rs`, `src/schema.rs` | features, natives, declared columns | edit, infer columns | a payload is replayed only to the format it came from; the inferred type holds every value |
| GeoPackage reader | `src/geopackage/reader.rs`, `carry.rs` | the container in memory | layers, CRS, row ids, cells; pyramids, tables, metadata | what the writer would regenerate is not carried, all else is |
| GeoPackage merge | `src/geopackage/reconcile.rs` | the merged container | union of pyramids, tables, metadata | a union where one exists and a refusal where none does; references follow renumbering |
| GeoPackage writer | `src/geopackage/writer.rs`, `rtree.rs` | the tables to write | compose layers, number reference systems and rows, retain references, index | registry keys hold, nothing dangles, nothing is relabelled |
| GeoPackage survey | `src/geopackage/container.rs` | none | list what a write loses | names every loss and nothing that survives |
| SQLite | `src/sqlite.rs` | pages | pack and walk b-trees, records, varints | a packed tree reads back as the rows in order |
| FlatGeobuf | `src/flatgeobuf/`, `src/flatbuffers.rs`, `src/spatial.rs` | a header, nodes of a packed R-tree | columns, geometry tables, Hilbert sort | ends and parts give the geometry back; a parent covers its children |
| Parquet | `src/parquet/` | schema tree, row groups, pages | plan and store columns; rebuild rows from levels | every row has its own value, as nested as it was |
| decompression | `src/compress/` | the output so far | literals, back-references | output is what was compressed, errors otherwise |
| Shapefile | `src/shapefile/` | records, rings | group rings, size fields | holes stay in their shells; values fit or are refused |
| KML, KMZ | `src/kml/`, `src/xml.rs`, `src/zip.rs` | element trees, skeletons | project, edit, reconcile, assemble, raise, lower | an unedited element is replayed, an edited member shows, no other moves |
| GeoJSON, CSV, WKT, WKB | `src/geojson/`, `src/json/`, `src/csv.rs`, `src/geometry/` | none | parse, print | both GeoJSON readers agree; a cell is typed only if it prints back the same |
| reference systems | `src/crs.rs`, `src/crs/` | an identity and definitions | identify, convert definitions | an identity is never invented |

How they meet: `main` calls one reader, then the edits (`--sort-hilbert`,
`--crs`), then one writer. A run into a GeoPackage also reads the *output*
(`run_geopackage_write`, `src/main.rs:953`), merges what both containers carry,
composes the layers, and rebuilds every registry table from nothing. So ids of
three kinds are renumbered on every append (tile rowids, metadata ids,
`srs_id`s), a fourth kind (feature ids) is carried through a public vector that
anyone may edit, and references between them are remapped and filtered in a
fixed order of passes. A run through any other format keeps what that format can
say and what its own reader stored to be replayed (a GeoJSON's members, a Parquet's
Arrow schema, a KML's documents); the next run sees only that.

## The modules

| module | models | checked by | proved in |
|---|---|---|---|
| `TileMerge` | one call of `merge_tiles` | `MCTileMerge` | `TileMergeProofs` |
| `MetadataMerge` | one call of `merge_metadata` | `MCMetadataMerge` | `MetadataMergeProofs` |
| `GpkgAppend` | a sequence of appends to one file; composes the two above | `MCGpkgAppend` | `GpkgAppendProofs` |
| `GpkgUnion` | what an append promises (abstract) | implemented by `GpkgAppend` | `GpkgAppendProofs` |
| `GpkgSrs` | the numbering of reference systems through appends | `MCGpkgSrs` | `GpkgSrsProofs` |
| `GpkgFeatureIds` | row ids of features through read, edit and write | `GpkgFeatureIds` | `GpkgFeatureIdsProofs` |
| `ConvertRun` | one run of the command on a directory | `MCConvertRun` | `ConvertRunProofs` |
| `SqlitePages` | what a cell weighs, overflow chains, the reader's walks | `MCSqliteTree` | `SqliteReadProofs` |
| `SqliteTree` | one call of `write_database` | `MCSqliteTree` | `SqliteTreeProofs`, `SqliteReadProofs` |
| `Conversions` | a layer through several runs and formats; composes the next ten | `MCConversions` | |
| `Cells`, `Formats` | values, inferred columns, declarations; what each format can say and which losses are announced | `MCConversions` | |
| `Geometries` | geometries, WKB, WKT, the GeoPackage blob | `MCConversions` | |
| `CrsIdentity` | definitions in three dialects and their translations; which identity each format records | `MCConversions` | |
| `ParquetBytes` | the parts of a GeoParquet file: Thrift structures, page headers, the footer, Snappy and LZ4 | `MCConversions` | |
| `FlatGeobufFile`, `ShapefileSet`, `ParquetFile`, `GpkgFeatureTable`, `GeoJsonText`, `TextTables` | each format's writer and reader; of `ParquetFile` also the reader on files of other writers | `MCConversions`, the latter against `ParquetRecords` | |
| `Kml` | a KML or KMZ file read, edited and written; composes the next seven | `MCKml` | |
| `KmlDocument` | the element tree; detection, splitting into skeleton and features, assembling | `MCKml` | |
| `KmlFeatures`, `KmlProjection`, `KmlEdits`, `KmlReconcile` | an element as a feature, a feature as an element, an edit put into the element it was read from | `MCKml` | |
| `KmlTables`, `KmlVersions` | what the two schemas admit; raising and lowering and their reports | `MCKml` | |

`MC*` modules give the constants their small sets (those of `GpkgFeatureIds` are
plain enough for its `.cfg`); the `.cfg` files name the properties. Definitions headed "Mutant of" are plausible bugs of the operator
below them; no specification uses them, and with one put in its place TLC finds
the property named for it violated. `PROJECT.json` maps every definition to its
lines.

**TileMerge.** State: `into` and `from` (the two pyramids), the loop's position
`todo`, the allocator `next`, the `IdMap` `rowid`, and the `outcome`. One action
per branch: the scheme checks (`RefuseScheme`, `Begin`), and for each source
tile the same tile (`KeepHeld`), a different tile at the same coordinates
(`RefuseOverlap`), or a new one (`Reissue`); `Finish` recomputes the
AUTOINCREMENT mark and widens the extent. A pyramid's DDL, CRS and matrices are
one value, `scheme`; `Mergeable` is the set of those whose DDL the crate can
parse and index. A tile is its key and its remaining columns. Rowids stay below
2^63: neither table reaches the end of the range, which the code does not guard.

**MetadataMerge.** State: the two sides, the maps of tile rowids, the pair being
merged, the map of record ids, the position, the phase. `ShareRecord` and
`AddRecord` are the two branches of `merge_records`; `ShareReference` and
`AddReference` those of the reference loop, with `Mapped` the three remaps. A
document's four content columns are one value; the timestamp, no part of a
reference's identity, is left out.

**GpkgAppend.** A container is its layers, pyramids, tables and metadata. `Start`
reads source and destination; the merge follows `reconcile` function by function
and runs `TileMerge` and `MetadataMerge` step by step on shared variables;
`RefuseBuild` and `Write` are `build` with its refusals, `retained_references`
and the single write. A source that is not a GeoPackage is one with a layer and
nothing carried. Left out: rows of tables (a shared table name is refused, so
they never mix), the extension registry, and the `--rtree` index.

**GpkgUnion.** The promise, without ids or row order: the content after an append
is the union, later layers replacing earlier, or nothing has changed.
`GpkgAppend`'s property `ImplementsUnion` is the refinement, with the mapping
`Box(file)`: what a reader sees.

**GpkgSrs.** One run resolves each layer (`LayerDefault`, `LayerCode`,
`LayerSynthetic`) and then each carried object (`ObjectDefault`,
`ObjectRegister`, `ObjectShare`, `ObjectSkip`, `ObjectRenumber`); `Write` is the
rebuilt registry together with what `resolve_crs` reads from it at the next run.
`arrived` remembers the layers and the systems they came with. 4326 and 100000 are constants,
drawn down to 2 and 5 so that small codes fall on, below and above them.

**GpkgFeatureIds.** `Read` carries an id only where it differs from the position;
the edits in memory are the reorder of `--sort-hilbert`, an exchange with a
format that holds no ids, and the insertions and removals a consumer of the
library makes in the public vector; `Write` is `feature_ids` and the row half of
`retained_references`. References remember what they were about.

**ConvertRun.** The disk maps a path (stem, extension, case of the extension) to
the data of an older run, of this run, both (an append), nothing, or a broken
file. The refusal of `refuse_same_file`, the reads with `sibling_path`'s choice
of case, the writes one by one with a failure before or after the truncation at
each, the loop of a fan-out, and the warnings at the end of each set.
`UnwrittenSidecars` has one member for the several the code lists alike. The
directory is case sensitive and has no links.

**SqlitePages, SqliteTree.** A record is its key and its length; in
`sqlite_master` also the root page it names. `objects` is the list of b-trees to
build in the order of `write_database` (a table, its own indexes,
`sqlite_sequence` after the first AUTOINCREMENT table, then the carried
objects); `items`, `done`, `taken` and `used` are the greedy loop of one level,
`above` the level it builds, `promoted` the records an index level pushes up.
`PlaceCell`, `CloseLeaf`, `PlaceChild`, `CloseInner` pack a table; `PlaceRecord`,
`CloseIndexLeaf`, `PlaceDivider`, `CloseIndexNode` an index; `NextLevel` and
`NextIndexLevel` go up; `MasterLeaf` and `MasterRoot` are the two forms of page 1.
The byte arithmetic (varints, the local share of a long record, slots, headers)
is the code's; what is in the bytes is abstracted to lengths, so the header of a
record, text and DDL are not there. `WalkTable` and `WalkIndex` are the reader's
walks of the pages written, and a truncated or foreign chain, or a page of another kind, yields
`Truncated`.

**Conversions.** State: the `layer` in memory, the one `before` the last run,
the formats of the last run and the one before it, the warnings printed, the
outcome, and `stated`, the reference system the layer has been said to be in
since a warning last gave it up. One action per target: what the layer is as a
file (`WriteFgb`, `WriteShapefile`, ...) and that file read (`ReadFgb`, ...), in
one step because a run either refuses or writes everything it read. `ToGpkg`
writes with an envelope or without; `Override` is `--crs`. A second kind of
initial state is a GeoParquet file of another writer, read (`ReadForeign`) beside
the rows it says.

**Cells, Formats.** A value is its kind and what it spells; integers have their
width scaled (one byte has two bits, eight have five) and floats are counted in
hundredths, so every overflow and every rounding that the code guards against
happens in a handful of values. `Inferred` is `schema::infer`, `Declared` the rule by
which a declaration stands or falls against the data; `Warnings` is what
`feature.rs` announces of a target.

**Geometries.** A geometry is its type and nested positions. WKB and WKT are
token sequences with their type codes, counts and dimension suffixes, read by
recursive readers like the code's; the dimension of a list is that of its first position, as in
the code.

**FlatGeobufFile, ShapefileSet, ParquetFile, GpkgFeatureTable, GeoJsonText,
TextTables.** Each is the format's file as a record and the code's two functions on
it. FlatGeobuf: `ends`, flat coordinates and parts. Shapefile: rings in one flat
list with their winding, `ClassifyRings`; dBase field sizes with the cap of 255
drawn down to `FieldCap`. Parquet: physical and converted types, dates as days,
the replayed Arrow schema. GeoJSON: the members of an object in order, both
readers. CSV and WKT: which column is the geometry, when a cell is typed, which
rows have no line.

**ParquetBytes, ParquetFile, ParquetRecords.** A GeoParquet file is one sequence of
parts, a part being what the code reads at once: a number, a text, a field's header,
a run, a value, an element of a compressed block; offsets, sizes and the footer's
length count parts. `StructOf`, `FieldList` and the rest are `CompactWriter`; `Take`
and `Skip` are `CompactReader`: a structure is read field by field, ids counted from the last,
by the shape that each parser of `reader.rs` expects, and whatever the shape does
not name is skipped. `SnappyCompress` matches and splits copies as `encode_block`
and `emit_copy` do, and `CopyMatch` repeats what it has just written.
`WriteParquet` lays out pages and `BuildFileMetadata`; `ReadParquet` finds the footer, takes
it apart (`ParseFileMetadata`), adds levels up the flat schema (`Walk`), decides which chunks
are refused, follows each chunk's pages by their offsets and sizes (`ReadPages`),
brings a page of version two to the form of version one (`BodyV2`, as in the code),
and decodes runs, dictionaries and values, regrouping rows from
levels (`GroupListValues`). `ParquetRecords` models no code: it shreds rows into
occurrences, pages and row groups the way the Parquet format defines it, for any
path of repetitions, serialises them with members this reader has no use for, and says
what each row is; the reader is held against it.

**CrsIdentity.** A definition is its dialect, kind, name, datum,
axes, unit, method and ids; a translation maps one dialect's record to
another's, and `Meaning` says when two are the same system. An identity is
`Crs`, with its constructors and what each format stores and recovers.

**KmlDocument to Kml.** A document is a tree of elements with their comments; a
feature's element is projected onto properties and a geometry (`Project`), an
edited feature is reconciled with its element (`ReconcileFrom`), and the elements
are put back into the skeleton at their paths (`Assemble`). The written version
is chosen as `writer.rs` does and each document raised or lowered by `KmlTables`, with the report of
what changed. `Kml` strings these together: read an archive, edit one feature in
one of the ways a caller of the library can, write as `.kml` or `.kmz` in either version.
The generated tables of `model.rs`, `lower.rs` and `raise.rs` are cut to the
elements that are treated differently.

## What is checked

| run | shows |
|---|---|
| `tile_merge` | the types hold, the merged rows ascend (`MergedRowsAscend`), the result is the union (`MergeIsUnion`), refused exactly without one (`RefusedExactlyOnConflict`), and the mark and extent cover it (`MarkAndExtentCover`) |
| `metadata_merge` | ids stay distinct through reissues (`MergedIdsDistinct`), and every reference says afterwards what it said before, with none lost or invented (`MergedMeaningIsUnion`) |
| `gpkg_append` | three appends in any order refine the union (`ImplementsUnion`), are refused only without one (`RefusedOnlyOnConflict`), keep the keys of the registries (`RegistryKeysHold`), leave no dangling reference (`WrittenReferencesResolve`), lose none whose target survives (`NothingStatedIsLost`), and, when what a merge put in is appended again, add nothing but second rows of references that had to be normalised (`AppendAgainAddsOnlyRepeats`) |
| `gpkg_srs` | every id has exactly one row (`EveryIdHasOneRow`), carried objects keep their system (`CarriedDefinitionStands`), and so do layers whose code nothing else has claimed (`RegisteredLayersKeepTheirCrs`) |
| `feature_ids` | the table can be packed after any edit (`RowsCanBePacked`), references name rows that are there (`ReferencesResolve`), a plain copy reproduces the ids (`PlainCopyKeepsRows`), removals keep what references mean (`RemovalKeepsMeaning`) |
| `sqlite_tree` | greedy sums agree with rendered sizes (`PagesFit`), every table and the schema read back (`TablesReadBack`), every page is named exactly once (`EveryPageUsedOnce`), and the call returns (`CallReturns`) |
| `convert_run` | the input stands (`LowerCaseInputStands`), stale files are exactly the announced ones (`StaleFilesWarned`), success means that every file the run was to write, be it one, the four or five of a Shapefile or those of every layer, holds this run's data, and no end leaves more than one broken (`EndsWhole`), nothing but the output is touched, and once (`TouchesOnlyItsOutput`) |
| `conversions` | a declared type lands where `Format::recast` says (`LandsAsRecast`), a declaration never costs a value (`DeclarationsDestroyNothing`), every geometry comes back with its rings in their polygons and its ordinates in their places (`GeometryReturns`), a second run of a format changes nothing (`SameFormatSettles`), a layer is never silently said to be in another reference system (`CrsNeverRelabelled`), a column's type is the least that holds it whatever the order of rows (`LeastType`), both GeoJSON readers read the same rows (`EitherReaderReads`), and other writers' GeoParquet, down to its compressed pages and Thrift headers, reads as it was shredded or is refused (`RecordsReadBack`) |
| `kml` | what is written shows the edited collection (`EditsShow`), the rest of each document stands in its place, comments included (`DocumentStands`), an edit moves no member it was not about (`EditTouchesOnlyItsMembers`), and a change of version does what was announced, into the target's order and set (`VersionChangeAnnounced`) |

### Where the code and its words differ

These runs are expected to fail: each checks a sentence of the repository and
TLC shows a run of the code that contradicts it. `PROJECT.json` quotes the
sentence.

| run | what happens |
|---|---|
| `sqlite_tree_promoted` | an index whose last record is promoted over a full page loses it (`src/sqlite.rs:1253`) |
| `crs_identity` | a projected system without an id comes back from FlatGeobuf or a Shapefile under the id of its base system (`src/crs.rs:645`) |
| `kml_footprint` | a footprint whose ring runs westward is written as a box around the rest of the world (`src/kml/project.rs:743`) |

The models and the reading for them also show these, which no run is spent on.
What the passing runs claim is stated with them in mind.

*GeoPackage and SQLite.* A reissued tile rowid may be one that AUTOINCREMENT had
retired (`src/geopackage/reconcile.rs:252`). A kept metadata id may fill a hole
the destination still points into (`:495`), and is appended behind higher ids
though `src/sqlite.rs:895` asks for rowid order (`:498`). A document that a source
holds under two ids stays two when the file is first made, and the references to
the second are restated about the first when the source is appended again. When
the destination has no metadata, the source's pair is copied and keeps the rowids
its tiles had there, also where the pyramids have just been merged and
`src/geopackage/writer.rs:677` says that every incoming row reference is remapped
(`:424`). Two carried tables may bring an index or a trigger of one name (`:117`): the model
has the names `gpkg_contents` lists, not those of `sqlite_master`. An incoming
reference that named no document may name one of the destination's after the
merge (`:522`). NULL identifiers are read as text and then collide
(`src/geopackage/writer.rs:1357`). A reference that has to be normalised is deduplicated as the source states it and
normalised when it is written, so every append of it adds one more row (`:746`);
`AppendAgainAddsOnlyRepeats` says that this is all a repeated append adds. Two authorities with one code share
the first one's row (`:1101`). The synthetic id of a layer without a code may
meet another system's at a later append, though `:1033` says otherwise (`:1059`).
A reordered layer may get a mixture of carried ids and positions (`:1629`), and
after it a row reference names another feature (`:1638`). The last interior page of
a level may have one child and no cell (`src/sqlite.rs:1382`). A schema row too
long for page 1's capacity fails the write only when page 1 must branch
(`:1357`).

*The command.* `touched_paths` knows lower-case extensions only: a run from
`roads.SHP` to `roads.DBF` writes over its input though `src/main.rs:598`
promises a refusal (`:573`). A fan-out into the directory of its input is compared
with the directory only (`:617`). An output that exists and cannot be read is
replaced (`:956`).

*Columns and values.* The number of rows of a `.dbf` is that of its first column
(`src/shapefile/dbf.rs:329`), so a layer without properties gets a `.dbf` of no
rows, which geosetta's own reader refuses. A replayed Arrow schema is checked by
names, not types. Widths, precision, scale and nullability do not survive
GeoPackage or GeoParquet and no warning says so. Whether a `Float32` declaration
loses digits is not checked. In dBase an all-null `Int` or `Float` column becomes
text, `Binary` becomes blanks, a declared scale rounds, and text in a declared
date is blanked; null text reads back empty. In GeoParquet 31 February shifts to
March, a local time gains a Z, and JSON text spelling a number reads as one;
a dictionary-encoded unannotated byte array is read as text where a plain one is
binary (`src/parquet/reader.rs:1602`); a list of structures of several fields in
the standard three-level form passes as several lists of one name, although
`LeafInfo` says it is refused (`:663`); a list column is declared with its
element's type. `skip` has no place for Thrift's integers of one and two bytes
(`src/parquet/thrift.rs:334`), so a file that has one where the reader looks for something
else is refused: the bit width of the logical type INTEGER, although
`src/parquet/reader.rs:600` says that "every other member" of a logical type "is skipped
whole", and a row group's ordinal. The files of `conversions` have neither, so `RecordsReadBack`
says nothing of them. A row of CSV or WKT with nothing in it vanishes. Properties
named geometry, geom or fid collide with the columns of that name.

*Geometry.* FlatGeobuf drops z and m of a geometry whose first position lacks
them and gives a polygon of no rings an empty one; WKT's empty lists are
refused by the reader; an outer ring without area becomes a hole in a Shapefile.

*Reference systems.* A definition in WKT without its id loses authority and code
on the way to PROJJSON or a `.prj`; a layer in WGS 84 is anonymous after a
Shapefile; one that states nothing reads as WGS 84 from GeoParquet and GeoJSON; a
code that is no number becomes a synthetic one in a GeoPackage (this is
announced). The WKT1 of a geographic system ignores a unit its coordinate system has.
The two GeoJSON readers differ on foreign documents in the collection's name,
its members and repeated keys, though `src/geojson/mod.rs:113` says they do not;
`EitherReaderReads` is about the rows of what geosetta wrote; of its own documents, too,
the reader of a parsed tree drops the collection's name and members, and the command
takes it only for a text without `features`.

*KML.* Reconciling an edited feature moves members that were not edited
(`src/kml/reconcile.rs:1`): a `when` that is no KML time, an empty icon, an
unknown altitudeMode go to ExtendedData, and a `Data` of a name or a time moves
into its element. Where carriers disagree on altitudeMode or extrude and
ExtendedData has a value of that key, any edit sets it on every carrier. An empty
collection is written as `<MultiGeometry/>` and a polygon without rings as
`<Polygon/>`, which the reader refuses. A footprint edited into a LatLonBox loses
its z. Raising renames Metadata to ExtendedData, so that its contents become
properties. An edit to text or null of a `Data` reads back as text. Of three
documents that type a column differently, the third brings back the declaration
the second removed (`src/kml/reader.rs:74`); the archive of `kml` has two that do. An unstamped 2.3 document, asked
for as 2.3, is written unstamped and reads as 2.2 once its last 2.3 element has
been edited away.

Accordingly `MetadataMerge` takes only sides whose references name documents
(`MCRooted`), as the standard requires of a file; `RefusedOnlyOnConflict` speaks
of identifiers as the reader sees them; `AppendAgainAddsOnlyRepeats` is about a source
whose references went in through a merge, or could as well have (`Absorbs`); `RegisteredLayersKeepTheirCrs` is about
codes below the synthetic ones that one authority gave out; `RemovalKeepsMeaning`
is about layers all of whose ids were carried; the sources of `conversions` leave
out JSON text that spells a number, definitions with ids only inside them, WKT2
without axes in other units than metres and PROJJSON in grads; `GeometryReturns`
compares geometries that are `Full` and of `OneDimension`; and in `Kml` the
premises of the properties name the cases above (`WithRivals`, `TakenAs`,
`TypedAsDeclared`).

### Bounds, and why they are enough

* `tile_merge`: every pair of pyramids of up to `MaxTiles` tiles with rowids up
  to `MaxRowid`, three coordinates, two contents. Holes, a full overlap, a
  partial one, a conflict after a merged prefix and a mark above the highest
  rowid all occur; the loop treats tiles one at a time.
* `metadata_merge`: every pair of up to two records with ids up to `MaxId`, three
  documents, one reference with or without a parent. Two records are what a
  reissue that collides with a later source id needs.
* `gpkg_append`: eleven containers chosen so that each refusal, each kind of
  reference, each scope and each NULL occurs, and `MaxRuns` = 3 appends: put in,
  replaced or refused, and put in again.
* `gpkg_srs`: two layer names, two objects, `MaxRuns` = 3. A misnumbering needs
  one run to write an id, one to read it back beside a newcomer; the third shows
  nothing drifts.
* `feature_ids`: tables of up to three rows, ids below, on and above the
  positions and one that is not positive, `MaxRuns` = 2.
* `sqlite_tree`: pages of 200 bytes, the header of page 1 still 100, and 163
  databases: every row count from none past a full leaf, trees of one, two and
  three levels with the counts around each change, lengths on both sides of the
  limits of a leaf, an index page and a chain of overflow pages, rowids whose
  varint has one, two or nine bytes, and schemas that fit page 1, do not, or cannot.
  The formulas depend on the page size only through `PageSize`.
* `convert_run`: two stems, both spellings, 256 initial directories.
* `conversions`: 71 layers of two rows that differ from a plain one in one thing:
  eleven lists of geometries (every type and dimension, holes, several shells,
  mixed types), 42 columns (every declared type with values on its limits, past
  them, null, or of another kind), nine reference systems, and carried members;
  `MaxRuns` = 3 runs through any of seven formats, so that a format is reached
  from every other and runs twice in a row. One difference at a time is enough
  because geometry, columns and reference systems do not meet in the code, except where
  a format's geometry column meets a name, for which there are layers of their own.
  Files of other writers: ten nestings, in rows that end in every way their path
  can end, a value repeated so that a codec's copy overlaps what it writes, laid out with one, two or all units per page, either page version, runs or
  packed runs, plain, dictionary or both, one or two row groups, each on one of four
  wires: Snappy, LZ4 or neither, a page of version two said to be compressed, said not
  to be or silent, with members to be skipped or without, and the geometry named by the
  metadata, with a covering box to be passed over, or by its type. Six files are refused for their
  schema and seven because one part of them is wrong: the footer's length, the magic, a page's
  size, a codec, a place, a copy from before its block. They are only read; their leaves are whole
  numbers and they have one property column and at least one row group. `MinNonLiteralBlock` and
  `CopyLimit` stand for Snappy's 17 and 64 bytes, so that blocks of a few parts fall on
  either side and a match takes several copies.
* `kml`: 12 files of either version, `.kml` and a `.kmz` of four documents, with
  folders, comments between all kinds of children, repeated keys, a schema,
  overlays, tracks, foreign elements; five that are refused; and three collections
  from elsewhere. `MaxEdits` = 1: an edit gives any feature one of eight
  values or five shapes, drops one of its properties, or removes, adds or swaps
  features, and what it may disturb are the members that were there. Metadata occurs only in a folder, footprints have no z, turned boxes
  are quarter turns on the equator, and `TypedAsDeclared` is about keys with one
  value in unedited features.
* `crs_identity`: the layers of `conversions`, with --crs given a projected system
  without an id; `kml_footprint`: one overlay and one ring.

Deadlock is checked in `conversions` and `crs_identity`, where an ended
behaviour stutters (`Ended`). Elsewhere it is not: every behaviour is a call, a
run or a bounded number of runs that really ends.

Fairness: only `SqliteTree` assumes any, weak fairness of `Next`: it is one call
of a sequential program without waits, so it keeps executing until it returns.

## What is proved

Theorems hold for every value of the constants that satisfies the named
assumptions of the module (`PyramidAssumption` and so on), which say how the
inputs are read: rows in rowid order, keys distinct, `None` not a number.

* **TileMergeProofs.** The strengthening relates `next` to the table: it is at
  least every rowid of it (so a reissue appends in order), the destination's rows are a
  prefix, every tile after the prefix is an already visited source tile,
  and the map's domain is what has been visited. From it
  the type invariant, the order, faithfulness of the map, the union, exactness
  of refusal, cover, and the stability of destination rows.
* **MetadataMergeProofs.** The invariant says that merged ids are distinct, that
  the map's domain is the visited records and its values name the same document,
  and that everything past the destination's prefix is new; besides the properties of
  the run it yields that nothing is added twice (`AdditionsAreNew`) and that no
  row of the destination moves (`DestinationStands`), as `DestinationRowsStand`
  does for tiles. A second invariant (`Followed`) follows every record and
  reference from where it came: the destination's stand, those visited have
  reached the merged pair, and everything merged came from a side. Where every
  reference names documents of its own side, a finished merge then says what
  both sides said (`MergedMeaningIsUnion`). That assumption is the theorem's own:
  the code does not check it (`src/geopackage/reconcile.rs:522` is the hazard).
  A third (`MapLeast`, for the appends) says that an id is mapped to the lowest id
  its document has in the merged pair.
* **GpkgAppendProofs.** Through any sequence of appends of any containers, with
  and without `--layer` and however many of them are refused, `out.gpkg` holds
  what `GpkgUnion` says (`ImplementsUnion`, the refinement), keeps the keys of
  its registry, is never refused without a conflict, and states nothing that
  dangles; and what it stated before an append it states after it, unless its
  target is gone (`NothingStatedIsLost`). The invariant has a part for each stage of
  `reconcile`: while pyramids are visited, those behind the loop are already the
  union's and those ahead are the destination's (`PyramidsTo`), with the hazard
  of one name in two kinds ruled out up front; while one is merged, the two bodies are
  the two sides' and `TileMergeProofs`' own invariant holds of the shared
  variables; while the pair is merged, `MetadataMergeProofs`' does; and what
  reaches `build` is the union but for the layers (`United`). The two
  components are used as they stand, by `INSTANCE`: of a finished or refused
  merge only `FinishedIsUnion`, `RefusalIsExact` and `MergedPair` are cited. At
  the write, the refusals of `build` are shown to be the rest of
  `Conflict` (`RowsAreEntries`, `BuildIsUnion`), and the file to read back as
  what was composed (`ReadsBack`): no table is written without an identifier, so
  the defaults `read` fills in are never needed twice. Two functions over data are
  proved by the least counterexample (`LeastNumber`): that sorting by id permutes the
  records (`SortedRecords`, where the k-th is the one with k - 1 smaller ids) and
  that `retained_references` keeps exactly what is retainable
  (`RetainedMembers`, by way of the loop it is). That an append of what is
  already there adds nothing but second rows of what had to be normalised
  (`AppendAgainAddsOnlyRepeats`) needs a second invariant
  (`Again`), about single rows instead of contents: where a merge puts a reference
  of the source is a relation (`Lands`: about the lowest record of its document, on
  the row of its tile), the rowid maps and the id map put it there (`RowMapLands`,
  `LookupLands`), and the file that took it in holds it there, normalised
  (`HoldsPair`). Where a reference lands is unique (`LandsOnce`) and does not
  change with what the second merge carries (`LandsAlike`), and normalising twice is
  normalising once (`NormalisedAgain`), so the second write finds everything in place.
  Of the reference rows it has to be known how often each is there as well: a merge
  appends to the destination's references, in the order of the source's, those it does not find
  (`MergedRefs`), the write keeps their order and drops none of those a file held
  (`RefsInOrder`, `RetainedPrefix`), judging each as it was judged before (`JudgedAlike`), and a
  reference that finds no equal among them differs from its normalised form (`RepeatsOnly`).
  `SourcesAssumption` is what SQLite's keys enforce of any container that can be read;
  `ConstantsAssumption` keeps `None` apart from numbers, names and pairs.
* **GpkgSrsProofs.** The invariant says that no registered id is a default's,
  that every id given out is registered or a default, and that registrations are never
  overwritten, so what an object was told stays true. `RegisteredLayersKeepTheirCrs` needs to
  know where a code came from as well: a second invariant (`Kept`) says that every code below the synthetic ids,
  in a label or in a registered row, was claimed by something that arrived;
  that a layer waits as it arrived until its step, and afterwards carries the id
  of its own system; and that rows only join, so no label changes under a layer
  that was given it. Where one authority gave out a code, the row found under it can
  only be the layer's own.
* **GpkgFeatureIdsProofs.** The invariant carries the order of the stored table;
  a plain copy is shown to propose exactly the ids that were read. For removals
  (`RemovalKeepsMeaning`) it also says that the memory holds rows of the file, in their
  order and with their ids where those lie beyond the positions (`Carried`): then `feature_ids`
  takes every id as it is, and a reference that is kept finds its row.
* **ConvertRunProofs.** Everything the run of `ConvertRun` is checked for, for any
  names, layers, disks and commands. The invariant says which files still have to be written
  (`Remaining`: the rest of the collection at hand and the files of the later ones) and
  that those are as they were while every other file of the output is whole; that a lower-case
  file of the input is one the refusal has compared; and that the warnings are right
  about every collection finished so far. The files of two layers never meet,
  because the layers' stems differ (`JobsApart`), so a later layer cannot undo
  what an earlier one's warnings said. `DataAssumption` says that data, no file and a broken
  file can be told apart; the layer names are finitely many.
* **SqliteTreeProofs.** For any databases, of any number and size of records, and any
  page size that SQLite admits. `PagesFit` rests on what the greedy loop counts:
  `used` is the sum of what the items on the open page cost (`Filled`), the renderer
  weighs a page cell by cell to the same sum, and no cell is too large for an
  empty page of its kind but a schema row on page 1, which is refused. An index
  page of one child more than dividers needs `Separated`: between two pages of a
  level there is a promoted record. `EveryPageUsedOnce` needs to know of every page at
  every step by what it is named: `Linked` says that each is named once, by a page,
  as a root, or from where it waits (a cell's chain, a child not yet on a closed
  page, the level being built), and `Numbered` that the pages are numbered without
  a gap. A closing page takes over the links of its items (`Closing`), and the
  chains of new cells name the pages made for them and no others
  (`ChainsNamed`). Sums, chains and the list of objects are functions over
  data, proved by the least counterexample.
* **SqliteReadProofs.** That the reader gets back what was written
  (`TablesReadBack`): `sqlite_master` from page 1, and under the root it gives of
  each table that table's rows, whole and in order, through any number of levels and
  of overflow pages. The invariant is a certificate, a function `S` that says
  of every page what the walk of it returns (`Certified`): a leaf its cells'
  records, whose chains are whole (`Whole`), an interior page what its children
  have, one after the other, and a page of an index or a chain nothing of a table.
  `WalkReturns` shows that a certificate is the walk: the walk is a recursive function, and children
  are numbered before their parent, so a least page on which they differ does not exist.
  That pages are only ever added, under new numbers, makes each step an
  extension of `S` (`CertificateGrows`; the numbering is `Numbered`, from the theorem above).
  `Packed` says what the level in hand reads as: the closed leaves as the rows
  before the open one, a level above as the part of the level below that it is
  over. So a finished level reads as all the rows (`LevelReads`) and a root taken as its table
  (`Rooted`). Concatenation of any number of sequences is proved to be what this needs
  (`FlattenAppend`, `FlattenConcat`), and `leaf_cell` to find the record of a chain that
  is whole (`WholeReads`).

Model-checked only: everything about `Conversions` and `Kml`. Out of the prover's reach: `CallReturns`, which is
liveness; the library's induction theorems, which take an operator as a
parameter (where a proof needs induction it takes the least counterexample instead);
and everything on `Conversions` and `Kml`, whose geometries
and element trees are read by RECURSIVE operators. Only modules that no theorem reaches
declare any.

## Plan

What is left, in order:

1. `SchemaTables`: the constraint names of several layers renamed into one table
   (`schema_extension_tables`, `src/geopackage/writer.rs:425`), appended again and
   again.
2. `PackedIndex`: the R*Tree of GeoPackage and the packed Hilbert R-tree, one
   module of level arithmetic with a parent covering its children.
3. Proofs: that an index reads back all its records, or all but the last.

### Not modelled

* `src/geopackage/container.rs`: what it lists is the complement of what
  `GpkgAppend` carries, and it changes nothing.
* `src/compress/gzip.rs`, `zstd.rs`: functions of bytes to bytes without state between calls;
  their entropy coding is out of TLC's reach and vectors of other encoders test it.
  Of Snappy the hash table is left out: a match is the nearest earlier equal.
* `src/cli.rs`: one function of the arguments.
* `src/xml.rs`, `src/zip.rs`, `src/json/parser.rs`,
  `src/flatbuffers.rs`: tokenizers and encodings; the models begin with the trees and records they yield.
* Generated tables (`src/crs/wkt1_tables.rs`, the element tables of `src/kml/`)
  beyond the members the models name, progress, and the wording of messages and
  warnings.
