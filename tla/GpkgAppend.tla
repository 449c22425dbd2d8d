----------------------------- MODULE GpkgAppend -----------------------------
(***************************************************************************)
(* A sequence of runs `geosetta source.gpkg out.gpkg` on one out.gpkg:     *)
(* run_geopackage_write of src/main.rs, carry::read, reconcile and its     *)
(* parts (src/geopackage/reconcile.rs), compose_layers, build and          *)
(* retained_references (src/geopackage/writer.rs).  The merge of one       *)
(* pyramid is the component TileMerge and the merge of the metadata pair   *)
(* is MetadataMerge; their variables are shared with this module.          *)
(*                                                                         *)
(* The file is written in one call at the end of a run, after everything   *)
(* that can be refused; ConvertRun models what a failing write does.       *)
(***************************************************************************)
EXTENDS Integers, Sequences, FiniteSets

CONSTANTS
  Keys, Blobs, Schemes, Mergeable,  \* of TileMerge
  Docs, Scopes, Names, Columns,     \* of MetadataMerge
  None,     \* SQL NULL, a side without the pair
  Blank,    \* the empty string
  Sources,  \* the containers a run may read
  MaxRuns   \* the number of runs

VARIABLES
  file,      \* out.gpkg: a container, or Absent
  input,     \* the container this run reads
  chosen,    \* the layers of it that --layer left
  carried,   \* [pyramids, tables, metadata]: what the write will put back
  unvisited, \* the source's pyramids merge_pyramids has not reached
  merging,   \* the name of the pyramid in the hands of merge_tiles
  stage,     \* where the run is
  last,      \* "none", "written" or "refused": how the last run ended
  runs,      \* the runs started
  absorbed,  \* history: the <<input, chosen>> that the last write put in, if its
             \* references are there as a merge maps them; a set of none or one
  into, from, todo, next, rowid, outcome, held,         \* TileMerge
  dest, source, rowids, merged, ids, seen, phase        \* MetadataMerge

tileVars == <<into, from, todo, next, rowid, outcome, held>>
pairVars == <<dest, source, rowids, merged, ids, seen, phase>>
fileVars == <<file, absorbed>>
runVars == <<input, chosen, runs>>

vars == <<fileVars, runVars, carried, unvisited, merging, stage, last, tileVars, pairVars>>

Tiles == INSTANCE TileMerge WITH Pyramids <- {}
Pair == INSTANCE MetadataMerge WITH Sides <- {}, RowMaps <- {}

-----------------------------------------------------------------------------
(* A container, as carry::read and read_layers see it: each of its tables  *)
(* under its name, and the pair of the Metadata extension.  A user table   *)
(* that gpkg_contents does not list has no identifier there.               *)
Idents == Names \cup {Blank, None}

Layer == [ident : Idents, fids : SUBSET (Nat \ {0}), columns : SUBSET Columns]
Tiled == [ident : Idents, body : Tiles!Pyramid]
Table == {t \in [ident : Idents, registered : BOOLEAN] : t.registered \/ t.ident = None}

NamesTo(f, S) == DOMAIN f \subseteq Names /\ f \in [DOMAIN f -> S]

IsContainer(c) ==
  /\ c = [layers |-> c.layers, pyramids |-> c.pyramids, tables |-> c.tables,
          metadata |-> c.metadata]
  /\ NamesTo(c.layers, Layer) /\ NamesTo(c.pyramids, Tiled) /\ NamesTo(c.tables, Table)
  /\ c.metadata \in Pair!Metadata \cup {None}

(* What file is when there is no out.gpkg.                                 *)
Absent == [exists |-> FALSE]

(* The rows of gpkg_contents: what they are registered as, and under what. *)
ContentsRows(layers, k) ==
  {<<"features", n, layers[n].ident>> : n \in DOMAIN layers}
    \cup {<<"tiles", n, k.pyramids[n].ident>> : n \in DOMAIN k.pyramids}
    \cup {<<"attributes", n, k.tables[n].ident>> :
            n \in {t \in DOMAIN k.tables : k.tables[t].registered}}

(* What SQLite enforces of any such file: table_name is the primary key of *)
(* gpkg_contents and its identifier is UNIQUE, two tables have two names,  *)
(* rows are read in rowid order, a tile table's coordinates are UNIQUE,    *)
(* and id is the primary key of gpkg_metadata.                             *)
NamesApart(c) ==
  /\ DOMAIN c.layers \cap (DOMAIN c.pyramids \cup DOMAIN c.tables) = {}
  /\ DOMAIN c.pyramids \cap DOMAIN c.tables = {}

IdentifiersApart(c) ==
  \A x, y \in ContentsRows(c.layers, c) : x # y => x[3] # y[3] \/ x[3] = None

TilesKeyed(c) ==
  \A n \in DOMAIN c.pyramids :
    /\ Tiles!RowidsAscend(c.pyramids[n].body.tiles)
    /\ Tiles!KeysDistinct(c.pyramids[n].body.tiles)

IdsDistinct(records) ==
  \A i, j \in DOMAIN records : records[i].id = records[j].id => i = j

Keyed(c) ==
  /\ NamesApart(c) /\ IdentifiersApart(c) /\ TilesKeyed(c)
  /\ c.metadata # None => IdsDistinct(c.metadata.records)

ASSUME SourcesAssumption ==
  \A c \in Sources : IsContainer(c) /\ Keyed(c)

ASSUME ConstantsAssumption ==
  /\ Mergeable \subseteq Schemes
  /\ None \notin Int /\ None \notin Pair!Metadata /\ None \notin Names \cup {Blank}

-----------------------------------------------------------------------------
(* f with one more entry, or another value for an entry it has.            *)
With(f, n, v) == [m \in DOMAIN f \cup {n} |-> IF m = n THEN v ELSE f[m]]

(* g laid over f: an upsert by name.                                       *)
Over(f, g) ==
  [n \in DOMAIN f \cup DOMAIN g |-> IF n \in DOMAIN g THEN g[n] ELSE f[n]]

Chosen(f, names) == [n \in names |-> f[n]]

(* The k-th of records sorted by id has k - 1 smaller ids before it.       *)
InIdOrder(records) ==
  LET smaller(i) == {j \in DOMAIN records : records[j].id < records[i].id}
  IN  [k \in DOMAIN records |->
         records[CHOOSE i \in DOMAIN records : Cardinality(smaller(i)) = k - 1]]

(* A layer without an identifier is written back under its own name, and a *)
(* pyramid without one under the empty string.                             *)
ReadLayers(c) ==
  [n \in DOMAIN c.layers |-> [c.layers[n] EXCEPT !.ident = IF @ = None THEN n ELSE @]]

ReadPyramids(c) ==
  [n \in DOMAIN c.pyramids |-> [c.pyramids[n] EXCEPT !.ident = IF @ = None THEN Blank ELSE @]]

ReadMetadata(c) ==
  IF c.metadata = None THEN None
  ELSE [c.metadata EXCEPT !.records = InIdOrder(@)]

(* carry::read *)
Carried(c) ==
  [pyramids |-> ReadPyramids(c), tables |-> c.tables, metadata |-> ReadMetadata(c)]

IsEmpty(k) == k = [pyramids |-> <<>>, tables |-> <<>>, metadata |-> None]

-----------------------------------------------------------------------------
Init ==
  /\ file \in Sources \cup {Absent}
  /\ input = Absent /\ chosen = {} /\ carried = None
  /\ unvisited = {} /\ merging = None
  /\ stage = "idle" /\ last = "none" /\ runs = 0 /\ absorbed = {}
  /\ into = None /\ from = None /\ todo = 0 /\ next = 0 /\ rowid = <<>>
  /\ outcome = "none" /\ held = None
  /\ Pair!InitWith(None, None, <<>>)

(* --layer selects one layer; it does not narrow what is carried.          *)
Choices(c) == {DOMAIN c.layers} \cup {{n} : n \in DOMAIN c.layers}

Start ==
  /\ stage = "idle" /\ runs < MaxRuns
  /\ runs' = runs + 1
  /\ input' \in Sources
  /\ chosen' \in Choices(input')
  /\ carried' = Carried(IF file = Absent THEN input' ELSE file)
  /\ stage' = IF file = Absent THEN "build" ELSE "reconcile"
  /\ last' = "none"
  /\ UNCHANGED <<fileVars, unvisited, merging, tileVars, pairVars>>

Refuse ==
  /\ stage' = "idle" /\ last' = "refused"
  /\ UNCHANGED <<fileVars, runVars, carried, unvisited, merging, tileVars, pairVars>>

(* One side carries nothing: the other is the answer.                      *)
EmptySide ==
  /\ stage = "reconcile"
  /\ IsEmpty(carried) \/ IsEmpty(Carried(input))
  /\ carried' = IF IsEmpty(carried) THEN Carried(input) ELSE carried
  /\ stage' = "build"
  /\ UNCHANGED <<fileVars, runVars, unvisited, merging, last, tileVars, pairVars>>

BothCarry ==
  stage = "reconcile" /\ ~IsEmpty(carried) /\ ~IsEmpty(Carried(input))

CrossKind ==
  \/ DOMAIN input.pyramids \cap DOMAIN carried.tables # {}
  \/ DOMAIN input.tables \cap DOMAIN carried.pyramids # {}

RefuseCrossKind == BothCarry /\ CrossKind /\ Refuse

BeginPyramids ==
  /\ BothCarry /\ ~CrossKind
  /\ unvisited' = DOMAIN input.pyramids
  /\ rowids' = <<>>
  /\ stage' = "pyramids"
  /\ UNCHANGED <<fileVars, runVars, carried, merging, last, tileVars,
                 dest, source, merged, ids, seen, phase>>

(* A pyramid only the source has comes over as it is.                      *)
AddPyramid ==
  /\ stage = "pyramids"
  /\ \E n \in unvisited \ DOMAIN carried.pyramids :
       /\ carried' = [carried EXCEPT !.pyramids = With(@, n, ReadPyramids(input)[n])]
       /\ unvisited' = unvisited \ {n}
  /\ UNCHANGED <<fileVars, runVars, merging, stage, last, tileVars, pairVars>>

(* A pyramid both sides have: the call of merge_tiles.                     *)
BeginTiles ==
  /\ stage = "pyramids"
  /\ \E n \in unvisited \cap DOMAIN carried.pyramids :
       /\ merging' = n
       /\ into' = carried.pyramids[n].body
       /\ held' = carried.pyramids[n].body
       /\ from' = input.pyramids[n].body
  /\ todo' = 0 /\ next' = 0 /\ rowid' = <<>> /\ outcome' = "checking"
  /\ stage' = "tiles"
  /\ UNCHANGED <<fileVars, runVars, carried, unvisited, last, pairVars>>

MergeTiles ==
  /\ stage = "tiles"
  /\ Tiles!Next
  /\ UNCHANGED <<fileVars, runVars, carried, unvisited, merging, stage, last, pairVars>>

RefuseTiles == stage = "tiles" /\ outcome = "refused" /\ Refuse

EndTiles ==
  /\ stage = "tiles" /\ outcome = "merged"
  /\ carried' = [carried EXCEPT !.pyramids[merging].body = into]
  /\ rowids' = With(rowids, merging, rowid)
  /\ unvisited' = unvisited \ {merging}
  /\ stage' = "pyramids"
  /\ UNCHANGED <<fileVars, runVars, merging, last, tileVars,
                 dest, source, merged, ids, seen, phase>>

PyramidsDone == stage = "pyramids" /\ unvisited = {}

SharedTables == DOMAIN input.tables \cap DOMAIN carried.tables

RefuseTables == PyramidsDone /\ SharedTables # {} /\ Refuse

(* merge_tables, and the call of merge_metadata.                           *)
MergeTables ==
  /\ PyramidsDone /\ SharedTables = {}
  /\ carried' = [carried EXCEPT !.tables = Over(@, input.tables)]
  /\ dest' = carried.metadata /\ source' = ReadMetadata(input)
  /\ merged' = None /\ ids' = <<>> /\ seen' = 0 /\ phase' = "start"
  /\ stage' = "metadata"
  /\ UNCHANGED <<fileVars, runVars, unvisited, merging, last, tileVars, rowids>>

MergePair ==
  /\ stage = "metadata"
  /\ Pair!Next
  /\ UNCHANGED <<fileVars, runVars, carried, unvisited, merging, stage, last, tileVars>>

EndPair ==
  /\ stage = "metadata" /\ phase = "done"
  /\ carried' = [carried EXCEPT !.metadata = merged]
  /\ stage' = "build"
  /\ UNCHANGED <<fileVars, runVars, unvisited, merging, last, tileVars, pairVars>>

-----------------------------------------------------------------------------
(* Mutant of Layers: the existing layer wins.                              *)
LayersKept ==
  LET new == Chosen(ReadLayers(input), chosen)
  IN  IF file = Absent THEN new ELSE Over(new, ReadLayers(file))

(* compose_layers *)
Layers ==
  LET new == Chosen(ReadLayers(input), chosen)
  IN  IF file = Absent THEN new ELSE Over(ReadLayers(file), new)

(* Mutant of NameTaken: carried tables are forgotten.                      *)
NameTakenByPyramid == DOMAIN Layers \cap DOMAIN carried.pyramids # {}

NameTaken == DOMAIN Layers \cap (DOMAIN carried.pyramids \cup DOMAIN carried.tables) # {}

(* Mutant of IdentifierTaken: two NULLs collide.                           *)
IdentifierTakenOrNull ==
  \E x, y \in ContentsRows(Layers, carried) : x # y /\ x[3] = y[3]

(* Only a NULL identifier is exempt.                                       *)
IdentifierTaken ==
  \E x, y \in ContentsRows(Layers, carried) : x # y /\ x[3] = y[3] /\ x[3] # None

RefuseBuild == stage = "build" /\ (NameTaken \/ IdentifierTaken) /\ Refuse

WantsColumn(scope) == scope \in {"column", "row/col"}
WantsRow(scope) == scope \in {"row", "row/col"}
StandardScopes == {"geopackage", "table", "column", "row", "row/col"}

(* The NULLs the standard demands of each scope, and of a parent.          *)
Normalised(r, docs) ==
  [r EXCEPT !.table  = IF r.scope = "geopackage" THEN None ELSE @,
            !.column = IF WantsColumn(r.scope) THEN @ ELSE None,
            !.row    = IF WantsRow(r.scope) THEN @ ELSE None,
            !.parent = IF @ \in docs \ {r.file} THEN @ ELSE None]

(* Whether the reference is valid against the tables being written.        *)
Locates(r, layers, k) ==
  /\ r.table \in DOMAIN layers \cup DOMAIN k.pyramids
                   \cup {t \in DOMAIN k.tables : k.tables[t].registered}
  /\ WantsColumn(r.scope) => r.column # None
  /\ WantsRow(r.scope) => r.row # None
  /\ r.table \in DOMAIN layers =>
       /\ WantsColumn(r.scope) => r.column \in {"fid", "geom"} \cup layers[r.table].columns
       /\ WantsRow(r.scope) => r.row \in layers[r.table].fids

Retainable(r, docs, layers, k) ==
  /\ r.scope \in StandardScopes
  /\ r.file \in docs
  /\ r.scope # "geopackage" => Locates(r, layers, k)

(* The references kept of the first n, one loop over all of them.          *)
Retained(md, layers, k) ==
  LET docs == Pair!IdsOf(md.records)
      kept[n \in 0..Len(md.refs)] ==
        IF n = 0 THEN <<>>
        ELSE IF Retainable(md.refs[n], docs, layers, k)
             THEN Append(kept[n - 1], Normalised(md.refs[n], docs))
             ELSE kept[n - 1]
  IN  kept

(* Mutant of RetainedReferences: judged by the layers that arrived, before *)
(* those of the destination are composed in.                               *)
RetainedByInput(md, layers, k) ==
  Retained(md, Over(layers, input.layers), k)[Len(md.refs)]

RetainedReferences(md, layers, k) == Retained(md, layers, k)[Len(md.refs)]

WrittenMetadata(md, layers, k) ==
  IF md = None THEN None
  ELSE [md EXCEPT !.refs = RetainedReferences(md, layers, k)]

(* Whether no two records are one document. A pair that is copied keeps    *)
(* both, with the references to either.                                    *)
DocsApart(md) ==
  md # None => \A i, j \in DOMAIN md.records : md.records[i].doc = md.records[j].doc => i = j

(* Whether the source's references are in the new file as a merge maps     *)
(* them. A pair that comes to a file without one is copied, also when the  *)
(* tiles it is about have moved.                                           *)
Absorbs ==
  \/ input.metadata = None
  \/ file = Absent /\ DocsApart(input.metadata)
  \/ file # Absent /\ file.metadata # None

(* build, and the write of its bytes over out.gpkg.                        *)
Write ==
  /\ stage = "build" /\ ~NameTaken /\ ~IdentifierTaken
  /\ file' = [layers   |-> Layers,
              pyramids |-> carried.pyramids,
              tables   |-> carried.tables,
              metadata |-> WrittenMetadata(carried.metadata, Layers, carried)]
  /\ absorbed' = IF Absorbs THEN {<<input, chosen>>} ELSE {}
  /\ stage' = "idle" /\ last' = "written"
  /\ UNCHANGED <<runVars, carried, unvisited, merging, tileVars, pairVars>>

(* The run's own steps, and the next invocation of the command.            *)
Step ==
  \/ EmptySide \/ RefuseCrossKind \/ BeginPyramids
  \/ AddPyramid \/ BeginTiles \/ MergeTiles \/ RefuseTiles \/ EndTiles
  \/ RefuseTables \/ MergeTables \/ MergePair \/ EndPair
  \/ RefuseBuild \/ Write

Next == Start \/ Step

Spec == Init /\ [][Next]_vars

-----------------------------------------------------------------------------
(* What a container says, in the terms of GpkgUnion.                        *)
PyramidBox(p) ==
  [ident |-> p.ident, scheme |-> p.body.scheme, tiles |-> Tiles!Contents(p.body.tiles)]

BoxOf(c, layers, pyramids) ==
  [layers   |-> layers,
   pyramids |-> [n \in DOMAIN pyramids |-> PyramidBox(pyramids[n])],
   tables   |-> c.tables,
   docs     |-> IF c.metadata = None THEN {}
                ELSE {c.metadata.records[i].doc : i \in DOMAIN c.metadata.records}]

Nothing == [layers |-> <<>>, pyramids |-> <<>>, tables |-> <<>>, docs |-> {}]

Box(c) == IF c = Absent THEN Nothing ELSE BoxOf(c, ReadLayers(c), ReadPyramids(c))

Abs == INSTANCE GpkgUnion WITH box <- Box(file), Boxes <- {Box(c) : c \in Sources}

(* Every run that writes leaves the union of what out.gpkg and the source   *)
(* held, the chosen layers upserted, and is one that has a union; every     *)
(* other step, a refusal included, leaves the content as it was.            *)
ImplementsUnion == Abs!Spec

(* A run is refused only when the two containers have no union, as the      *)
(* reader sees them: the ordinary append is never refused.                  *)
RefusedOnlyOnConflict ==
  last = "refused" => Abs!Conflict(Box(file), Box(input), chosen)

(* Through any sequence of appends gpkg_contents keeps its keys: a table    *)
(* name is registered once, whatever its kind, an identifier is used once,  *)
(* the tile tables are packable, and a document id names one document.      *)
RegistryKeysHold ==
  file # Absent =>
    /\ \A x, y \in ContentsRows(file.layers, file) :
         x # y => x[2] # y[2] /\ (x[3] = y[3] => x[3] = None)
    /\ \A n \in DOMAIN file.pyramids : Tiles!RowidsAscend(file.pyramids[n].body.tiles)
    /\ file.metadata # None =>
         \A i, j \in DOMAIN file.metadata.records :
           file.metadata.records[i].id = file.metadata.records[j].id => i = j

(* Every reference of a written file names a document of the file and, when *)
(* it is about a layer, a column and a row that the layer has there, also   *)
(* when the layer has just been replaced by a smaller one.                  *)
WrittenReferencesResolve ==
  (last = "written" /\ file.metadata # None) =>
    \A i \in DOMAIN file.metadata.refs :
      LET r == file.metadata.refs[i]
          docs == Pair!IdsOf(file.metadata.records)
      IN  /\ r.file \in docs
          /\ r.parent = None \/ (r.parent \in docs /\ r.parent # r.file)
          /\ r.scope # "geopackage" => Locates(r, file.layers, file)

(* An append takes nothing from what out.gpkg stated: a reference whose     *)
(* target is in the new file is in the new file, about the same document.   *)
NothingStatedIsLost ==
  [][(file # Absent /\ file' # file /\ file.metadata # None) =>
       LET docs == Pair!IdsOf(file'.metadata.records)
       IN  \A i \in DOMAIN file.metadata.refs :
             LET r == file.metadata.refs[i]
                 was == Pair!DocsAt(file.metadata.records, r.file)
             IN  Retainable(r, docs, file'.layers, file') =>
                   /\ \E j \in DOMAIN file'.metadata.refs :
                        file'.metadata.refs[j] = Normalised(r, docs)
                   /\ was # {} => Pair!DocsAt(file'.metadata.records, r.file) = was]_vars

(* Tiles, documents and references, as sets.                               *)
TilesOf(c) == [n \in DOMAIN c.pyramids |-> Tiles!Contents(c.pyramids[n].body.tiles)]
RefsOf(c) == {c.metadata.refs[i] : i \in DOMAIN c.metadata.refs}
RecordsOf(c) == {c.metadata.records[i] : i \in DOMAIN c.metadata.records}

(* The rows of gpkg_metadata_reference before and after: those there stand, *)
(* in their places; a row more repeats one of them, and comes of a carried  *)
(* reference that says it in other words and had to be normalised; and each *)
(* reference of the source makes one row more at most.                      *)
OnlyRepeatsAdded(was, now, docs) ==
  /\ Len(was) <= Len(now)
  /\ Len(now) <= Len(was) + (IF input.metadata = None THEN 0 ELSE Len(input.metadata.refs))
  /\ \A i \in DOMAIN was : now[i] = was[i]
  /\ \A j \in DOMAIN now : j > Len(was) =>
       /\ \E i \in DOMAIN was : now[j] = was[i]
       /\ \E w \in RefsOf(carried) : w # now[j] /\ now[j] = Normalised(w, docs)

(* Appending a source again to the file it has just been appended to either *)
(* is refused or leaves every layer, table, tile and document as it is, and *)
(* the rows of the references too, but for repeats: the merge compares      *)
(* references as the source writes them and the writer normalises them      *)
(* later, so one that has to be normalised gets its row once more each      *)
(* time, and one that is as the standard wants it does not.  This is so     *)
(* once the source's references went in as a merge maps them (Absorbs).     *)
AppendAgainAddsOnlyRepeats ==
  [][(stage = "build" /\ last' = "written" /\ <<input, chosen>> \in absorbed) =>
       /\ file'.layers = file.layers /\ file'.tables = file.tables
       /\ TilesOf(file') = TilesOf(file)
       /\ file.metadata # None =>
            /\ RecordsOf(file') = RecordsOf(file)
            /\ OnlyRepeatsAdded(file.metadata.refs, file'.metadata.refs,
                                Pair!IdsOf(file'.metadata.records))]_vars

=============================================================================
