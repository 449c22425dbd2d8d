------------------------------ MODULE Formats ------------------------------
(***************************************************************************)
(* The tables of src/format.rs and the losses src/feature.rs announces     *)
(* before a write. A warning is the member of a set that names its cause.  *)
(***************************************************************************)
EXTENDS Cells, CrsIdentity, Geometries

Kmls == {"Kml", "Kmz"}
SingleFile == {"GeoJson", "Parquet", "FlatGeobuf", "Csv", "Wkt"} \union Kmls
AllFormats == SingleFile \union {"Gpkg", "Shapefile"}

SupportsM(f) == f \notin {"GeoJson"} \union Kmls
CarriesColumnSchema(f) == f \in {"FlatGeobuf", "Shapefile", "Gpkg", "Parquet"} \union Kmls
DeclaresTypeOnly(f) == f \in Kmls

(* Format::from_path by extension, Format::parse by name.                  *)
FromExtension ==
  [geojson |-> "GeoJson", json |-> "GeoJson", parquet |-> "Parquet", fgb |-> "FlatGeobuf", csv |-> "Csv",
   wkt |-> "Wkt", gpkg |-> "Gpkg", shp |-> "Shapefile", kml |-> "Kml", kmz |-> "Kmz"]
FormatNames ==
  FromExtension @@ [geoparquet |-> "Parquet", flatgeobuf |-> "FlatGeobuf", geopackage |-> "Gpkg",
                    shapefile |-> "Shapefile"]

(* FieldType::for_decl and its declaration: KML's numbers of 16 and 32 bits. *)
FieldTypeRecast(ty) ==
  CASE ty \in {"Int8", "Int16"}   -> "Int16"
    [] ty \in {"UInt8", "UInt16"} -> "UInt16"
    [] ty \in {"Bool", "Int32", "UInt32", "Float32", "Float64"} -> ty
    [] OTHER -> "String"

ShapefileRecast(ty) ==
  CASE ty \in {"Bool", "Date", "String"} -> ty
    [] ty \in Ints -> "Int64"
    [] ty \in {"Float32", "Float64"} -> "Float64"
    [] OTHER -> "String"

GpkgRecast(ty) ==
  CASE ty = "UInt8"  -> "Int16"
    [] ty = "UInt16" -> "Int32"
    [] ty \in {"UInt32", "UInt64"} -> "Int64"
    [] OTHER -> ty

(* Format::recast: the type a declared one comes back as.                  *)
Recast(f, ty) ==
  CASE f = "Shapefile"  -> ShapefileRecast(ty)
    [] f = "FlatGeobuf" -> IF ty = "Date" THEN "DateTime" ELSE ty
    [] f = "Gpkg"       -> GpkgRecast(ty)
    [] f \in Kmls       -> FieldTypeRecast(ty)
    [] OTHER            -> ty

TimeKeys == {"timestamp", "begin", "end"}

RecastColumn(f, d) ==
  IF DeclaresTypeOnly(f) /\ d.ty = <<"DateTime">> /\ d.name \in TimeKeys THEN d.ty[1]
  ELSE Recast(f, d.ty[1])

-----------------------------------------------------------------------------
Geometric(layer) == {layer.rows[r].geometry[1] : r \in {q \in DOMAIN layer.rows : layer.rows[q].geometry # <<>>}}

MDowngradeWarned(layer, f) == ~SupportsM(f) /\ \E g \in Geometric(layer) : HasM(g)

SchemaDropWarned(layer, f) ==
  IF DeclaresTypeOnly(f)
  THEN \E i \in DOMAIN layer.schema : DeclaresMoreThanType(layer.schema[i])
  ELSE layer.schema # <<>> /\ ~CarriesColumnSchema(f)

DeclRecastWarned(layer, f) ==
  /\ CarriesColumnSchema(f)
  /\ \E i \in DOMAIN layer.schema :
       LET d == layer.schema[i]
       IN  d.ty # <<>> /\ ~Admits(RecastColumn(f, d), d.ty[1])

CrsWarned(layer, f) == layer.crs # <<>> /\ DowngradeWarned(layer.crs[1], f)

Warnings(layer, f) ==
  (IF MDowngradeWarned(layer, f) THEN {"m"} ELSE {})
    \union (IF SchemaDropWarned(layer, f) THEN {"schema"} ELSE {})
    \union (IF DeclRecastWarned(layer, f) THEN {"recast"} ELSE {})
    \union (IF CrsWarned(layer, f) THEN {"crs"} ELSE {})

=============================================================================
