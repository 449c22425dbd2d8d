-------------------------- MODULE GpkgFeatureTable --------------------------
(***************************************************************************)
(* A GeoPackage feature table: the SQL types geopackage/writer.rs declares *)
(* and the values it stores, and the layer geopackage/reader.rs reads from *)
(* them. Row ids are in GpkgFeatureIds, reference systems in GpkgSrs.      *)
(***************************************************************************)
EXTENDS Cells, CrsIdentity, Geometries

(* Mutant of SqlTypeFor: an unsigned type keeps its width. *)
SqlTypeForSameWidth(ty) ==
  CASE ty = "Bool" -> "BOOLEAN" [] ty \in {"Int8", "UInt8"} -> "TINYINT"
    [] ty \in {"UInt16", "Int16"} -> "SMALLINT" [] ty \in {"UInt32", "Int32"} -> "MEDIUMINT"
    [] ty \in {"Int64", "UInt64"} -> "INTEGER"
    [] ty = "Float32" -> "FLOAT" [] ty = "Float64" -> "DOUBLE"
    [] ty = "String" -> "TEXT" [] ty = "Json" -> "JSON"
    [] ty = "DateTime" -> "DATETIME" [] ty = "Date" -> "DATE" [] OTHER -> "BLOB"

(* sql_type_for: an unsigned width is the next signed one.                  *)
SqlTypeFor(ty) ==
  CASE ty = "Bool" -> "BOOLEAN" [] ty = "Int8" -> "TINYINT"
    [] ty \in {"UInt8", "Int16"} -> "SMALLINT"
    [] ty \in {"UInt16", "Int32"} -> "MEDIUMINT"
    [] ty \in {"UInt32", "Int64", "UInt64"} -> "INTEGER"
    [] ty = "Float32" -> "FLOAT" [] ty = "Float64" -> "DOUBLE"
    [] ty = "String" -> "TEXT" [] ty = "Json" -> "JSON"
    [] ty = "DateTime" -> "DATETIME" [] ty = "Date" -> "DATE" [] OTHER -> "BLOB"

SqlTypeOf ==
  [bool |-> "BOOLEAN", int |-> "INTEGER", float |-> "REAL", text |-> "TEXT", bytes |-> "BLOB"]

SqliteType(column) ==
  IF Declared(column) = <<>> THEN SqlTypeOf[column.ty] ELSE SqlTypeFor(Declared(column)[1])

(* decl_type of the reader.                                                *)
SqlDecl ==
  [BOOLEAN |-> "Bool", TINYINT |-> "Int8", SMALLINT |-> "Int16", MEDIUMINT |-> "Int32",
   INTEGER |-> "Int64", FLOAT |-> "Float32", REAL |-> "Float64", DOUBLE |-> "Float64",
   TEXT |-> "String", JSON |-> "Json", DATETIME |-> "DateTime", DATE |-> "Date", BLOB |-> "Binary"]

(* cell_to_value and value_to_json: SQLite has no truth of its own.         *)
CellToValue(cell) == IF cell.kind = "bool" THEN Whole(cell.v) ELSE cell

ValueToJson(value, sql) ==
  IF sql = "BOOLEAN" /\ value.kind = "int" THEN Truth(value.v # 0) ELSE value

WriteGpkgTable(layer, enveloped) ==
  LET columns == ColumnsFor(layer)
      blob(geometry) == IF geometry = <<>> THEN <<>> ELSE <<GpkgBlob(geometry[1], 1, enveloped)>>
  IN  [srs |-> ResolveSrs(layer.crs), name |-> layer.name,
       columns |-> [i \in DOMAIN columns |->
                      [name |-> columns[i].name, sql |-> SqliteType(columns[i])]],
       rows |-> [r \in DOMAIN layer.rows |->
                   [geom |-> blob(layer.rows[r].geometry),
                    values |-> [i \in DOMAIN columns |-> CellToValue(columns[i].cells[r])]]]]

ReadGpkgTable(table) ==
  LET values == [r \in DOMAIN table.rows |->
                   [i \in DOMAIN table.columns |-> ValueToJson(table.rows[r].values[i], table.columns[i].sql)]]
      geometry(geom) == IF geom = <<>> THEN <<>> ELSE <<ReadGpkgBlob(geom[1])>>
  IN  [rows |-> RowsOf([i \in DOMAIN table.columns |-> table.columns[i].name], values,
                       [r \in DOMAIN table.rows |-> geometry(table.rows[r].geom)]),
       schema |-> [i \in DOMAIN table.columns |->
                     Decl(table.columns[i].name, <<SqlDecl[table.columns[i].sql]>>)],
       crs |-> ResolveCrs(table.srs), name |-> table.name, native |-> <<>>]

=============================================================================
