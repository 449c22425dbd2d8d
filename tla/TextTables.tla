----------------------------- MODULE TextTables -----------------------------
(***************************************************************************)
(* The two formats that are only text: CSV with a WKT column (src/csv.rs)  *)
(* and WKT alone, a geometry per line (src/convert.rs). A field of a row   *)
(* is a text of Cells or, where the writer put a geometry, its tokens.     *)
(***************************************************************************)
EXTENDS Cells, Geometries

GeometryNames == {"geometry", "geom", "wkt", "the_geom"}

FieldOf(text) == [text |-> text, tokens |-> <<>>]
WktField(geometry) == [text |-> Empty, tokens |-> IF geometry = <<>> THEN <<>> ELSE Wkt(geometry[1])]
IsBlank(field) == field.text = Empty /\ field.tokens = <<>>

(* cell_text: a whole float is printed without its point, bytes as hex.    *)
CellText(cell) ==
  CASE cell.kind = "null"  -> Empty
    [] cell.kind = "bool"  -> BoolText(cell.v)
    [] cell.kind = "int"   -> IntText(cell.v)
    [] cell.kind = "float" -> IF cell.v % 100 = 0 THEN IntText(cell.v \div 100) ELSE FloatText(cell.v)
    [] cell.kind = "bytes" -> Text("hex", cell.v, 2)
    [] OTHER -> cell

WriteCsv(layer) ==
  LET columns == InferColumns(layer.rows)
      fields(r) == [i \in DOMAIN columns |-> FieldOf(CellText(columns[i].cells[r]))]
  IN  [header |-> [i \in DOMAIN columns |-> columns[i].name] \o <<"geometry">>,
       rows |-> [r \in DOMAIN layer.rows |-> fields(r) \o <<WktField(layer.rows[r].geometry)>>]]

-----------------------------------------------------------------------------
(* infer_typed: the reading of a text that is a truth or a number. A         *)
(* "padint" is one with a zero or a sign too many.                         *)
InferTyped(text) ==
  CASE text.as \in {"bool", "shoutbool"} -> <<Truth(text.v = 1)>>
    [] text.as \in {"int", "padint"}     -> <<Whole(text.v)>>
    [] text.as = "float"                 -> <<Decimal(text.v)>>
    [] OTHER                             -> <<>>

(* refuses_typing: a reading this writer would print otherwise.            *)
RefusesTyping(text) == InferTyped(text) # <<>> /\ CellText(InferTyped(text)[1]) # text

(* One refused cell makes a text of every cell of the column.              *)
ColumnTyped(file, i) == \A r \in DOMAIN file.rows : ~RefusesTyping(file.rows[r][i].text)

CellValue(text, typed) ==
  IF text = Empty THEN Null
  ELSE IF typed /\ InferTyped(text) # <<>> THEN InferTyped(text)[1] ELSE text

(* The first header that is a geometry's name, 0 for none.                 *)
GeometryColumn(file) ==
  LET named == {i \in DOMAIN file.header : file.header[i] \in GeometryNames}
  IN  IF named = {} THEN 0 ELSE LeastOf(named)

CsvUnreadable(file) ==
  LET g == GeometryColumn(file)
  IN  g # 0 /\ \E r \in DOMAIN file.rows :
                 ~IsBlank(file.rows[r][g]) /\ ~DecodesWkt(file.rows[r][g].tokens)

(* A row of nothing but empty fields is taken for a blank line.            *)
ReadCsv(file) ==
  LET g == GeometryColumn(file)
      kept == SelectSeq(file.rows, LAMBDA row : \E i \in DOMAIN row : ~IsBlank(row[i]))
      others == SelectSeq([i \in DOMAIN file.header |-> i], LAMBDA i : i # g)
      geometry(row) == IF g = 0 \/ IsBlank(row[g]) THEN <<>> ELSE <<DecodeWkt(row[g].tokens)>>
  IN  [rows |-> [r \in DOMAIN kept |->
                   [geometry |-> geometry(kept[r]),
                    props |-> [k \in DOMAIN others |->
                                 [name |-> file.header[others[k]],
                                  value |-> CellValue(kept[r][others[k]].text, ColumnTyped(file, others[k]))]],
                    native |-> <<>>]],
       schema |-> <<>>, crs |-> <<>>, name |-> <<>>, native |-> <<>>]

-----------------------------------------------------------------------------
(* A line per row, blank where there is no geometry; blank lines are skipped. *)
WriteWktLines(layer) ==
  [r \in DOMAIN layer.rows |-> WktField(layer.rows[r].geometry).tokens]

WktLinesUnreadable(lines) == \E i \in DOMAIN lines : lines[i] # <<>> /\ ~DecodesWkt(lines[i])

ReadWktLines(lines) ==
  LET kept == SelectSeq(lines, LAMBDA line : line # <<>>)
  IN  [rows |-> [i \in DOMAIN kept |-> [geometry |-> <<DecodeWkt(kept[i])>>, props |-> <<>>, native |-> <<>>]],
       schema |-> <<>>, crs |-> <<>>, name |-> <<>>, native |-> <<>>]

=============================================================================
