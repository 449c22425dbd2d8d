------------------------------- MODULE Cells -------------------------------
(***************************************************************************)
(* Property values, the columns inferred from them and the declarations a  *)
(* file makes of its columns: src/schema.rs, src/json/value.rs.            *)
(*                                                                         *)
(* Numbers are scaled down: an n-byte integer has Bits[n] bits, a float is *)
(* counted in hundredths, and a Float32 keeps multiples of Grain of them.  *)
(* A text is what it spells: `as` says how it parses, `v` which it is and  *)
(* `len` how many bytes it has. An Option is a sequence of at most one.    *)
(***************************************************************************)
EXTENDS Integers, Sequences, SequencesExt, FiniteSetsExt

Bits == [n \in {1, 2, 4, 8} |-> CASE n = 1 -> 2 [] n = 2 -> 3 [] n = 4 -> 4 [] n = 8 -> 5]
Grain == 25

Null == [kind |-> "null", v |-> 0]
Truth(b) == [kind |-> "bool", v |-> IF b THEN 1 ELSE 0]
Whole(n) == [kind |-> "int", v |-> n]
Decimal(h) == [kind |-> "float", v |-> h]
Bytes(n) == [kind |-> "bytes", v |-> n]
Nested(n) == [kind |-> "nested", v |-> n]
Text(as, v, len) == [kind |-> "text", v |-> v, as |-> as, len |-> len]
Empty == Text("empty", 0, 0)

Digits(n) == (IF n < 0 THEN 1 ELSE 0) + (IF n \in -9..9 THEN 1 ELSE IF n \in -99..99 THEN 2 ELSE 3)

(* What is left of a float without its fraction, and with d decimals of it *)
(* (half to even).                                                         *)
Truncated(h) == IF h < 0 THEN -((-h) \div 100) ELSE h \div 100
ToDecimals(h, d) ==
  LET unit == CASE d = 0 -> 100 [] d = 1 -> 10 [] OTHER -> 1
      down == h \div unit
      over == h % unit
  IN  unit * (IF 2 * over > unit \/ (2 * over = unit /\ down % 2 = 1) THEN down + 1 ELSE down)

Single(h) == Grain * (h \div Grain)

IntText(n) == Text("int", n, Digits(n))
FloatText(h) == Text("float", h, Digits(Truncated(h)) + (IF h % 10 = 0 THEN 2 ELSE 3))
BoolText(b) == Text("bool", b, IF b = 1 THEN 4 ELSE 5)

(* to_json_string of what is not null: a float keeps its point, bytes are  *)
(* hex between quotes.                                                     *)
JsonText(value) ==
  CASE value.kind = "bool"  -> BoolText(value.v)
    [] value.kind = "int"   -> IntText(value.v)
    [] value.kind = "float" -> FloatText(value.v)
    [] value.kind = "bytes" -> Text("quotedhex", value.v, 4)
    [] value.kind = "nested" -> Text("json", value.v, 7)
    [] OTHER -> Text("quoted", value.v, value.len + 2)

-----------------------------------------------------------------------------
(* ColumnType is "bool", "int", "float", "text" or "bytes".                *)
Ints == {"Int8", "UInt8", "Int16", "UInt16", "Int32", "UInt32", "Int64", "UInt64"}
Texts == {"String", "Json", "DateTime", "Date"}
DeclTypes == {"Bool", "Float32", "Float64", "Binary"} \union Ints \union Texts

Hub(ty) ==
  CASE ty = "Bool" -> "bool"
    [] ty \in Ints -> "int"
    [] ty \in {"Float32", "Float64"} -> "float"
    [] ty \in Texts -> "text"
    [] OTHER -> "bytes"

Width(ty) ==
  CASE ty \in {"Int8", "UInt8"} -> 1
    [] ty \in {"Int16", "UInt16"} -> 2
    [] ty \in {"Int32", "UInt32"} -> 4
    [] OTHER -> 8

Unsigned == {"UInt8", "UInt16", "UInt32", "UInt64"}

(* A UInt64 above what a signed one holds is no cell.                      *)
IntRange(ty) ==
  LET half == 2 ^ (Bits[Width(ty)] - 1)
  IN  IF ty \notin Unsigned THEN -half..(half - 1)
      ELSE IF ty = "UInt64" THEN 0..(half - 1) ELSE 0..(2 * half - 1)

Admits(ty, other) ==
  \/ ty = other
  \/ ty \in Ints /\ other \in Ints /\ IntRange(other) \subseteq IntRange(ty)
  \/ ty = "Float64" /\ other = "Float32"

(* The value an integer has when only its low bytes are kept.              *)
Wrapped(n, ty) ==
  LET size == 2 ^ Bits[Width(ty)]
      low == n % size
  IN  IF ty \notin Unsigned /\ low >= size \div 2 THEN low - size ELSE low

-----------------------------------------------------------------------------
(* A declaration: the type and the rest, each declared or not.             *)
Decl(name, ty) ==
  [name |-> name, ty |-> ty, width |-> <<>>, precision |-> <<>>, scale |-> <<>>,
   nullable |-> <<>>, unique |-> <<>>, key |-> <<>>]

DeclaresMoreThanType(d) ==
  \E part \in {"width", "precision", "scale", "nullable", "unique", "key"} : d[part] # <<>>

IsEmpty(d) == d.ty = <<>> /\ ~DeclaresMoreThanType(d)

DeclaredOr(declared, required) ==
  IF declared = <<>> \/ declared[1] < required THEN required ELSE declared[1]

-----------------------------------------------------------------------------
(* Infer::of and Infer::merge, "none" where no value has said anything.    *)
Seen(value) == CASE value.kind = "null" -> "none" [] value.kind = "nested" -> "text" [] OTHER -> value.kind

(* Mutant of Merge: the type seen last wins over a number. *)
MergeLast(a, b) ==
  CASE a = "none" -> b
    [] b = "none" -> a
    [] a \in {"int", "float"} -> b
    [] a = b -> a
    [] OTHER -> "text"

(* The least type above both.                                              *)
Merge(a, b) ==
  CASE a = "none" -> b
    [] b = "none" -> a
    [] a = b -> a
    [] {a, b} = {"int", "float"} -> "float"
    [] OTHER -> "text"

NamesOf(rows) ==
  LET of(row) == [i \in DOMAIN row.props |-> row.props[i].name]
      every == FlattenSeq([r \in DOMAIN rows |-> of(rows[r])])
  IN  FoldLeft(LAMBDA known, n : IF Contains(known, n) THEN known ELSE Append(known, n), <<>>, every)

(* The type of a column: every value of the name counts, a repeated one too. *)
Inferred(rows, name) ==
  LET every == FlattenSeq([r \in DOMAIN rows |-> rows[r].props])
      values == SelectSeq(every, LAMBDA p : p.name = name)
      ty == FoldLeft(LAMBDA t, p : Merge(t, Seen(p.value)), "none", values)
  IN  IF ty = "none" THEN "text" ELSE ty

(* materialize: a value as a cell of a column of type ty.                  *)
Materialize(ty, value) ==
  CASE value.kind = "null" -> Null
    [] ty = "int" -> IF value.kind = "int" THEN value
                     ELSE IF value.kind = "float" THEN Whole(Truncated(value.v)) ELSE Null
    [] ty = "float" -> IF value.kind = "int" THEN Decimal(100 * value.v)
                       ELSE IF value.kind = "float" THEN value ELSE Null
    [] ty = "text" -> IF value.kind = "text" THEN value ELSE JsonText(value)
    [] OTHER -> IF value.kind = ty THEN value ELSE Null

(* A row's own value of a name: the first it lists.                        *)
ValueIn(row, name) ==
  LET own == SelectSeq(row.props, LAMBDA p : p.name = name)
  IN  IF own = <<>> THEN Null ELSE own[1].value

(* infer_columns and columns_for: a column per name, with its cells and the *)
(* last declaration of that name.                                          *)
InferColumns(rows) ==
  LET column(name) ==
        LET ty == Inferred(rows, name)
        IN  [name |-> name, ty |-> ty, decl |-> <<>>,
             cells |-> [r \in DOMAIN rows |-> Materialize(ty, ValueIn(rows[r], name))]]
      names == NamesOf(rows)
  IN  [i \in DOMAIN names |-> column(names[i])]

ColumnsFor(layer) ==
  LET columns == InferColumns(layer.rows)
      decls(name) == SelectSeq(layer.schema, LAMBDA d : d.name = name)
      last(s) == IF s = <<>> THEN <<>> ELSE <<s[Len(s)]>>
  IN  [i \in DOMAIN columns |-> [columns[i] EXCEPT !.decl = last(decls(columns[i].name))]]

(* declared_type: the declaration wins where the data is silent, the data   *)
(* where it contradicts.                                                   *)
AllNull(column) == \A i \in DOMAIN column.cells : column.cells[i] = Null

(* Mutant of Declared: the values of an integer column are not looked at. *)
DeclaredByTypeOnly(column) ==
  IF column.decl = <<>> \/ column.decl[1].ty = <<>> THEN <<>>
  ELSE LET ty == column.decl[1].ty[1]
       IN  IF AllNull(column) \/ Hub(ty) = column.ty THEN <<ty>> ELSE <<>>

(* What the file declares, where the values allow it.                      *)
Declared(column) ==
  IF column.decl = <<>> \/ column.decl[1].ty = <<>> THEN <<>>
  ELSE LET ty == column.decl[1].ty[1]
           fits == ty \in Ints =>
                     \A i \in DOMAIN column.cells :
                       column.cells[i].kind = "int" => column.cells[i].v \in IntRange(ty)
       IN  IF (AllNull(column) \/ Hub(ty) = column.ty) /\ fits THEN <<ty>> ELSE <<>>

(* The rows a reader makes of columns of values.                           *)
RowsOf(names, values, geometries) ==
  [r \in DOMAIN geometries |->
     [geometry |-> geometries[r],
      props |-> [i \in DOMAIN names |-> [name |-> names[i], value |-> values[r][i]]],
      native |-> <<>>]]

=============================================================================
