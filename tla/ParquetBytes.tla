---------------------------- MODULE ParquetBytes ----------------------------
(***************************************************************************)
(* What a Parquet file is made of: the Thrift compact protocol of its      *)
(* footer and of the headers of its pages (parquet/thrift.rs), the codecs  *)
(* of the pages (compress/snappy.rs, compress/lz4.rs) and the members that *)
(* parquet/reader.rs takes from each header.                               *)
(*                                                                         *)
(* A file is one sequence of parts, and a part is what is read at once: a  *)
(* number, a text behind its length, a field's header, a run of levels, a  *)
(* value, an element of a compressed block. Offsets and sizes count parts. *)
(* A part is a record of three fields whatever it is. Left out are the     *)
(* bits of a number and of a run, and the codecs GZIP and ZSTD.            *)
(***************************************************************************)
EXTENDS Integers, Sequences, SequencesExt, FiniteSetsExt

Part(is, n, of) == [is |-> is, n |-> n, of |-> of]
Varint(n) == Part("number", n, <<>>)
Chars(text) == Part("text", 1, <<text>>)
Stop == Part("stop", 0, <<>>)

SamePart(p, q) == p.is = q.is /\ p.n = q.n /\ p.of = q.of

(* The enumerations of parquet.thrift, those members the reader knows.      *)
PhysicalId == [BOOLEAN |-> 0, INT32 |-> 1, INT64 |-> 2, FLOAT |-> 4, DOUBLE |-> 5, BYTE_ARRAY |-> 6]
ConvertedId ==
  [UTF8 |-> 0, DATE |-> 6, TIMESTAMP_MILLIS |-> 9, UInt8 |-> 11, UInt16 |-> 12, UInt32 |-> 13,
   UInt64 |-> 14, Int8 |-> 15, Int16 |-> 16, JSON |-> 19]
RepetitionId == [REQUIRED |-> 0, OPTIONAL |-> 1, REPEATED |-> 2]
EncodingId == [PLAIN |-> 0, PLAIN_DICTIONARY |-> 2, RLE |-> 3, RLE_DICTIONARY |-> 8]
CodecId == [UNCOMPRESSED |-> 0, SNAPPY |-> 1, LZ4_RAW |-> 7]
PageId == [DATA_PAGE |-> 0, DICTIONARY_PAGE |-> 2, DATA_PAGE_V2 |-> 3]

(* The member of an enumeration that has a number, if one has.             *)
MemberOf(ids, number) ==
  IF \E name \in DOMAIN ids : ids[name] = number THEN CHOOSE name \in DOMAIN ids : ids[name] = number
  ELSE "none"

-----------------------------------------------------------------------------
(* CompactWriter: a field is its header and its value. A truth has its      *)
(* value in its header's type and nothing after it.                        *)
FieldI32(id, n) == [id |-> id, type |-> "i32", parts |-> <<Varint(n)>>]
FieldI64(id, n) == [id |-> id, type |-> "i64", parts |-> <<Varint(n)>>]
FieldBool(id, b) == [id |-> id, type |-> IF b THEN "true" ELSE "false", parts |-> <<>>]
FieldString(id, text) == [id |-> id, type |-> "binary", parts |-> <<Chars(text)>>]

(* field_header: the step from the field before it where that fits a nibble, *)
(* else the id in full.                                                    *)
FieldHeader(last, id, type) ==
  IF id - last \in 1..15 THEN <<Part("field", id - last, <<type>>)>>
  ELSE <<Part("field", 0, <<type>>), Varint(id)>>

StructOf(fields) ==
  LET step(written, f) ==
        [last |-> f.id, parts |-> written.parts \o FieldHeader(written.last, f.id, f.type) \o f.parts]
  IN  Append(FoldLeft(step, [last |-> 0, parts |-> <<>>], fields).parts, Stop)

FieldStruct(id, fields) == [id |-> id, type |-> "struct", parts |-> StructOf(fields)]

(* list_header: a length that does not fit its nibble follows it.          *)
ListHeader(elem, n) ==
  IF n <= 14 THEN <<Part("list", n, <<elem>>)>> ELSE <<Part("list", 15, <<elem>>), Varint(n)>>

FieldList(id, elem, items) ==
  [id |-> id, type |-> "list", parts |-> ListHeader(elem, Len(items)) \o FlattenSeq(items)]

-----------------------------------------------------------------------------
(* snappy.rs, the encoder. The limits are scaled from 17 and 64 bytes; that  *)
(* a copy of 65 to 67 gives 60 and a rest is not kept.                      *)
MinNonLiteralBlock == 2
CopyLimit == 4

EmitLiteral(parts) == IF parts = <<>> THEN <<>> ELSE <<Part("literal", Len(parts), <<>>)>> \o parts

EmitCopy(offset, length) ==
  [i \in 1..((length + CopyLimit - 1) \div CopyLimit) |->
     Part("copy", IF i * CopyLimit <= length THEN CopyLimit ELSE length % CopyLimit, <<offset>>)]

(* encode_block from position s, of which the parts from emit on are not    *)
(* written yet. A match may run on into what it is a copy of. The table of  *)
(* hashes, which may miss a match, is left out: the nearest equal is taken. *)
RECURSIVE EncodeBlock(_, _, _)
EncodeBlock(src, emit, s) ==
  LET candidates == {c \in 1..(s - 1) : SamePart(src[c], src[s])}
      offset == s - Max(candidates)
      differs == {k \in s..Len(src) : ~SamePart(src[k - offset], src[k])}
      end == IF differs = {} THEN Len(src) + 1 ELSE Min(differs)
  IN  CASE s > Len(src) -> EmitLiteral(SubSeq(src, emit, Len(src)))
        [] s <= Len(src) /\ candidates = {} -> EncodeBlock(src, emit, s + 1)
        [] OTHER -> EmitLiteral(SubSeq(src, emit, s - 1)) \o EmitCopy(offset, end - s) \o EncodeBlock(src, end, end)

SnappyCompress(src) ==
  <<Varint(Len(src))>> \o (IF Len(src) < MinNonLiteralBlock THEN EmitLiteral(src) ELSE EncodeBlock(src, 1, 1))

-----------------------------------------------------------------------------
(* What is read: whether it is bad, the position after it and the value.    *)
Bad == [bad |-> TRUE, at |-> 0, value |-> <<>>]
Good(at, value) == [bad |-> FALSE, at |-> at, value |-> value]

(* What came out, if it is as much as was stated.                          *)
OfSize(out, size) == IF out.bad \/ Len(out.value) # size THEN Bad ELSE out

(* Mutant of CopyMatch: the match is taken as it stands before the copy.    *)
CopyMatchAtOnce(out, offset, len) ==
  LET start == Len(out) - offset
  IN  out \o SubSeq(out, start + 1, IF start + len > Len(out) THEN Len(out) ELSE start + len)

(* copy_match: part by part, so that a copy longer than its offset repeats  *)
(* what it has just written.                                               *)
CopyMatch(out, offset, len) ==
  LET start == Len(out) - offset
  IN  FoldLeft(LAMBDA o, k : Append(o, o[start + k]), out, [k \in 1..len |-> k])

(* decompress of snappy.rs: literals and copies to the end of the block.    *)
RECURSIVE SnappyElements(_, _, _)
SnappyElements(block, pos, out) ==
  LET tag == block[pos]
  IN  CASE pos > Len(block) -> Good(pos, out)
        [] pos <= Len(block) /\ tag.is = "literal" ->
             IF pos + tag.n > Len(block) THEN Bad
             ELSE SnappyElements(block, pos + tag.n + 1, out \o SubSeq(block, pos + 1, pos + tag.n))
        [] pos <= Len(block) /\ tag.is = "copy" ->
             IF tag.of[1] \notin 1..Len(out) THEN Bad
             ELSE SnappyElements(block, pos + 1, CopyMatch(out, tag.of[1], tag.n))
        [] OTHER -> Bad

SnappyDecompress(block) ==
  IF block = <<>> \/ block[1].is # "number" THEN Bad ELSE OfSize(SnappyElements(block, 2, <<>>), block[1].n)

(* decompress of lz4.rs: literals behind their token, and a match unless    *)
(* they end the block.                                                     *)
RECURSIVE Lz4Sequences(_, _, _)
Lz4Sequences(block, ip, out) ==
  LET token == block[ip]
      match == ip + token.n + 1
      lits == out \o SubSeq(block, ip + 1, match - 1)
      offset == block[match].n
  IN  CASE ip > Len(block) -> Good(ip, out)
        [] ip <= Len(block) /\ (token.is # "token" \/ match > Len(block) + 1) -> Bad
        [] ip <= Len(block) /\ match = Len(block) + 1 -> Good(match, lits)
        [] OTHER -> IF block[match].is # "offset" \/ offset \notin 1..Len(lits) THEN Bad
                    ELSE Lz4Sequences(block, match + 1, CopyMatch(lits, offset, token.of[1]))

(* decompress of reader.rs, held against the size the header states.        *)
Decompress(codec, comp, size) ==
  OfSize(CASE codec = CodecId.UNCOMPRESSED -> Good(0, comp)
           [] codec = CodecId.SNAPPY       -> SnappyDecompress(comp)
           [] codec = CodecId.LZ4_RAW      -> Lz4Sequences(comp, 1, <<>>)
           [] OTHER                        -> Bad, size)

-----------------------------------------------------------------------------
(* A shape is what a parser expects to read: which fields of a structure it *)
(* takes, and as what. It passes over every other field.                   *)
Shape(is, of) == [is |-> is, of |-> of]
AsNumber == Shape("number", <<>>)
AsText == Shape("text", <<>>)
AsFlag == Shape("flag", <<>>)
AsList(item) == Shape("list", <<item>>)
AsStruct(known) == Shape("struct", <<known>>)

PartAt(parts, at, is) == at <= Len(parts) /\ parts[at].is = is

(* read_list_header: the type and the number of the items.                  *)
ReadListHeader(parts, at) ==
  CASE ~PartAt(parts, at, "list") -> Bad
    [] PartAt(parts, at, "list") /\ parts[at].n < 15 -> Good(at + 1, [elem |-> parts[at].of[1], n |-> parts[at].n])
    [] OTHER -> IF ~PartAt(parts, at + 1, "number") THEN Bad
                ELSE Good(at + 2, [elem |-> parts[at].of[1], n |-> parts[at + 1].n])

(* read_field: the id and the type, or that the structure ends.             *)
ReadField(parts, at, last) ==
  CASE PartAt(parts, at, "stop") -> Good(at + 1, [stop |-> TRUE, id |-> 0, type |-> ""])
    [] PartAt(parts, at, "field") /\ parts[at].n > 0 ->
         Good(at + 1, [stop |-> FALSE, id |-> last + parts[at].n, type |-> parts[at].of[1]])
    [] PartAt(parts, at, "field") /\ parts[at].n = 0 /\ PartAt(parts, at + 1, "number") ->
         Good(at + 2, [stop |-> FALSE, id |-> parts[at + 1].n, type |-> parts[at].of[1]])
    [] OTHER -> Bad

(* What skip expects of a value nobody asked for, by its type: the items of *)
(* a list by theirs. Of the types of the protocol it has no place for the  *)
(* integers of one and of two bytes.                                       *)
Skip(type) ==
  CASE type \in {"true", "false"}        -> AsFlag
    [] type \in {"i32", "i64", "double"} -> AsNumber
    [] type = "binary"                   -> AsText
    [] type = "list"                     -> Shape("list", <<>>)
    [] type = "struct"                   -> AsStruct(<<>>)
    [] OTHER                             -> Shape("none", <<>>)

(* A value of a shape, of a field that was given a type.                   *)
RECURSIVE Take(_, _, _, _), TakeFields(_, _, _, _), TakeItems(_, _, _, _, _)
Take(parts, at, shape, type) ==
  CASE shape.is = "flag"   -> Good(at, type = "true")
    [] shape.is = "number" -> IF PartAt(parts, at, "number") THEN Good(at + 1, parts[at].n) ELSE Bad
    [] shape.is = "text"   -> IF PartAt(parts, at, "text") THEN Good(at + 1, parts[at].of[1]) ELSE Bad
    [] shape.is = "list"   -> TakeItems(parts, ReadListHeader(parts, at), shape, 0, <<>>)
    [] shape.is = "struct" -> TakeFields(parts, ReadField(parts, at, 0), shape.of[1], <<>>)
    [] OTHER               -> Bad

(* The items of a list behind its header, or behind some that were taken.   *)
TakeItems(parts, before, list, n, taken) ==
  LET header == before.value
      of == IF list.of = <<>> THEN Skip(header.elem) ELSE list.of[1]
      next(item) ==
        IF item.bad THEN Bad
        ELSE TakeItems(parts, [before EXCEPT !.at = item.at], list, n + 1, Append(taken, item.value))
  IN  IF before.bad THEN Bad
      ELSE IF n = header.n THEN Good(before.at, taken) ELSE next(Take(parts, before.at, of, "item"))

(* The fields of a structure up to its stop, from one whose header is read: *)
(* a function from the ids that were met and are known.                    *)
TakeFields(parts, head, known, taken) ==
  LET field == head.value
      asked == field.id \in DOMAIN known
      next(value) ==
        IF value.bad THEN Bad
        ELSE TakeFields(parts, ReadField(parts, value.at, field.id), known,
                        IF asked THEN (field.id :> value.value) @@ taken ELSE taken)
  IN  IF head.bad THEN Bad
      ELSE IF field.stop THEN Good(head.at, taken)
      ELSE next(Take(parts, head.at, IF asked THEN known[field.id] ELSE Skip(field.type), field.type))

(* A field of what was taken, or what it is when the file leaves it out.    *)
FieldIn(taken, id, default) == IF id \in DOMAIN taken THEN taken[id] ELSE default

-----------------------------------------------------------------------------
(* The shapes of the structures of parquet.thrift, by the fields the parsers *)
(* of reader.rs act on.                                                    *)
GeometryTypeShape == AsStruct(1 :> AsText)
LogicalTypeShape == AsStruct((17 :> GeometryTypeShape) @@ (18 :> GeometryTypeShape))
SchemaElementShape ==
  AsStruct([id \in {2, 3, 5, 6, 7} |-> AsNumber] @@ (4 :> AsText) @@ (10 :> LogicalTypeShape))
ColumnMetaShape == AsStruct([id \in {1, 4, 5, 9, 11} |-> AsNumber] @@ (3 :> AsList(AsText)))
ColumnChunkShape == AsStruct(3 :> ColumnMetaShape)
RowGroupShape == AsStruct((1 :> AsList(ColumnChunkShape)) @@ (3 :> AsNumber))
KeyValueShape == AsStruct((1 :> AsText) @@ (2 :> AsText))
FileMetaDataShape ==
  AsStruct((2 :> AsList(SchemaElementShape)) @@ (3 :> AsNumber) @@ (4 :> AsList(RowGroupShape))
             @@ (5 :> AsList(KeyValueShape)))

SubheaderShape == AsStruct([id \in {1, 2} |-> AsNumber])
HeaderV2Shape == AsStruct([id \in {1, 4, 5, 6} |-> AsNumber] @@ (7 :> AsFlag))
PageHeaderShape ==
  AsStruct([id \in {1, 2, 3} |-> AsNumber] @@ (5 :> SubheaderShape) @@ (7 :> SubheaderShape) @@ (8 :> HeaderV2Shape))

(* parse_data_page_header_v2: the lengths of the level streams, and whether *)
(* the values behind them are compressed, as they are if it says nothing.   *)
ParseHeaderV2(taken) ==
  LET def == FieldIn(taken, 5, -1)
      rep == FieldIn(taken, 6, -1)
  IN  [bad |-> def < 0 \/ rep < 0, n |-> FieldIn(taken, 1, 0), encoding |-> FieldIn(taken, 4, -1),
       v2 |-> <<[rep |-> rep, def |-> def, compressed |-> FieldIn(taken, 7, TRUE)]>>]

ParseSubheader(taken) == [bad |-> FALSE, n |-> FieldIn(taken, 1, 0), encoding |-> FieldIn(taken, 2, -1), v2 |-> <<>>]

(* parse_page_header.                                                      *)
ParsePageHeader(taken) ==
  LET sub == CASE 8 \in DOMAIN taken -> ParseHeaderV2(taken[8])
               [] 8 \notin DOMAIN taken /\ 5 \in DOMAIN taken -> ParseSubheader(taken[5])
               [] OTHER -> ParseSubheader(FieldIn(taken, 7, <<>>))
      type == FieldIn(taken, 1, -1)
      size == FieldIn(taken, 2, -1)
      compressed == FieldIn(taken, 3, -1)
  IN  [bad |-> sub.bad \/ type < 0 \/ size < 0 \/ compressed < 0, type |-> type, size |-> size,
       compressed |-> compressed, n |-> sub.n, encoding |-> sub.encoding, v2 |-> sub.v2]

(* next_page: the header at a position and the compressed body behind it.   *)
NextPage(file, pos) ==
  LET slice(at, page) ==
        IF page.bad \/ at + page.compressed > Len(file) + 1 THEN Bad
        ELSE Good(at + page.compressed, [page |-> page, comp |-> SubSeq(file, at, at + page.compressed - 1)])
      behind(header) == IF header.bad THEN Bad ELSE slice(header.at, ParsePageHeader(header.value))
  IN  behind(Take(file, pos, PageHeaderShape, "struct"))

(* The footer of a file between its length and the pages.                   *)
Magic == Part("magic", 1, <<>>)

Footer(file) ==
  LET at == Len(file) - 1
      start == at - file[at].n
  IN  IF Len(file) < 3 \/ file[1].is # "magic" \/ file[Len(file)].is # "magic" THEN Bad
      ELSE IF start < 2 THEN Bad
      ELSE Take(SubSeq(file, start, at - 1), 1, FileMetaDataShape, "struct")

FileOfParts(pages, footer) == <<Magic>> \o pages \o footer \o <<Part("footer", Len(footer), <<>>), Magic>>
=============================================================================
