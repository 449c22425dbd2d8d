----------------------------- MODULE SqliteTree -----------------------------
(***************************************************************************)
(* write_database of src/sqlite.rs: every table, the indexes its DDL        *)
(* implies, sqlite_sequence, the carried indexes and sqlite_master, each    *)
(* packed into a b-tree bottom up by one greedy pass per level.            *)
(*                                                                         *)
(* One step places one item in the open page or closes the page.           *)
(***************************************************************************)
EXTENDS SqlitePages, FiniteSets

CONSTANTS
  None,        \* no AUTOINCREMENT
  ShortRecord, \* the length of a record that has no DDL of the user's in it
  Databases    \* what write_database is called with

(* A database is                                                           *)
(*   tables : [rows, indexes, mark, ddl], ddl the length of its schema row, *)
(*            mark None, 0 (declared, never used) or a high-water mark      *)
(*   extra  : [kind, rows, ddl], kind "index" or "schema"                  *)
Row(key, len) == [key |-> key, len |-> len]

Ascending(rows) == \A i, j \in DOMAIN rows : i < j => rows[i].key < rows[j].key

OrderedRows == {rows \in Seq([key : Int, len : Nat]) : Ascending(rows)}

IsDatabase(d) ==
  /\ d.tables \in Seq([rows : OrderedRows, indexes : Seq(OrderedRows), mark : Nat \cup {None}, ddl : Nat])
  /\ d.extra \in Seq([kind : {"index", "schema"}, rows : OrderedRows, ddl : Nat])

ASSUME DatabaseAssumption ==
  ShortRecord \in Nat /\ \A d \in Databases : IsDatabase(d)

VARIABLES
  objects,  \* the b-trees and schema entries to build, in order
  roots,    \* the root pages of the objects built so far; 0 for none
  pages,    \* page number -> page
  next,     \* next_page
  items,    \* the level's input: cells, children or, of an index, records
  dividers, \* the records between the children of an index level
  done,     \* items on closed pages
  taken,    \* items on the open page
  used,     \* the bytes they take
  above,    \* the level being built: [page, key], and for an index pages
  promoted, \* the records between them
  stage     \* "object", "leaves", "inner", "ileaves", "iinner", "written", "failed"

level == <<items, dividers, done, taken, used, above, promoted>>
vars == <<objects, roots, pages, next, level, stage>>

-----------------------------------------------------------------------------
(* The objects in the order they are built: a table, its own indexes, and   *)
(* sqlite_sequence after the first table that is AUTOINCREMENT.            *)
SequenceRows(tables) ==
  LET marked == {i \in DOMAIN tables : tables[i].mark # None /\ tables[i].mark > 0}
  IN  [i \in 1..Cardinality(marked) |-> Row(i, ShortRecord)]

ObjectsOf(db) ==
  LET tables == db.tables
      First(i) == tables[i].mark # None /\ \A j \in 1..(i - 1) : tables[j].mark = None
      Parts(i) ==
        <<[kind |-> "table", rows |-> tables[i].rows, ddl |-> tables[i].ddl]>>
          \o [j \in DOMAIN tables[i].indexes |->
                [kind |-> "index", rows |-> tables[i].indexes[j], ddl |-> ShortRecord]]
          \o (IF First(i)
              THEN <<[kind |-> "table", rows |-> SequenceRows(tables), ddl |-> ShortRecord]>>
              ELSE <<>>)
  IN  FlattenSeq([i \in DOMAIN tables |-> Parts(i)]) \o db.extra

Building == Len(roots) < Len(objects)
This == objects[Len(roots) + 1]

(* The rows of sqlite_master, each with the root page of its object.       *)
MasterRows ==
  [i \in DOMAIN objects |-> [key |-> i, len |-> objects[i].ddl, root |-> roots[i]]]

(* f with the entries of g; their domains are disjoint.                    *)
Over(f, g) == [p \in DOMAIN f \cup DOMAIN g |-> IF p \in DOMAIN g THEN g[p] ELSE f[p]]

At(p, page) == [q \in {p} |-> page]

(* Cells of these rows, their overflow pages allocated from start on.      *)
Cells(rows, max, start) ==
  LET free[k \in 0..Len(rows)] ==
        IF k = 0 THEN start ELSE free[k - 1] + Spill(rows[k].len, max)
      cells == [k \in DOMAIN rows |->
                 [row   |-> rows[k],
                  local |-> LocalPayload(rows[k].len, max),
                  first |-> IF Spill(rows[k].len, max) = 0 THEN 0 ELSE free[k - 1]]]
      chain(p) == CHOOSE k \in DOMAIN rows : free[k - 1] <= p /\ p < free[k]
      overflow(p) ==
        LET k == chain(p)
            from == cells[k].local + (p - free[k - 1]) * OverflowSize
            rest == rows[k].len - from
        IN  [kind |-> "overflow", row |-> rows[k],
             next |-> IF p + 1 < free[k] THEN p + 1 ELSE 0,
             from |-> from,
             to   |-> from + IF rest < OverflowSize THEN rest ELSE OverflowSize]
  IN  [cells |-> cells, next |-> free[Len(rows)],
       pages |-> [p \in start..(free[Len(rows)] - 1) |-> overflow(p)]]

-----------------------------------------------------------------------------
OnLevel(input, separators) ==
  /\ items' = input /\ dividers' = separators
  /\ done' = 0 /\ taken' = 0 /\ used' = 0 /\ above' = <<>> /\ promoted' = <<>>

Init ==
  /\ objects \in {ObjectsOf(db) : db \in Databases}
  /\ roots = <<>> /\ pages = <<>> /\ next = 2
  /\ items = <<>> /\ dividers = <<>> /\ done = 0 /\ taken = 0 /\ used = 0
  /\ above = <<>> /\ promoted = <<>> /\ stage = "object"

(* The capacity of a leaf and of an interior page of this tree: those of    *)
(* sqlite_master are packed to fit page 1, behind the database header.     *)
Room == PageSize - (IF Building THEN 0 ELSE DbHeader)

LeafRoom == Room - 8
InnerRoom == Room - 12

(* A virtual table or a trigger: no pages.                                 *)
SchemaOnly ==
  /\ stage = "object" /\ Building /\ This.kind = "schema"
  /\ roots' = Append(roots, 0)
  /\ UNCHANGED <<objects, pages, next, level, stage>>

BeginIndex ==
  /\ stage = "object" /\ Building /\ This.kind = "index"
  /\ OnLevel(This.rows, <<>>)
  /\ stage' = "ileaves"
  /\ UNCHANGED <<objects, roots, pages, next>>

(* All cells of a table are made before any is packed.                     *)
TreeCells(rows) == Cells(rows, TableMaxLocal, next)

MasterFits ==
  DbHeader + 8 + Total([i \in DOMAIN MasterRows |-> 2 + TableCellSize(MasterRows[i])]) <= PageSize

BeginTable ==
  /\ stage = "object"
  /\ \/ Building /\ This.kind = "table"
     \/ ~Building /\ ~MasterFits
  /\ LET made == TreeCells(IF Building THEN This.rows ELSE MasterRows)
     IN  /\ OnLevel(made.cells, <<>>)
         /\ pages' = Over(pages, made.pages)
         /\ next' = made.next
  /\ stage' = "leaves"
  /\ UNCHANGED <<objects, roots>>

(* sqlite_master fits page 1 as a leaf.                                    *)
MasterLeaf ==
  /\ stage = "object" /\ ~Building /\ MasterFits
  /\ LET made == TreeCells(MasterRows)
     IN  /\ pages' = Over(pages, Over(made.pages, At(1, [kind |-> "leaf", cells |-> made.cells])))
         /\ next' = made.next
  /\ stage' = "written"
  /\ UNCHANGED <<objects, roots, level>>

(* A new page next, and one more item on the level above.                  *)
Close(page, key) ==
  /\ pages' = Over(pages, At(next, page))
  /\ next' = next + 1
  /\ above' = Append(above, [page |-> next, key |-> key])
  /\ done' = done + taken /\ taken' = 0 /\ used' = 0

Left == done + taken < Len(items)
Upcoming == items[done + taken + 1]
OpenItems == SubSeq(items, done + 1, done + taken)

-----------------------------------------------------------------------------
(* pack_leaves                                                             *)
(* Mutant of EmptyLeaf: a table without rows gets no page.                 *)
EmptyLeafMissing ==
  /\ stage = "leaves" /\ items = <<>> /\ above = <<>>
  /\ UNCHANGED vars

EmptyLeaf ==
  /\ stage = "leaves" /\ items = <<>> /\ above = <<>>
  /\ Close([kind |-> "leaf", cells |-> <<>>], 0)
  /\ UNCHANGED <<objects, roots, items, dividers, promoted, stage>>

LeafSize == 2 + TableCellSize(Upcoming.row)

(* Mutant of LeafFull: the slot in the pointer array is not counted.       *)
LeafFullUnslotted == taken > 0 /\ used + LeafSize - 2 > LeafRoom

LeafFull == taken > 0 /\ used + LeafSize > LeafRoom

PlaceCell ==
  /\ stage = "leaves" /\ Left /\ ~LeafFull /\ LeafSize <= LeafRoom
  /\ taken' = taken + 1 /\ used' = used + LeafSize
  /\ UNCHANGED <<objects, roots, pages, next, items, dividers, done, above, promoted, stage>>

CellTooLarge ==
  /\ stage = "leaves" /\ Left /\ ~LeafFull /\ LeafSize > LeafRoom
  /\ stage' = "failed"
  /\ UNCHANGED <<objects, roots, pages, next, level>>

CloseLeaf ==
  /\ stage = "leaves" /\ taken > 0 /\ (Left => LeafFull)
  /\ Close([kind |-> "leaf", cells |-> OpenItems], items[done + taken].row.key)
  /\ UNCHANGED <<objects, roots, items, dividers, promoted, stage>>

(* pack_interior                                                           *)
PageFull == taken > 0 /\ used + ChildCost(Upcoming) > InnerRoom

PlaceChild ==
  /\ stage = "inner" /\ Left /\ ~PageFull
  /\ taken' = taken + 1 /\ used' = used + ChildCost(Upcoming)
  /\ UNCHANGED <<objects, roots, pages, next, items, dividers, done, above, promoted, stage>>

(* write_interior: the last child is the right-most pointer.               *)
Interior(group) ==
  [kind |-> "inode", right |-> Last(group).page,
   cells |-> [i \in 1..(Len(group) - 1) |-> [child |-> group[i].page, key |-> group[i].key]]]

CloseInner ==
  /\ stage = "inner" /\ taken > 0 /\ (Left => PageFull)
  /\ Close(Interior(OpenItems), Last(OpenItems).key)
  /\ UNCHANGED <<objects, roots, items, dividers, promoted, stage>>

LevelDone ==
  /\ stage \in {"leaves", "inner"}
  /\ above # <<>> /\ done = Len(items)

(* interior_fits: the last child costs nothing.                            *)
RootFits == Total([i \in 1..(Len(above) - 1) |-> ChildCost(above[i])]) <= InnerRoom

RootFound ==
  /\ LevelDone /\ Building /\ Len(above) = 1
  /\ roots' = Append(roots, above[1].page)
  /\ stage' = "object"
  /\ UNCHANGED <<objects, pages, next, level>>

MasterRoot ==
  /\ LevelDone /\ ~Building /\ RootFits
  /\ pages' = Over(pages, At(1, Interior(above)))
  /\ stage' = "written"
  /\ UNCHANGED <<objects, roots, next, level>>

NextLevel ==
  /\ LevelDone
  /\ IF Building THEN Len(above) > 1 ELSE ~RootFits
  /\ OnLevel(above, <<>>)
  /\ stage' = "inner"
  /\ UNCHANGED <<objects, roots, pages, next>>

-----------------------------------------------------------------------------
(* build_index_btree                                                       *)
(* The cells of the group and their overflow pages, the page, and the next  *)
(* record promoted over it.                                                *)
CloseIndexPage(made, page, promotion) ==
  /\ pages' = Over(pages, Over(made.pages, At(made.next, page)))
  /\ next' = made.next + 1
  /\ above' = Append(above, made.next)
  /\ promoted' = promoted \o promotion
  /\ taken' = 0 /\ used' = 0
  /\ UNCHANGED <<objects, roots, items, dividers, stage>>

EmptyIndexLeaf ==
  /\ stage = "ileaves" /\ items = <<>> /\ above = <<>>
  /\ CloseIndexPage(Cells(<<>>, IndexMaxLocal, next), [kind |-> "ileaf", cells |-> <<>>], <<>>)
  /\ UNCHANGED done

IndexLeafFull == taken > 0 /\ used + 2 + IndexCellSize(Upcoming) > PageSize - 8

PlaceRecord ==
  /\ stage = "ileaves" /\ Left /\ ~IndexLeafFull
  /\ taken' = taken + 1 /\ used' = used + 2 + IndexCellSize(Upcoming)
  /\ UNCHANGED <<objects, roots, pages, next, items, dividers, done, above, promoted, stage>>

CloseIndexLeaf ==
  /\ stage = "ileaves" /\ taken > 0 /\ (Left => IndexLeafFull)
  /\ LET made == Cells(OpenItems, IndexMaxLocal, next)
     IN  CloseIndexPage(made, [kind |-> "ileaf", cells |-> made.cells],
                        IF Left THEN <<Upcoming>> ELSE <<>>)
  /\ done' = done + taken + (IF Left THEN 1 ELSE 0)

(* pack_index_interior: the page has taken dividers and one child more.    *)
DividerLeft == done + taken < Len(items) - 1
DividerCost == 2 + 4 + IndexCellSize(dividers[done + taken + 1])
NodeFull == taken > 0 /\ used + DividerCost > PageSize - 12

PlaceDivider ==
  /\ stage = "iinner" /\ DividerLeft /\ ~NodeFull
  /\ taken' = taken + 1 /\ used' = used + DividerCost
  /\ UNCHANGED <<objects, roots, pages, next, items, dividers, done, above, promoted, stage>>

(* index_interior_cell                                                     *)
WithChild(cell, child) ==
  [child |-> child, row |-> cell.row, local |-> cell.local, first |-> cell.first]

(* Mutant of CloseIndexNode: the promoted divider's cell is made as well.  *)
CloseIndexNodeEager ==
  /\ stage = "iinner" /\ done < Len(items) /\ (DividerLeft => NodeFull)
  /\ LET past == done + taken + 1
         made == Cells(SubSeq(dividers, done + 1, IF past <= Len(dividers) THEN past ELSE past - 1),
                       IndexMaxLocal, next)
     IN  CloseIndexPage(made,
           [kind  |-> "iinode", right |-> items[past],
            cells |-> [i \in 1..taken |-> WithChild(made.cells[i], items[done + i])]],
           IF past <= Len(dividers) THEN <<dividers[past]>> ELSE <<>>)
  /\ done' = done + taken + 1

CloseIndexNode ==
  /\ stage = "iinner" /\ done < Len(items) /\ (DividerLeft => NodeFull)
  /\ LET made == Cells(SubSeq(dividers, done + 1, done + taken), IndexMaxLocal, next)
         past == done + taken + 1
     IN  CloseIndexPage(made,
           [kind  |-> "iinode", right |-> items[past],
            cells |-> [i \in DOMAIN made.cells |-> WithChild(made.cells[i], items[done + i])]],
           IF past <= Len(dividers) THEN <<dividers[past]>> ELSE <<>>)
  /\ done' = done + taken + 1

IndexLevelDone ==
  /\ stage \in {"ileaves", "iinner"}
  /\ above # <<>> /\ done = Len(items)

(* One child is the root, whatever has been promoted past it.              *)
IndexRoot ==
  /\ IndexLevelDone /\ Len(above) = 1
  /\ roots' = Append(roots, above[1])
  /\ stage' = "object"
  /\ UNCHANGED <<objects, pages, next, level>>

NextIndexLevel ==
  /\ IndexLevelDone /\ Len(above) > 1
  /\ OnLevel(above, promoted)
  /\ stage' = "iinner"
  /\ UNCHANGED <<objects, roots, pages, next>>

Next ==
  \/ SchemaOnly \/ BeginTable \/ BeginIndex \/ MasterLeaf
  \/ EmptyLeaf \/ PlaceCell \/ CellTooLarge \/ CloseLeaf
  \/ PlaceChild \/ CloseInner \/ RootFound \/ MasterRoot \/ NextLevel
  \/ EmptyIndexLeaf \/ PlaceRecord \/ CloseIndexLeaf \/ PlaceDivider \/ CloseIndexNode
  \/ IndexRoot \/ NextIndexLevel

(* One call, which keeps executing until it returns.                       *)
Spec == Init /\ [][Next]_vars /\ WF_vars(Next)

-----------------------------------------------------------------------------
(* The greedy sums and the rendered page agree: no page is asked to hold    *)
(* more than it has, page 1 less the database header, so the "page          *)
(* overflow" errors of the renderers are never returned.                    *)
PagesFit ==
  stage \in {"written", "failed"} =>
    \A p \in DOMAIN pages : pages[p].kind # "overflow" =>
      PageBytes(pages[p]) <= PageSize - (IF p = 1 THEN DbHeader ELSE 0)

(* The reader finds in sqlite_master every object under its root, and under *)
(* the root of a table every row, whole and in rowid order, through any     *)
(* number of levels and overflow pages.                                     *)
TablesReadBack ==
  stage = "written" =>
    /\ WalkTable(pages, 1) = MasterRows
    /\ \A i \in DOMAIN objects :
         objects[i].kind = "table" => WalkTable(pages, roots[i]) = objects[i].rows

(* The pages a page names, each with the place that names it.              *)
LinksOf(p, page) ==
  LET spills == {<<p, "spill", i, page.cells[i].first>> :
                   i \in {j \in DOMAIN page.cells : page.cells[j].first # 0}}
      children == {<<p, "child", i, page.cells[i].child>> : i \in DOMAIN page.cells}
                    \cup {<<p, "child", 0, page.right>>}
  IN  (IF page.kind \in {"leaf", "ileaf", "iinode"} THEN spills ELSE {})
        \cup (IF page.kind \in {"inode", "iinode"} THEN children ELSE {})
        \cup (IF page.kind = "overflow" /\ page.next # 0
              THEN {<<p, "next", 0, page.next>>} ELSE {})

Links == UNION {LinksOf(p, pages[p]) : p \in DOMAIN pages}

RootLinks == {<<0, "root", i, roots[i]>> : i \in {j \in DOMAIN roots : roots[j] # 0}}

(* Every page allocated is in the file and is named exactly once, by a page *)
(* or as a root: none is lost ("Page N: never used") and none is shared.    *)
EveryPageUsedOnce ==
  stage = "written" =>
    /\ DOMAIN pages = 1..(next - 1)
    /\ {l[4] : l \in Links \cup RootLinks} = 2..(next - 1)
    /\ Cardinality(Links \cup RootLinks) = next - 2

(* Every call returns: each level is shorter than the one below it.        *)
CallReturns == <>(stage \in {"written", "failed"})

-----------------------------------------------------------------------------
(* What a comment says, and the code does not do.                           *)

(* sqlite.rs:1214, of the record promoted over an index level: it "then     *)
(* lives only in the interior node".  When the last record of all is the    *)
(* one promoted there is no node for it to live in.                         *)
IndexKeepsEveryRecord ==
  stage = "written" =>
    \A i \in DOMAIN objects :
      objects[i].kind = "index" => WalkIndex(pages, roots[i]) = objects[i].rows
=============================================================================
