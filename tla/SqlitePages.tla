---------------------------- MODULE SqlitePages ----------------------------
(***************************************************************************)
(* Pages of an SQLite file, as src/sqlite.rs writes and reads them: what a  *)
(* cell weighs, how a long record spills to overflow pages, and the walks   *)
(* of a table and of an index b-tree.                                       *)
(*                                                                         *)
(* A record is its key (a rowid, or its place in index order), its length   *)
(* in bytes and, in sqlite_master, the root page it names.  A page is one  *)
(* of                                                                      *)
(*   [kind |-> "leaf",  cells]          cells [row, local, first]          *)
(*   [kind |-> "inode", cells, right]   cells [child, key]                 *)
(*   [kind |-> "ileaf", cells]          cells [row, local, first]          *)
(*   [kind |-> "iinode", cells, right]  cells [child, row, local, first]   *)
(*   [kind |-> "overflow", next, row, from, to]                            *)
(* where local bytes of the row are in the cell and the bytes from..to of  *)
(* it are in an overflow page; page 0 is no page.                          *)
(***************************************************************************)
EXTENDS Integers, Sequences, SequencesExt

CONSTANTS
  PageSize,  \* 4096
  Truncated  \* a record, or a page, the reader cannot make anything of

(* Below 196 bytes the share of a record that stays on its page would be   *)
(* negative.                                                               *)
ASSUME PageAssumption == PageSize \in Nat /\ PageSize >= 196

DbHeader == 100   \* the database header in front of page 1's own

-----------------------------------------------------------------------------
(* varint_len: groups of seven bits, eight at most; nine bytes from 2^56   *)
(* on and for a negative number.                                           *)
Groups(v) == IF v < 128 THEN 1 ELSE IF v < 16384 THEN 2 ELSE IF v < 2097152 THEN 3 ELSE 4

VarintLen(v) ==
  LET high == v \div 268435456   \* what is left above four groups
  IN  IF v < 0 \/ high >= 268435456 THEN 9
      ELSE IF high = 0 THEN Groups(v) ELSE 4 + Groups(high)

TableMaxLocal == PageSize - 35
IndexMaxLocal == ((PageSize - 12) * 64) \div 255 - 23
MinLocal == ((PageSize - 12) * 32) \div 255 - 23

OverflowSize == PageSize - 4

(* local_payload: the bytes of a record that stay on the page.             *)
LocalPayload(total, max) ==
  LET k == MinLocal + ((total - MinLocal) % OverflowSize)
  IN  IF total <= max THEN total ELSE IF k <= max THEN k ELSE MinLocal

(* Mutant of Spill: a last, partly filled page is forgotten.               *)
SpillRoundedDown(total, max) == (total - LocalPayload(total, max)) \div OverflowSize

(* The number of its overflow pages.                                       *)
Spill(total, max) ==
  (total - LocalPayload(total, max) + OverflowSize - 1) \div OverflowSize

(* An index cell, and a table leaf's, which has the rowid before the bytes.*)
IndexCellSize(row) ==
  LET local == LocalPayload(row.len, IndexMaxLocal)
  IN  VarintLen(row.len) + local + (IF local < row.len THEN 4 ELSE 0)

TableCellSize(row) ==
  LET local == LocalPayload(row.len, TableMaxLocal)
  IN  VarintLen(row.len) + VarintLen(row.key) + local + (IF local < row.len THEN 4 ELSE 0)

(* One of an interior page's cells, its slot in the pointer array included.*)
ChildCost(child) == 2 + 4 + VarintLen(child.key)

(* The sum of these numbers.                                               *)
Total(w) ==
  LET sum[k \in 0..Len(w)] == IF k = 0 THEN 0 ELSE sum[k - 1] + w[k]
  IN  sum[Len(w)]

(* The bytes a cell takes on a page of this kind, its slot included.       *)
Weight(kind, c) ==
  CASE kind = "leaf"   -> 2 + TableCellSize(c.row)
    [] kind = "inode"  -> ChildCost(c)
    [] kind = "ileaf"  -> 2 + IndexCellSize(c.row)
    [] kind = "iinode" -> 2 + 4 + IndexCellSize(c.row)

Weights(kind, cells) == [i \in DOMAIN cells |-> Weight(kind, cells[i])]

(* The bytes of a page from its own header on, the rendered size.          *)
PageBytes(page) ==
  (IF page.kind \in {"inode", "iinode"} THEN 12 ELSE 8) + Total(Weights(page.kind, page.cells))

-----------------------------------------------------------------------------
(* The reader's end of leaf_cell and index_cell: the local bytes, then what *)
(* each page of the chain adds, until the record has its length.           *)
ReadRow(pages, cell, max) ==
  LET local == LocalPayload(cell.row.len, max)
      n == (cell.row.len - local + OverflowSize - 1) \div OverflowSize
      link[k \in 1..n] ==
        IF k = 1 THEN cell.first
        ELSE IF link[k - 1] \in DOMAIN pages /\ pages[link[k - 1]].kind = "overflow"
             THEN pages[link[k - 1]].next
             ELSE 0
      Adds(k) ==
        LET have == local + (k - 1) * OverflowSize
            page == pages[link[k]]
        IN  /\ link[k] \in DOMAIN pages /\ page.kind = "overflow"
            /\ page.row = cell.row /\ page.from = have
            /\ page.to = have + (IF cell.row.len - have < OverflowSize
                                 THEN cell.row.len - have ELSE OverflowSize)
  IN  IF cell.local = local /\ \A k \in 1..n : Adds(k) THEN cell.row ELSE Truncated

(* walk_table: the rows of the leaves, from left to right.  A page of any   *)
(* other kind is refused, and the read with it: Truncated stands for that. *)
WalkTable(pages, root) ==
  LET walk[p \in DOMAIN pages] ==
        LET page == pages[p]
        IN  IF page.kind = "leaf"
            THEN [i \in DOMAIN page.cells |-> ReadRow(pages, page.cells[i], TableMaxLocal)]
            ELSE IF page.kind = "inode"
            THEN FlattenSeq([i \in DOMAIN page.cells |-> walk[page.cells[i].child]])
                   \o walk[page.right]
            ELSE <<Truncated>>
  IN  walk[root]

(* walk_index: an interior cell's own record comes after its left subtree. *)
WalkIndex(pages, root) ==
  LET walk[p \in DOMAIN pages] ==
        LET page == pages[p]
            record(i) == ReadRow(pages, page.cells[i], IndexMaxLocal)
        IN  IF page.kind = "ileaf"
            THEN [i \in DOMAIN page.cells |-> record(i)]
            ELSE IF page.kind = "iinode"
            THEN FlattenSeq([i \in DOMAIN page.cells |->
                               Append(walk[page.cells[i].child], record(i))])
                   \o walk[page.right]
            ELSE <<Truncated>>
  IN  walk[root]
=============================================================================
