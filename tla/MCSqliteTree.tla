---------------------------- MODULE MCSqliteTree ----------------------------
(* SqliteTree with pages of 200 bytes: two to eight rows fill a leaf and a  *)
(* dozen or two dozen children an interior page, so trees of one, two and   *)
(* three levels occur, and lengths on both sides of every limit.            *)
EXTENDS SqliteTree

Rows(n, len) == [i \in 1..n |-> Row(i, len)]
Spread(n, len) == [i \in 1..n |-> Row(100 * i - 300, len)]

Table(rows, indexes, mark) == [rows |-> rows, indexes |-> indexes, mark |-> mark, ddl |-> 30]
Index(rows) == [kind |-> "index", rows |-> rows, ddl |-> 30]
Schema(ddl) == [kind |-> "schema", rows |-> <<>>, ddl |-> ddl]

Only(table) == [tables |-> <<table>>, extra |-> <<>>]

(* One table of n rows; long rows put one on a leaf.                       *)
MCTables ==
  {Only(Table(Rows(n, len), <<>>, None)) : n \in 0..18, len \in {20, 93}}
    \cup {Only(Table(Rows(n, 165), <<>>, None)) : n \in {26, 27, 53}}
    \cup {Only(Table(Spread(n, 160), <<>>, None)) : n \in {4, 24, 25}}

(* Rows of mixed lengths, around the limits of a page and of a chain.      *)
MCLengths == {1, 165, 166, 190, 196, 361, 362, 600}
MCMixed ==
  {Only(Table(<<Row(-1, a), Row(5, b), Row(200, a)>>, <<>>, 0)) : a, b \in MCLengths}

(* One index of n records, and records that spill.                         *)
MCIndexes ==
  {Only(Table(<<>>, <<Rows(n, 24)>>, None)) : n \in 0..17 \cup {56, 57, 63, 64}}
    \cup {Only(Table(<<>>, <<[i \in 1..n |-> Row(i, IF i % 2 = 0 THEN 220 ELSE 10)]>>, None)) :
            n \in {30, 70}}
    \cup {Only(Table(<<>>, <<Rows(n, 220)>>, None)) : n \in {42, 48}}

(* Schemas that fit page 1, do not, and have entries too long for it.      *)
MCSchemas ==
  {[tables |-> <<Table(<<Row(1, 10)>>, <<>>, None), Table(<<>>, <<Rows(3, 10)>>, 7),
                 Table(<<>>, <<>>, 0)>>,
    extra |-> <<Index(Rows(2, 30))>> \o [i \in 1..n |-> Schema(len)]] :
     n \in {0, 1, 2, 9, 10, 11, 24}, len \in {30, 84, 90, 170}}
    \cup {[tables |-> <<>>, extra |-> [i \in 1..n |-> Schema(40)]] : n \in 0..4}

MCDatabases == MCTables \cup MCMixed \cup MCIndexes \cup MCSchemas
=============================================================================
