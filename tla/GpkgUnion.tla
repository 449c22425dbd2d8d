------------------------------ MODULE GpkgUnion ------------------------------
(***************************************************************************)
(* What appending a GeoPackage to an existing one promises (README.md,     *)
(* "Writing into an existing file merges the two", and the table of        *)
(* reconcile.rs): the result holds the content of both, the incoming       *)
(* layers replacing those of the same name; where no union exists nothing  *)
(* is written.  Rowids, record ids and the order of the rows do not        *)
(* appear: they are how GpkgAppend keeps this promise.                     *)
(***************************************************************************)
EXTENDS Integers

CONSTANTS
  Boxes,      \* the contents a source may have
  Mergeable,  \* the tiling schemes whose table the crate can index anew
  None        \* no identifier

(* layers   : name -> [ident, ...], a feature layer                        *)
(* pyramids : name -> [ident, scheme, tiles], tiles a set of <<key, blob>> *)
(* tables   : name -> [ident, ...], somebody else's table                  *)
(* docs     : the metadata documents                                       *)
Empty == [layers |-> <<>>, pyramids |-> <<>>, tables |-> <<>>, docs |-> {}]

VARIABLE box  \* the content of the destination

-----------------------------------------------------------------------------
(* g laid over f.                                                          *)
Over(f, g) ==
  [n \in DOMAIN f \cup DOMAIN g |-> IF n \in DOMAIN g THEN g[n] ELSE f[n]]

Chosen(f, names) == [n \in names |-> f[n]]

(* The contents of one pyramid laid beside another: one tile, two contents *)
Overlap(p, q) == \E a \in p.tiles, b \in q.tiles : a[1] = b[1] /\ a[2] # b[2]

MergedPyramid(p, q) == [p EXCEPT !.tiles = @ \cup q.tiles]

Union(b, s, names) ==
  [layers   |-> Over(b.layers, Chosen(s.layers, names)),
   pyramids |-> [n \in DOMAIN b.pyramids \cup DOMAIN s.pyramids |->
                   IF n \notin DOMAIN s.pyramids THEN b.pyramids[n]
                   ELSE IF n \notin DOMAIN b.pyramids THEN s.pyramids[n]
                   ELSE MergedPyramid(b.pyramids[n], s.pyramids[n])],
   tables   |-> Over(b.tables, s.tables),
   docs     |-> b.docs \cup s.docs]

(* Two pyramids of one name that are not the same pyramid, or disagree.    *)
PyramidsDiffer(b, s) ==
  \E n \in DOMAIN b.pyramids \cap DOMAIN s.pyramids :
    \/ b.pyramids[n].scheme # s.pyramids[n].scheme
    \/ b.pyramids[n].scheme \notin Mergeable
    \/ Overlap(b.pyramids[n], s.pyramids[n])

(* A user table has no row identity, so one name is one side's table only; *)
(* and no name may stand for things of two kinds in the result.            *)
NamesClash(b, s, u) ==
  \/ DOMAIN b.tables \cap DOMAIN s.tables # {}
  \/ DOMAIN u.layers \cap (DOMAIN u.pyramids \cup DOMAIN u.tables) # {}
  \/ DOMAIN u.pyramids \cap DOMAIN u.tables # {}

(* gpkg_contents.identifier is UNIQUE, and NULLs do not collide.           *)
Entries(u) ==
  {<<"layer", n, u.layers[n].ident>> : n \in DOMAIN u.layers}
    \cup {<<"pyramid", n, u.pyramids[n].ident>> : n \in DOMAIN u.pyramids}
    \cup {<<"table", n, u.tables[n].ident>> : n \in DOMAIN u.tables}

IdentifiersClash(u) ==
  \E x, y \in Entries(u) : x # y /\ x[3] = y[3] /\ x[3] # None

Conflict(b, s, names) ==
  \/ PyramidsDiffer(b, s)
  \/ NamesClash(b, s, Union(b, s, names))
  \/ IdentifiersClash(Union(b, s, names))

-----------------------------------------------------------------------------
Init == box = Empty \/ box \in Boxes

(* --layer narrows the layers to one, and nothing else.                    *)
Choices(s) == {DOMAIN s.layers} \cup {{n} : n \in DOMAIN s.layers}

Append ==
  \E s \in Boxes : \E names \in Choices(s) :
    /\ ~Conflict(box, s, names)
    /\ box' = Union(box, s, names)

Spec == Init /\ [][Append]_box
=============================================================================
