---------------------------- MODULE KmlVersions -----------------------------
(***************************************************************************)
(* A document of KML 2.3 lowered to 2.2 (lower.rs), one of 2.2 raised to   *)
(* 2.3 (raise.rs), and what either change reports, before the write and    *)
(* in it: each respelling, renaming and loss, in the order met.            *)
(*                                                                         *)
(* Foreign content is modelled with a prefix; the prefixes themselves, the *)
(* schema locations and the whitespace are not.                            *)
(***************************************************************************)
EXTENDS KmlTables, KmlDocument

Respelled(el, ns) == [change |-> "respelled", element |-> el, to |-> ns]
Renamed(el, to) == [change |-> "renamed", element |-> el, to |-> to]
DroppedElement(parent, el) == [change |-> "dropped", element |-> el, to |-> parent]
DroppedUnit(el) == [change |-> "dropped", element |-> el, to |-> "uom"]

(* An element by its name in a namespace, as the tables have it.           *)
Qualified(el, ns) == IF ns = "gx" THEN "gx:" \o LocalName(el, "gx") ELSE el

SlotOf(parent, name) == SelectInSeq(Slots22[parent], LAMBDA slot : name \in slot)

(* Mutant of PlaceIn22: a parent that orders nothing admits whatever is    *)
(* spelled in KML.                                                         *)
PlaceIn22Any(parent, el, ns) ==
  LET admits(s) == /\ s = "gx" => GxName(el) # {}
                   /\ Slots22[parent] # <<>> => SlotOf(parent, Qualified(el, s)) # 0
      other == IF ns = "gx" THEN "kml" ELSE "gx"
  IN  IF admits(ns) THEN <<ns>> ELSE IF admits(other) THEN <<other>> ELSE <<>>

(* The namespace 2.2 spells an element in under a parent: its own where    *)
(* that is admitted, else the other, none where neither is.                *)
PlaceIn22(parent, el, ns) ==
  LET admits(s) == /\ s = "gx" => GxName(el) # {}
                   /\ IF Slots22[parent] = <<>> THEN s = "kml" => In22(el)
                      ELSE SlotOf(parent, Qualified(el, s)) # 0
      other == IF ns = "gx" THEN "kml" ELSE "gx"
  IN  IF admits(ns) THEN <<ns>> ELSE IF admits(other) THEN <<other>> ELSE <<>>

IsTurn(n) == Is(n, "rotation") /\ n.says \notin {Silent, Figure(0)}

(* A region's only box, unturned, is the LatLonAltBox with its edges.      *)
AsAltBox(parent, n, siblings) ==
  /\ parent = "Region" /\ Is(n, "LatLonBox")
  /\ Len(SelectSeq(siblings, LAMBDA s : In(s, {"LatLonBox", "LatLonAltBox", "LatLonQuad"}))) = 1
  /\ \A i \in DOMAIN n.kids : ~IsTurn(n.kids[i])

UnitAttrs(n) == {a \in n.attrs : In(n, {"SimpleField", "Data"}) /\ a.ns = "" /\ a.name = "uom"}

(* A box without its turn, as the box that replaces it.                    *)
RECURSIVE AltBoxOf(_)
AltBoxOf(box) ==
  LET at == PlaceOf(box, {"rotation"})
  IN  IF at = 0 THEN [box EXCEPT !.ns = "kml", !.name = "LatLonAltBox"] ELSE AltBoxOf(WithoutChild(box, at))

-----------------------------------------------------------------------------
(* Children with the slot and the comments each has, as a node's.          *)
Arranged(n, kept, rest) ==
  LET put(m, kid) == [m EXCEPT !.notes = @ \o Tagged(kid.leading, Len(m.kids)),
                               !.kids = Append(@, kid.node)]
      all == FoldLeft(put, [n EXCEPT !.kids = <<>>, !.notes = <<>>], kept)
  IN  [all EXCEPT !.notes = @ \o Tagged(rest, Len(all.kids))]

(* Mutant of BySlot: the children stay as they were.                       *)
BySlotUnsorted(kept, slots) == kept

(* Children in the order of their slots, those of one slot as they were.   *)
BySlot(kept, slots) ==
  FlattenSeq([s \in 1..(slots + 1) |-> SelectSeq(kept, LAMBDA kid : kid.slot = s - 1)])

(* What is reported of a child, as the box it is replaced by if it is one, *)
(* once the namespace it goes to, if any, is known.                        *)
ReportOf(parentEl, child, alt, to) ==
  (IF alt THEN <<Renamed("LatLonBox", "LatLonAltBox")>> ELSE <<>>)
    \o (IF to = <<>> THEN <<DroppedElement(parentEl, ElementOf(child))>> ELSE <<>>)
    \o (IF to \notin {<<>>, <<child.ns>>} THEN <<Respelled(ElementOf(child), to[1])>> ELSE <<>>)
    \o (IF to # <<>> /\ UnitAttrs(child) # {} THEN <<DroppedUnit(ElementOf(child))>> ELSE <<>>)

(* A child kept, in its slot or, where the schemas give it none, in that   *)
(* of what it follows.                                                     *)
KeptIn22(acc, node, pending, named) ==
  LET slot == IF named = 0 THEN acc.slot ELSE named
  IN  [acc EXCEPT !.pending = <<>>, !.slot = slot,
                  !.kept = Append(@, [node |-> node, leading |-> pending, slot |-> slot])]

(* A node's children lowered: each in its 2.2 spelling or dropped, its     *)
(* comments then the next one's, and in the order 2.2 declares. Foreign    *)
(* content has the slot the schemas give it or that of what it follows.    *)
RECURSIVE LowerChildren(_, _), Lowered(_, _, _, _, _)

(* A child that goes to a namespace, or nowhere, put behind those kept.    *)
Lowered(acc, pending, child, to, parent) ==
  LET el == ElementOf(child)
      name == Qualified(el, to[1])
      kept(lowered) == [KeptIn22(acc, lowered.node, pending, SlotOf(parent, name))
                          EXCEPT !.report = @ \o lowered.report]
  IN  IF to = <<>> THEN [acc EXCEPT !.pending = pending]
      ELSE kept(LowerChildren(Spelled([child EXCEPT !.attrs = @ \ UnitAttrs(child)], el, to[1]), name))

LowerChildren(n, parent) ==
  LET table == Slots22[parent]
      place(child) == PlaceIn22(parent, ElementOf(child), child.ns)
      one(acc, pending, child, alt, to) ==
        Lowered([acc EXCEPT !.report = @ \o ReportOf(ElementOf(n), child, alt, to)], pending, child, to, parent)
      element(acc, pending, child, alt) == one(acc, pending, child, alt, place(child))
      known(acc, pending, kid, alt) == element(acc, pending, IF alt THEN AltBoxOf(kid) ELSE kid, alt)
      step(acc, i) ==
        LET kid == n.kids[i]
            pending == acc.pending \o NotesAt(n.notes, i - 1)
        IN  IF Foreign(kid) THEN KeptIn22(acc, kid, pending, SlotOf(parent, kid.ns \o ":" \o kid.name))
            ELSE known(acc, pending, kid, AsAltBox(ElementOf(n), kid, n.kids))
      of(all) == [node |-> Arranged(n, IF table = <<>> THEN all.kept ELSE BySlot(all.kept, Len(table)),
                                    all.pending \o NotesAt(n.notes, Len(n.kids))),
                  report |-> all.report]
  IN  of(FoldLeft(step, [kept |-> <<>>, pending |-> <<>>, slot |-> 0, report |-> <<>>], [i \in DOMAIN n.kids |-> i]))

(* A document lowered: no version stamp, and OGC's namespace where it had  *)
(* none.                                                                   *)
Lower(doc) ==
  LET unstamped == [doc.root EXCEPT !.attrs = {a \in @ : a.ns # "" \/ a.name # "version"}]
      of(lowered) == [document |-> Document(IF doc.space = "none" THEN "ogc" ELSE doc.space, lowered.node),
                      report |-> lowered.report]
  IN  of(LowerChildren(unstamped, "kml"))

(* What lowering reports of a node under a parent, without doing it.       *)
RECURSIVE SurveyLower(_, _, _, _)
SurveyLower(n, parent, parentEl, alt) ==
  LET el == IF alt THEN "LatLonAltBox" ELSE ElementOf(n)
      ns == IF alt THEN "kml" ELSE n.ns
      to == PlaceIn22(parent, el, ns)
      inner == [i \in DOMAIN n.kids |->
                 IF alt /\ Is(n.kids[i], "rotation") THEN <<>>
                 ELSE SurveyLower(n.kids[i], Qualified(el, to[1]), el, AsAltBox(el, n.kids[i], n.kids))]
      own == IF alt THEN <<Renamed(ElementOf(n), "LatLonAltBox")>> ELSE <<>>
  IN  CASE Foreign(n) -> <<>>
        [] ~Foreign(n) /\ to = <<>> -> own \o <<DroppedElement(parentEl, el)>>
        [] OTHER -> own \o (IF to # <<ns>> THEN <<Respelled(el, to[1])>> ELSE <<>>)
                    \o (IF UnitAttrs(n) # {} THEN <<DroppedUnit(el)>> ELSE <<>>)
                    \o FlattenSeq(inner)

-----------------------------------------------------------------------------
IsExtendedData(n) ==
  /\ n.says = Silent /\ \A a \in n.attrs : a.ns # ""
  /\ \A i \in DOMAIN n.kids : In(n.kids[i], {"Data", "SchemaData"}) \/ (Foreign(n.kids[i]) /\ n.kids[i].ns # "kml")

(* Mutant of RaisedAs: every adopted element goes to KML, admitted or not. *)
RaisedAsEverywhere(parent, n) ==
  CASE Foreign(n) -> <<>>
    [] n.ns = "gx" -> <<Respelled(ElementOf(n), "kml")>>
    [] OTHER -> <<>>

(* What 2.3 makes of a node under a parent, none for no change: an adopted *)
(* element in KML, and a deprecated one that its successor says all of.    *)
RaisedAs(parent, n) ==
  LET admits(el) == el \in Members23[parent]
      saysAll == \A a \in n.attrs : a.ns = "" /\ a.name = "maxLines" /\ a.value = "2"
  IN  CASE Foreign(n) -> <<>>
        [] n.ns = "gx" /\ admits(ElementOf(n)) -> <<Respelled(ElementOf(n), "kml")>>
        [] n.ns = "kml" /\ n.name = "Snippet" /\ admits("snippet") /\ saysAll -> <<Renamed("Snippet", "snippet")>>
        [] n.ns = "kml" /\ n.name = "Metadata" /\ admits("ExtendedData") /\ IsExtendedData(n) ->
             <<Renamed("Metadata", "ExtendedData")>>
        [] OTHER -> <<>>

(* The element a node is once a change is made.                            *)
ElementAfter(n, change) ==
  IF change # <<>> /\ change[1].change = "renamed" THEN change[1].to ELSE ElementOf(n)

RECURSIVE RaiseChildren(_, _)
RaiseChildren(n, parent) ==
  LET changed(kid, change, el) ==
        LET named == IF change = <<>> THEN kid
                     ELSE [Spelled(kid, el, "kml") EXCEPT !.attrs = IF el = "snippet" THEN {} ELSE @]
        IN  [RaiseChildren(named, el) EXCEPT !.report = change \o @]
      known(kid, change) == changed(kid, change, ElementAfter(kid, change))
      raised(kid) == IF Foreign(kid) THEN [node |-> kid, report |-> <<>>] ELSE known(kid, RaisedAs(parent, kid))
      of(all) == [node |-> [n EXCEPT !.kids = [i \in DOMAIN @ |-> all[i].node]],
                  report |-> FlattenSeq([i \in DOMAIN all |-> all[i].report])]
  IN  of([i \in DOMAIN n.kids |-> raised(n.kids[i])])

(* A document raised: OGC's namespace, and the stamp of 2.3.               *)
Raise(doc) ==
  LET stamped == [doc.root EXCEPT !.attrs = {a \in @ : a.ns # "" \/ a.name # "version"}
                                            \cup {Attr("", "version", "2.3")}]
      of(raised) == [document |-> Document("ogc", raised.node), report |-> raised.report]
  IN  of(RaiseChildren(stamped, "kml"))

RECURSIVE SurveyRaise(_, _)
SurveyRaise(n, parent) ==
  LET change == RaisedAs(parent, n)
      el == ElementAfter(n, change)
  IN  IF Foreign(n) THEN <<>>
      ELSE change \o FlattenSeq([i \in DOMAIN n.kids |-> SurveyRaise(n.kids[i], el)])
=============================================================================
