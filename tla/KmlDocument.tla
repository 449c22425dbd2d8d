---------------------------- MODULE KmlDocument -----------------------------
(***************************************************************************)
(* The KML document model of src/kml/model.rs: a tree of elements, each    *)
(* known by the KML 2.3 element it is and the namespace it is spelled in;  *)
(* which KML a document is (reader.rs), and the document divided between   *)
(* the collection's skeleton and its features and put together again       *)
(* (document.rs).                                                          *)
(*                                                                         *)
(* A node's ns is "kml" for the document's own KML namespace, "gx" for     *)
(* Google's, or another's; its name is the local name there. What a leaf   *)
(* says is words or, for coordinates and edges, tuples of numbers. A note  *)
(* is a comment with the number of children before it. Prefixes, the       *)
(* whitespace between elements and the document's own leading and trailing *)
(* comments are not modelled. A document is its root and the kind of       *)
(* namespace the root is in: OGC's, Google's for 2.2, none, Google's for   *)
(* an older KML, or no KML's.                                              *)
(***************************************************************************)
EXTENDS Geometries

(* The vocabulary of 2.3, by the names of its elements.                    *)
Capitalised == {
  "Alias", "AnimatedUpdate", "BalloonStyle", "Camera", "Change", "Create",
  "Data", "Delete", "Document", "ExtendedData", "FlyTo", "Folder",
  "GroundOverlay", "Icon", "IconStyle", "ImagePyramid", "ItemIcon",
  "LabelStyle", "LatLonAltBox", "LatLonBox", "LatLonQuad", "LineString",
  "LineStyle", "LinearRing", "Link", "ListStyle", "Location", "Lod",
  "LookAt", "Metadata", "Model", "MultiGeometry", "MultiTrack",
  "NetworkLink", "NetworkLinkControl", "Orientation", "Pair", "PhotoOverlay",
  "Placemark", "Playlist", "Point", "PolyStyle", "Polygon", "Region",
  "ResourceMap", "Scale", "Schema", "SchemaData", "ScreenOverlay",
  "SimpleArrayData", "SimpleArrayField", "SimpleData", "SimpleField",
  "Snippet", "SoundCue", "Style", "StyleMap", "TimeSpan", "TimeStamp",
  "Tour", "TourControl", "Track", "Update", "Url", "ViewVolume", "Wait"}

Uncapitalised == {
  "address", "altitude", "altitudeMode", "altitudeOffset", "angles",
  "balloonVisibility", "begin", "bgColor", "bottomFov", "color", "colorMode",
  "cookie", "coord", "coordinates", "delayedStart", "description",
  "displayMode", "displayName", "drawOrder", "duration", "east", "end",
  "expires", "extrude", "fill", "flyToMode", "flyToView", "gridOrigin",
  "heading", "horizFov", "hotSpot", "href", "httpQuery", "innerBoundaryIs",
  "interpolate", "key", "kml", "latitude", "leftFov", "linkDescription",
  "linkName", "linkSnippet", "listItemType", "longitude", "maxAltitude",
  "maxFadeExtent", "maxHeight", "maxLodPixels", "maxSessionLength",
  "maxSnippetLines", "maxWidth", "message", "minAltitude", "minFadeExtent",
  "minLodPixels", "minRefreshPeriod", "name", "near", "north", "open",
  "outerBoundaryIs", "outline", "overlayXY", "phoneNumber", "playMode",
  "range", "refreshInterval", "refreshMode", "refreshVisibility", "rightFov",
  "roll", "rotation", "rotationXY", "scale", "screenXY",
  "seaFloorAltitudeMode", "shape", "size", "snippet", "sourceHref", "south",
  "state", "styleUrl", "targetHref", "tessellate", "text", "textColor",
  "tileSize", "tilt", "topFov", "value", "viewBoundScale", "viewFormat",
  "viewRefreshMode", "viewRefreshTime", "visibility", "west", "when",
  "width", "x", "y", "z"}

KmlElements == Capitalised \cup Uncapitalised

(* The gx: elements 2.3 adopted, by their gx: names.                       *)
GxAdopted ==
  [n \in {"AnimatedUpdate", "FlyTo", "LatLonQuad", "MultiTrack", "Playlist",
          "SimpleArrayData", "SimpleArrayField", "SoundCue", "TimeSpan", "TimeStamp",
          "Tour", "TourControl", "Track", "Wait", "altitudeMode", "altitudeOffset",
          "angles", "balloonVisibility", "coord", "delayedStart", "duration",
          "flyToMode", "horizFov", "interpolate", "playMode", "value"}
     |-> IF n = "altitudeMode" THEN "seaFloorAltitudeMode" ELSE n]

GxName(el) == {n \in DOMAIN GxAdopted : GxAdopted[n] = el}

-----------------------------------------------------------------------------
Words(text) == [text |-> text, tuples |-> <<>>]
Numbers(tuples) == [text |-> "", tuples |-> tuples]
Figure(n) == Numbers(<<<<n>>>>)
Silent == Words("")

Attr(ns, name, value) == [ns |-> ns, name |-> name, value |-> value]

Node(ns, name, attrs, says, kids) ==
  [ns |-> ns, name |-> name, attrs |-> attrs, says |-> says, kids |-> kids, notes |-> <<>>]

Element(name, kids) == Node("kml", name, {}, Silent, kids)
Leaf(name, says) == Node("kml", name, {}, says, <<>>)
Named(name, key, kids) == Node("kml", name, {Attr("", "name", key)}, Silent, kids)

(* What the parser makes of a node: an element of the vocabulary, or       *)
(* content of no KML meaning, which is carried as it is.                   *)
ElementOf(n) ==
  CASE n.ns = "kml" /\ n.name \in KmlElements -> n.name
    [] n.ns = "gx" /\ n.name \in DOMAIN GxAdopted -> GxAdopted[n.name]
    [] OTHER -> "foreign"

Foreign(n) == ElementOf(n) = "foreign"

(* An element spelled in a namespace: the inverse.                         *)
LocalName(el, ns) == IF ns = "gx" THEN CHOOSE n \in GxName(el) : TRUE ELSE el

Spelled(n, el, ns) == [n EXCEPT !.ns = ns, !.name = LocalName(el, ns)]

Is(n, el) == ElementOf(n) = el

In(n, S) == ElementOf(n) \in S

(* The place of the first child that is one of S, 0 for none.              *)
PlaceOf(n, S) == SelectInSeq(n.kids, LAMBDA kid : In(kid, S))

FirstOf(n, S) == ItemAt(n.kids, PlaceOf(n, S))

Child(n, el) == FirstOf(n, {el})

ChildrenOf(n, S) == SelectSeq(n.kids, LAMBDA kid : In(kid, S))

(* The value of an unprefixed attribute, as an Option.                     *)
AttrOf(n, name) ==
  LET held == {a.value : a \in {b \in n.attrs : b.ns = "" /\ b.name = name}}
  IN  IF held = {} THEN <<>> ELSE <<CHOOSE v \in held : TRUE>>

Says(n, says) == [n EXCEPT !.says = says]

(* Mutant of WithChild: the comments keep their places.                    *)
WithChildNotesStay(n, at, kid) ==
  [n EXCEPT !.kids = SubSeq(@, 1, at - 1) \o <<kid>> \o SubSeq(@, at, Len(@))]

(* A child put in at a place, each comment kept before what it preceded.   *)
WithChild(n, at, kid) ==
  [n EXCEPT !.kids = SubSeq(@, 1, at - 1) \o <<kid>> \o SubSeq(@, at, Len(@)),
            !.notes = [i \in DOMAIN @ |-> [@[i] EXCEPT !.at = IF @ >= at - 1 THEN @ + 1 ELSE @]]]

(* Mutant of WithoutChild: the comments keep their places.                 *)
WithoutChildNotesStay(n, at) == [n EXCEPT !.kids = RemoveAt(@, at)]

(* A child taken out: a comment before it now precedes what followed.      *)
WithoutChild(n, at) ==
  [n EXCEPT !.kids = RemoveAt(@, at),
            !.notes = [i \in DOMAIN @ |-> [@[i] EXCEPT !.at = IF @ >= at THEN @ - 1 ELSE @]]]

-----------------------------------------------------------------------------
(* The substitution groups of the schema.                                  *)
GeometryGroup == {"LinearRing", "LineString", "Model", "MultiGeometry", "MultiTrack",
                  "Point", "Polygon", "Track"}
ContainerGroup == {"Document", "Folder"}
FeatureGroup == ContainerGroup \cup {"GroundOverlay", "NetworkLink", "PhotoOverlay",
                                     "Placemark", "ScreenOverlay", "Tour"}
OverlayGroup == {"GroundOverlay", "PhotoOverlay", "ScreenOverlay"}
StyleGroup == {"Style", "StyleMap"}
TimeGroup == {"TimeSpan", "TimeStamp"}
ViewGroup == {"Camera", "LookAt"}

-----------------------------------------------------------------------------
Document(space, root) == [space |-> space, root |-> root]

Stamps(version) == {version} \cup {version \o "." \o ToString(patch) : patch \in 0..99}

(* The version a stamp states, none of them when it is no version's.       *)
Stamped(stamp) == {v \in {"2.2", "2.3"} : stamp \in Stamps(v)}

(* Whether a node is, or holds, a component 2.3 added, in the KML namespace. *)
RECURSIVE UsesLaterOnly(_)
UsesLaterOnly(n) ==
  LET inKml(m) == m.ns = "kml" /\ ~Foreign(m)
      holds(S) == \E i \in DOMAIN n.kids : inKml(n.kids[i]) /\ In(n.kids[i], S)
      el == ElementOf(n)
  IN  \/ /\ inKml(n)
         /\ \/ el \in {"Track", "MultiTrack", "Tour", "LatLonQuad", "seaFloorAltitudeMode",
                       "altitudeOffset", "balloonVisibility", "SimpleArrayField"}
            \/ el \in {"SimpleField", "Data"} /\ AttrOf(n, "uom") # <<>>
            \/ el \in ViewGroup /\ holds(TimeGroup \cup {"horizFov"})
            \/ el = "Create" /\ holds({"MultiGeometry"})
            \/ el = "Delete" /\ holds({"MultiGeometry", "Point", "LineString", "LinearRing",
                                       "Polygon", "Model"})
      \/ \E i \in DOMAIN n.kids : UsesLaterOnly(n.kids[i])

(* Mutant of Detect: the stamp alone decides.                              *)
DetectByStamp(doc) ==
  LET stamp == AttrOf(doc.root, "version")
      stated == IF stamp = <<>> THEN {"2.2"} ELSE Stamped(stamp[1])
  IN  IF doc.space \notin {"ogc", "google", "none"} \/ Foreign(doc.root) \/ stated = {} THEN <<>>
      ELSE <<[version |-> CHOOSE v \in stated : TRUE, space |-> doc.space, stamp |-> stamp]>>

(* The document's provenance, none for a document that is not read.        *)
Detect(doc) ==
  LET stamp == AttrOf(doc.root, "version")
      stated == IF stamp = <<>> THEN {"2.2"} ELSE Stamped(stamp[1])
      version == IF stated = {"2.2"} /\ doc.space # "google" /\ UsesLaterOnly(doc.root) THEN "2.3"
                 ELSE CHOOSE v \in stated : TRUE
  IN  IF doc.space \notin {"ogc", "google", "none"} \/ Foreign(doc.root) \/ stated = {} THEN <<>>
      ELSE <<[version |-> version, space |-> doc.space, stamp |-> stamp]>>

-----------------------------------------------------------------------------
IsProjected(n) == In(n, {"Placemark", "GroundOverlay", "PhotoOverlay"})

IsContainer(n) == In(n, ContainerGroup)

(* The comments before the child at a place, counting from none.           *)
NotesAt(notes, at) ==
  LET here == SelectSeq(notes, LAMBDA held : held.at = at)
  IN  [i \in DOMAIN here |-> here[i].note]

Tagged(notes, at) == [i \in DOMAIN notes |-> [at |-> at, note |-> notes[i]]]

(* A feature taken out of its container: a path of child places, and how   *)
(* many of the children that stay were before it.                          *)
Taken(node, container, slot, leading) ==
  [node |-> node, container |-> container, slot |-> slot, leading |-> leading]

(* A container without its features, and the features.                     *)
RECURSIVE SplitContainer(_, _)
SplitContainer(container, path) ==
  LET start == [node |-> [container EXCEPT !.kids = <<>>, !.notes = <<>>], features |-> <<>>]
      take(acc, i) ==
        LET kid == container.kids[i]
            before == NotesAt(container.notes, i - 1)
            slot == Len(acc.node.kids)
            inner == IF IsContainer(kid) THEN SplitContainer(kid, Append(path, slot + 1))
                     ELSE [node |-> kid, features |-> <<>>]
        IN  IF IsProjected(kid)
            THEN [acc EXCEPT !.features = Append(@, Taken(kid, path, slot, before))]
            ELSE [node |-> [acc.node EXCEPT !.kids = Append(@, inner.node),
                                            !.notes = @ \o Tagged(before, slot)],
                  features |-> acc.features \o inner.features]
      all == FoldLeft(take, start, [i \in DOMAIN container.kids |-> i])
      last == NotesAt(container.notes, Len(container.kids))
  IN  [all EXCEPT !.node.notes = @ \o Tagged(last, Len(all.node.kids))]

Split(doc) ==
  LET parts == SplitContainer(doc.root, <<>>)
  IN  [skeleton |-> Document(doc.space, parts.node), features |-> parts.features]

-----------------------------------------------------------------------------
(* The node at a path, as an Option.                                       *)
RECURSIVE NodeAt(_, _)
NodeAt(n, path) ==
  IF path = <<>> THEN <<n>>
  ELSE IF path[1] \in DOMAIN n.kids THEN NodeAt(n.kids[path[1]], Tail(path)) ELSE <<>>

HasContainer(root, path) ==
  LET found == NodeAt(root, path) IN path = <<>> \/ (found # <<>> /\ IsContainer(found[1]))

DefaultContainer(root) ==
  LET at == PlaceOf(root, ContainerGroup) IN IF at = 0 THEN <<>> ELSE <<at>>

(* Mutant of Insert: the container's comments before the features.         *)
InsertCommentsFirst(container, features) ==
  LET count == Len(container.kids)
      fill(acc, k) ==
        LET here == SelectSeq(features, LAMBDA f : f.slot = k)
                    \o SelectSeq(features, LAMBDA f : k = count /\ f.slot > k)
            own == NotesAt(container.notes, k)
            put(a, f) == [a EXCEPT !.notes = @ \o Tagged(f.leading, Len(a.kids)),
                                   !.kids = Append(@, f.node)]
            filled == FoldLeft(put, [acc EXCEPT !.notes = @ \o Tagged(own, Len(acc.kids))], here)
        IN  [filled EXCEPT !.kids = @ \o ItemAt(container.kids, k + 1)]
  IN  FoldLeft(fill, [container EXCEPT !.kids = <<>>, !.notes = <<>>],
               [k \in 1..(count + 1) |-> k - 1])

(* Features put among a container's children, each before the child its    *)
(* slot names and ahead of the container's own comments there.             *)
Insert(container, features) ==
  LET count == Len(container.kids)
      fill(acc, k) ==
        LET here == SelectSeq(features, LAMBDA f : f.slot = k)
                    \o SelectSeq(features, LAMBDA f : k = count /\ f.slot > k)
            own == NotesAt(container.notes, k)
            put(a, f) == [a EXCEPT !.notes = @ \o Tagged(f.leading, Len(a.kids)),
                                   !.kids = Append(@, f.node)]
            filled == FoldLeft(put, acc, here)
        IN  [filled EXCEPT !.notes = @ \o Tagged(own, Len(filled.kids)),
                           !.kids = @ \o ItemAt(container.kids, k + 1)]
  IN  FoldLeft(fill, [container EXCEPT !.kids = <<>>, !.notes = <<>>],
               [k \in 1..(count + 1) |-> k - 1])

RECURSIVE InsertUnder(_, _, _)
InsertUnder(n, path, features) ==
  IF path = <<>> THEN Insert(n, features)
  ELSE [n EXCEPT !.kids[path[1]] = InsertUnder(@, Tail(path), features)]

(* Mutant of Assemble: the shallowest container first.                     *)
AssembleShallowFirst(skeleton, placed) ==
  LET root == skeleton.root
      home(f) == IF f.container # <<>> /\ HasContainer(root, f.container[1]) THEN f
                 ELSE [f EXCEPT !.container = <<DefaultContainer(root)>>, !.slot = 1000]
      homed == [i \in DOMAIN placed |-> home(placed[i])]
      paths == SetToSortSeq({homed[i].container[1] : i \in DOMAIN homed},
                            LAMBDA a, b : Len(a) < Len(b))
      fill(n, path) == InsertUnder(n, path, SelectSeq(homed, LAMBDA f : f.container[1] = path))
  IN  Document(skeleton.space, FoldLeft(fill, root, paths))

(* The skeleton with features put back, those with no place there at the   *)
(* end of its first container. A path is true of the skeleton only, so the *)
(* deepest container is filled first.                                      *)
Assemble(skeleton, placed) ==
  LET root == skeleton.root
      home(f) == IF f.container # <<>> /\ HasContainer(root, f.container[1]) THEN f
                 ELSE [f EXCEPT !.container = <<DefaultContainer(root)>>, !.slot = 1000]
      homed == [i \in DOMAIN placed |-> home(placed[i])]
      paths == SetToSortSeq({homed[i].container[1] : i \in DOMAIN homed},
                            LAMBDA a, b : Len(a) > Len(b))
      fill(n, path) == InsertUnder(n, path, SelectSeq(homed, LAMBDA f : f.container[1] = path))
  IN  Document(skeleton.space, FoldLeft(fill, root, paths))
=============================================================================
