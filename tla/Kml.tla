-------------------------------- MODULE Kml ---------------------------------
(***************************************************************************)
(* A KML or KMZ file read into a collection (reader.rs, mod.rs), edited    *)
(* there, and written back: as the documents it was read from where the    *)
(* target holds them, in the version asked for, or as one built from the   *)
(* features (writer.rs).                                                   *)
(*                                                                         *)
(* A file is an archive's entries, each a document or a file; a .kml is    *)
(* one entry. An edit is made to the collection between the two, which is  *)
(* what the library's callers do.                                          *)
(***************************************************************************)
EXTENDS KmlReconcile, KmlVersions, Bags

CONSTANTS
  Files,          \* the files that may be read
  Collections,    \* and the collections that may come from elsewhere
  Values,         \* the properties an edit may set
  Shapes,         \* the geometries it may set, Options
  MaxEdits        \* and how many edits are made

VARIABLES file, collection, edits, phase, written, asked, warnings

vars == <<file, collection, edits, phase, written, asked, warnings>>

Entry(name, content) == [name |-> name, content |-> content]
File(kind, entries) == [kind |-> kind, entries |-> entries]
NoFile == File("none", <<>>)

-----------------------------------------------------------------------------
(* Mutant of Merge: a column typed differently is typed as it was first.   *)
MergeKeepsFirst(facts, other) ==
  LET names == {d.name : d \in facts.declarations}
  IN  [declarations |-> facts.declarations \cup {d \in other.declarations : d.name \notin names},
       vertical |-> facts.vertical \cup other.vertical]

(* What two documents say of a collection: a column they type differently  *)
(* is typed by neither.                                                    *)
Merge(facts, other) ==
  LET clash(d, S) == \E e \in S : e.name = d.name /\ e.decl # d.decl
  IN  [declarations |-> {d \in facts.declarations \cup other.declarations :
                           ~clash(d, facts.declarations) /\ ~clash(d, other.declarations)},
       vertical |-> facts.vertical \cup other.vertical]

Feature(projection, taken, index) ==
  [properties |-> projection.properties, geometry |-> projection.geometry,
   model |-> <<[node |-> taken.node, container |-> taken.container, slot |-> taken.slot,
                leading |-> taken.leading, document |-> index]>>]

(* The index-th document of a file, none when it is refused: of the parts  *)
(* it is split into, its features projected.                               *)
ReadParts(provenance, parts, ctx, projected, index) ==
  LET features == [i \in DOMAIN parts.features |-> Feature(projected[1][i], parts.features[i], index)]
      facts == [declarations |-> Declarations(ctx),
                vertical |-> {VerticalOf(parts.features[i].node) : i \in DOMAIN parts.features}]
  IN  IF provenance = <<>> \/ projected = <<>> THEN <<>>
      ELSE <<[provenance |-> provenance[1], skeleton |-> parts.skeleton, features |-> features, facts |-> facts]>>

ProjectAll(features, ctx) == AllOf([i \in DOMAIN features |-> Project(features[i].node, ctx)])

ReadSplit(provenance, parts, ctx, index) ==
  ReadParts(provenance, parts, ctx, ProjectAll(parts.features, ctx), index)

ReadDocument(doc, index) ==
  LET of(parts) == ReadSplit(Detect(doc), parts, Context(parts.skeleton.root), index)
  IN  of(Split(doc))

(* A time column every value of which is a date and a time of day.         *)
IsDateTimeColumn(features, key) ==
  LET values == UNION {{p.value : p \in {q \in ToSet(features[i].properties) : q.key = key}} :
                         i \in DOMAIN features}
  IN  values # {} /\ \A v \in values : v.kind = "String" /\ v.text \in DateTimes

(* Documents that were read at some entries, as one collection.            *)
CollectionOf(given, at, documents) ==
  LET facts == FoldLeft(LAMBDA f, d : Merge(f, d.facts), documents[1].facts, Tail(documents))
      features == FlattenSeq([d \in DOMAIN documents |-> documents[d].features])
      untyped == {key \in {"timestamp", "begin", "end"} :
                    IsDateTimeColumn(features, key) /\ \A d \in facts.declarations : d.name # key}
      document(d) == [entry |-> at[d], version |-> documents[d].provenance.version,
                      skeleton |-> documents[d].skeleton]
  IN  [features |-> features,
       declarations |-> facts.declarations \cup {[name |-> key, decl |-> "DateTime"] : key \in untyped},
       crs |-> IF Vertical(facts.vertical \ {"Flat"}) = "Absolute" THEN "Egm96" ELSE "Wgs84",
       source |-> <<[provenance |-> documents[1].provenance,
                     documents |-> [d \in DOMAIN documents |-> document(d)],
                     archive |-> IF given.kind = "Kmz" THEN <<given.entries>> ELSE <<>>]>>]

(* A file's documents as one collection: none when one of them is refused, *)
(* or when there is none.                                                  *)
ReadFile(given) ==
  LET at == SelectSeq([i \in DOMAIN given.entries |-> i], LAMBDA i : given.entries[i].content # <<>>)
      of(read) == IF read \in {<<>>, <<<<>>>>} THEN <<>> ELSE <<CollectionOf(given, at, read[1])>>
  IN  of(AllOf([d \in DOMAIN at |-> ReadDocument(given.entries[at[d]].content[1], d - 1)]))

-----------------------------------------------------------------------------
(* Whether a write as a target gives the source's documents back.          *)
CarriesDocuments(c, target) ==
  c.source # <<>> /\ (target = "Kmz" \/ (target = "Kml" /\ Len(c.source[1].documents) = 1))

(* A document of one version in that asked for.                            *)
InVersion(doc, held, version) ==
  CASE held = "2.3" /\ version = <<"2.2">> -> Lower(doc).document
    [] held = "2.2" /\ version = <<"2.3">> -> Raise(doc).document
    [] OTHER -> doc

(* Mutant of WriteDocument: a feature of no kept document joins every one. *)
WriteDocumentSharesNew(c, index, version) ==
  LET held == c.source[1].documents[index + 1]
      mine(f) == f.model = <<>> \/ f.model[1].document = index
  IN  InVersion(AssembleDocument(held.skeleton, SelectSeq(c.features, mine), held.version), held.version, version)

(* A source document with its own features; those that are of no document  *)
(* kept join the first.                                                    *)
WriteDocument(c, index, version) ==
  LET source == c.source[1]
      held == source.documents[index + 1]
      kept(f) == f.model # <<>> /\ f.model[1].document < Len(source.documents)
      mine(f) == IF kept(f) THEN f.model[1].document = index ELSE index = 0
      own == SelectSeq(c.features, mine)
      features == [i \in DOMAIN own |-> IF kept(own[i]) THEN own[i] ELSE [own[i] EXCEPT !.model = <<>>]]
  IN  InVersion(AssembleDocument(held.skeleton, features, held.version), held.version, version)

(* The version a write is in: the one asked for, else the source's.        *)
VersionOf(c, version) ==
  IF version # <<>> THEN version[1]
  ELSE IF c.source # <<>> THEN c.source[1].provenance.version ELSE "2.2"

(* A document built from the features, its root spelled as the source's    *)
(* where it is of that version.                                            *)
BuildDocument(c, version) ==
  LET in == VersionOf(c, version)
      kept == c.source # <<>> /\ c.source[1].provenance.version = in
      stamp == IF kept THEN c.source[1].provenance.stamp ELSE IF in = "2.3" THEN <<"2.3">> ELSE <<>>
      typed == Typed(c.features, c.declarations)
      placemarks == [i \in DOMAIN c.features |-> Placemark(c.features[i], in, typed)]
      attrs == {Attr("", "version", stamp[i]) : i \in DOMAIN stamp}
  IN  Document(IF kept THEN c.source[1].provenance.space ELSE "ogc",
               Node("kml", "kml", attrs, Silent, <<Element("Document", SchemaElement(typed) \o placemarks)>>))

WriteKml(c, version) ==
  IF CarriesDocuments(c, "Kml") THEN WriteDocument(c, 0, version) ELSE BuildDocument(c, version)

(* What an entry of an archive holds when it is written: its document, if  *)
(* it is one, which is the at-th.                                          *)
ContentWritten(c, content, at, version) ==
  IF at = 0 THEN content ELSE <<WriteDocument(c, at - 1, version)>>

(* The archive read, each document in its place.                           *)
WriteKmz(c, version) ==
  LET entries == c.source[1].archive[1]
      at(i) == SelectInSeq(c.source[1].documents, LAMBDA d : d.entry = i)
  IN  [i \in DOMAIN entries |-> Entry(entries[i].name, ContentWritten(c, entries[i].content, at(i), version))]

(* A file written: an archive as the one read, else one document alone.    *)
WriteFile(c, target, version) ==
  LET ofArchive == target = "Kmz" /\ c.source # <<>> /\ c.source[1].archive # <<>>
  IN  File(target, IF ofArchive THEN WriteKmz(c, version) ELSE <<Entry("doc.kml", <<WriteKml(c, version)>>)>>)

-----------------------------------------------------------------------------
(* What a change of version will do to a node under a parent.              *)
SurveyTo(version, n, parent) ==
  IF version = <<"2.2">> THEN SurveyLower(n, parent, parent, FALSE) ELSE SurveyRaise(n, parent)

(* What a change of version will do to the documents, each as it was read: *)
(* to their skeletons, then to the features each has.                      *)
VersionReport(c, target, version) ==
  LET documents == c.source[1].documents
      of(d) == SelectSeq(c.features, LAMBDA f : f.model # <<>> /\ f.model[1].document = d - 1)
      tops(d) == [i \in DOMAIN documents[d].skeleton.root.kids |-> <<documents[d].skeleton.root.kids[i], "kml">>]
      nodes(d) == tops(d) \o [i \in DOMAIN of(d) |-> <<of(d)[i].model[1].node, "Document">>]
      changing == SelectSeq([d \in DOMAIN documents |-> d], LAMBDA d : documents[d].version # version[1])
      surveyed == FlattenSeq([i \in DOMAIN changing |-> nodes(changing[i])])
  IN  IF version = <<>> \/ ~CarriesDocuments(c, target) THEN <<>>
      ELSE FlattenSeq([i \in DOMAIN surveyed |-> SurveyTo(version, surveyed[i][1], surveyed[i][2])])

(* What a write cannot carry, as it is warned of.                          *)
DropWarnings(c, target) ==
  LET carried == CarriesDocuments(c, target)
      archive == IF c.source = <<>> THEN <<>> ELSE c.source[1].archive
      lostFiles == archive # <<>> /\ \E i \in DOMAIN archive[1] : archive[1][i].content = <<>>
  IN  UNION {DropCauses(c.features[i], carried, target \in {"Kml", "Kmz"}, c.crs = "Egm96") : i \in DOMAIN c.features}
      \cup (IF target = "Kml" /\ archive # <<>> /\ Len(c.source[1].documents) > 1 THEN {"Layers"} ELSE {})
      \cup (IF target # "Kmz" /\ lostFiles THEN {"ArchiveFiles"} ELSE {})

-----------------------------------------------------------------------------
NoCollection == [features |-> <<>>, declarations |-> {}, crs |-> "none", source |-> <<>>]

Init ==
  /\ \/ file \in Files /\ collection = NoCollection /\ phase = "file"
     \/ file = NoFile /\ collection \in Collections /\ phase = "read"
  /\ edits = 0 /\ written = NoFile /\ asked = <<>>
  /\ warnings = [dropped |-> {}, changes |-> <<>>]

(* What was read of a file, if it was not refused.                         *)
Received(read) ==
  IF read = <<>> THEN phase' = "refused" /\ UNCHANGED collection
  ELSE phase' = "read" /\ collection' = read[1]

Open ==
  /\ phase = "file"
  /\ Received(ReadFile(file))
  /\ UNCHANGED <<file, edits, written, asked, warnings>>

Edit(features) ==
  /\ phase = "read" /\ edits < MaxEdits
  /\ edits' = edits + 1
  /\ collection' = [collection EXCEPT !.features = features]
  /\ UNCHANGED <<file, phase, written, asked, warnings>>

(* The first property of a key set, or one put at the end.                 *)
SetProperty ==
  \E i \in DOMAIN collection.features, p \in Values :
    LET properties == collection.features[i].properties
        at == SelectInSeq(properties, LAMBDA q : q.key = p.key)
    IN  Edit([collection.features EXCEPT ![i].properties =
                IF at = 0 THEN Append(properties, p) ELSE [properties EXCEPT ![at] = p]])

DropProperty ==
  \E i \in DOMAIN collection.features :
    \E j \in DOMAIN collection.features[i].properties :
      Edit([collection.features EXCEPT ![i].properties = RemoveAt(@, j)])

SetShape ==
  \E i \in DOMAIN collection.features, shape \in Shapes :
    Edit([collection.features EXCEPT ![i].geometry = shape])

RemoveFeature ==
  \E i \in DOMAIN collection.features : Edit(RemoveAt(collection.features, i))

AddFeature ==
  \E shape \in Shapes, p \in Values :
    Edit(Append(collection.features, [properties |-> <<p>>, geometry |-> shape, model |-> <<>>]))

(* The first two features change places.                                   *)
SwapFeatures ==
  /\ Len(collection.features) > 1
  /\ Edit([collection.features EXCEPT ![1] = collection.features[2], ![2] = collection.features[1]])

Write ==
  /\ phase = "read"
  /\ \E target \in {"Kml", "Kmz"}, version \in {<<>>, <<"2.2">>, <<"2.3">>} :
       /\ asked' = version
       /\ written' = WriteFile(collection, target, version)
       /\ warnings' = [dropped |-> DropWarnings(collection, target),
                       changes |-> VersionReport(collection, target, version)]
  /\ phase' = "written"
  /\ UNCHANGED <<file, collection, edits>>

Next == \/ Open \/ SetProperty \/ DropProperty \/ SetShape \/ RemoveFeature \/ AddFeature
        \/ SwapFeatures \/ Write

Spec == Init /\ [][Next]_vars

-----------------------------------------------------------------------------
(* A feature as any reader of a document sees it: its geometry, and what   *)
(* it says under each key.                                                 *)
Shown(f) ==
  [geometry |-> f.geometry,
   said |-> ToBag([i \in DOMAIN f.properties |-> <<f.properties[i].key, f.properties[i].value.text>>])]

AllShown(c) == ToBag([i \in DOMAIN c.features |-> Shown(c.features[i])])

(* A feature's one value in a declared column is of the column's type.     *)
TypedAsDeclared(c) ==
  LET kind(decl) == CASE decl \in {"Int32", "UInt32", "Int16", "UInt16"} -> "Int"
                      [] decl \in {"Float32", "Float64"} -> "Float"
                      [] decl = "Bool" -> "Bool" [] OTHER -> "String"
  IN  \A d \in c.declarations, i \in DOMAIN c.features :
        LET held == SelectSeq(c.features[i].properties, LAMBDA p : p.key = d.name)
        IN  Len(held) = 1 => held[1].value.kind \in {"Null", kind(d.decl)}

(* Whatever was edited, whichever version is asked for: the file written   *)
(* is read again, and shows the features and properties of the collection, *)
(* each in one place and none beside it (place.rs, reconcile.rs). What it  *)
(* then declares of a column is so (reader.rs merge, writer.rs Typed),     *)
(* unless a third document of the archive types it after two disagreed:    *)
(* there the merge brings back a declaration it had removed.               *)
EditsShow ==
  phase = "written" =>
    LET shows(again) == /\ again # <<>> /\ AllShown(again[1]) = AllShown(collection)
                        /\ edits = 0 => TypedAsDeclared(again[1])
    IN  shows(ReadFile(written))

(* An overlay's footprint of four corners is read again as it was set,     *)
(* being written as the box whose corners are the ring's, if it is one     *)
(* (project.rs from_ring).                                                 *)
FootprintsReadBack ==
  phase = "written" =>
    \A i \in DOMAIN collection.features :
      LET f == collection.features[i]
      IN  f.model # <<>> /\ Is(f.model[1].node, "GroundOverlay") /\ f.geometry # <<>>
            /\ f.geometry[1].type = "Polygon" /\ QuadCorners(f.geometry[1].of[1]) # <<>> =>
            ReadFile(written)[1].features[i].geometry = f.geometry

(* The documents written, each with the number of the one it was read as.  *)
WrittenBack ==
  IF phase # "written" \/ ~CarriesDocuments(collection, written.kind) THEN {}
  ELSE LET held == collection.source[1].documents
       IN  {<<d, IF written.kind = "Kmz" /\ collection.source[1].archive # <<>>
                 THEN written.entries[held[d].entry].content[1]
                 ELSE written.entries[1].content[1]>> : d \in DOMAIN held}

OwnFeatures(d) == SelectSeq(collection.features, LAMBDA f : f.model # <<>> /\ f.model[1].document = d - 1)

SameAs(projected, f) == projected.properties = f.properties /\ projected.geometry = f.geometry

Unedited(f, ctx) == SameAs(Project(f.model[1].node, ctx)[1], f)

TakenAs(f) == Taken(f.model[1].node, f.model[1].container, f.model[1].slot, f.model[1].leading)

(* Whether the d-th document of the source, written as doc, has its parts. *)
Stands(d, held, doc, parts) ==
  LET ctx == Context(held.skeleton.root)
      kept == SelectSeq(OwnFeatures(d), LAMBDA f : Unedited(f, ctx))
  IN  /\ parts.skeleton = held.skeleton
      /\ ToBag([i \in DOMAIN kept |-> TakenAs(kept[i])]) \sqsubseteq ToBag(parts.features)
      /\ edits = 0 => doc = file.entries[held.entry].content[1]

(* A write in a document's own version gives back all of it that is not an *)
(* edited feature: its folders, styles and comments, each feature no edit  *)
(* touched where it was, and an archive's files (document.rs, reconcile.rs *)
(* assemble).                                                              *)
DocumentStands ==
  LET held == collection.source[1].documents
      sameVersion(d) == asked \in {<<>>, <<held[d].version>>}
  IN  /\ \A w \in WrittenBack : sameVersion(w[1]) => Stands(w[1], held[w[1]], w[2], Split(w[2]))
      /\ phase = "written" /\ file.kind = "Kmz" /\ written.kind = "Kmz" =>
           \A i \in DOMAIN file.entries :
             /\ file.entries[i].name = written.entries[i].name
             /\ file.entries[i].content = <<>> => written.entries[i] = file.entries[i]

-----------------------------------------------------------------------------
(* Every element of a tree.                                                *)
RECURSIVE Every(_)
Every(n) == <<n>> \o FlattenSeq([i \in DOMAIN n.kids |-> Every(n.kids[i])])

(* Keys with those an element has but one of: its time, and its mode.      *)
WithRivals(keys) ==
  UNION {IF keys \cap S = {} THEN {} ELSE S :
           S \in {{"timestamp", "begin", "end"}, {"altitudeMode", "seaFloorAltitudeMode"}}} \cup keys

(* The elements an edit of some keys, or of the geometry, is written in.   *)
TouchedBy(el, keys, reshaped) ==
  LET shape == IF el = "GroundOverlay" THEN {"LatLonBox", "LatLonQuad"} ELSE GeometryGroup
      members(held, S) == IF keys \cap held = {} THEN {} ELSE S
  IN  (keys \cap {"name", "description"})
        \cup members({"timestamp", "begin", "end"}, TimeGroup)
        \cup members({"icon"}, {"Icon"})
        \cup members(ToSet(AltitudeMembers), shape)
        \cup (IF reshaped THEN shape ELSE {}) \cup {"ExtendedData"}

Under(properties, key) == SelectSeq(properties, LAMBDA p : p.key = key)

(* The values of an ExtendedData under keys no edit touched, as they stand. *)
ValuesBeside(extended, keys) ==
  LET beside(kids) ==
        SelectSeq(kids, LAMBDA kid : \A i \in DOMAIN AttrOf(kid, "name") : AttrOf(kid, "name")[i] \notin keys)
  IN  [i \in DOMAIN beside(extended.kids) |->
         LET kid == beside(extended.kids)[i]
         IN  IF Is(kid, "SchemaData") THEN [kid EXCEPT !.kids = beside(@)] ELSE kid]

(* A geometry's elements but its coordinates and its altitude members.     *)
MembersBeside(geometry) ==
  LET moved == {"coordinates", "coord"} \cup ToSet(AltitudeMembers)
      all == SelectSeq(Every(geometry), LAMBDA e : ~In(e, moved))
  IN  [i \in DOMAIN all |-> [all[i] EXCEPT !.kids = <<>>, !.notes = <<>>]]

(* Whether m is n with an edit of some keys, or of the geometry, alone.    *)
OnlyEdited(n, m, keys, reshaped, inPlace) ==
  LET touched == TouchedBy(ElementOf(n), keys, reshaped)
      about == keys \cup (IF reshaped THEN ToSet(AltitudeMembers) ELSE {})
      beside(x) == SelectSeq(x.kids, LAMBDA kid : ~In(kid, touched))
      before(x, at) == Len(SelectSeq(SubSeq(x.kids, 1, at), LAMBDA kid : ~In(kid, touched)))
      notes(x) == [i \in DOMAIN x.notes |-> <<x.notes[i].note, before(x, x.notes[i].at)>>]
      values(x) == LET held == Child(x, "ExtendedData")
                   IN  IF held = <<>> THEN <<>> ELSE ValuesBeside(held[1], about)
  IN  /\ beside(m) = beside(n) /\ notes(m) = notes(n) /\ values(m) = values(n)
      /\ inPlace => MembersBeside(GeometryOf(m)[1]) = MembersBeside(GeometryOf(n)[1])

(* Whether a feature whose element n was projected is written as m, which  *)
(* differs from it in what was edited alone.                               *)
EditedAlone(f, n, was, m) ==
  LET reshaped == was.geometry # f.geometry
      moved == f.geometry # <<>> /\ UpdateInPlace(GeometryOf(n)[1], f.geometry[1]) # <<>>
      edited == {key \in {p.key : p \in ToSet(was.properties \o f.properties)} :
                   Under(was.properties, key) # Under(f.properties, key)}
  IN  ElementOf(m) # ElementOf(n) \/
      OnlyEdited(n, m, WithRivals(edited), reshaped, GeometryOf(n) # <<>> /\ (~reshaped \/ moved))

(* An edited feature's element keeps every child that says nothing of what *)
(* was edited, in its order, with each comment between the same two; its   *)
(* ExtendedData each value under another key; and a geometry moved in      *)
(* place each of its members (reconcile.rs:1-10). It is about elements     *)
(* whose members reconcile leaves where they are: not a `when` that is no  *)
(* time, an empty icon, an altitudeMode it does not know, or a Data of a   *)
(* name or a time, which it moves with any edit, against reconcile.rs:6.   *)
EditTouchesOnlyItsMembers ==
  phase = "read" /\ collection.source # <<>> =>
    \A d \in DOMAIN collection.source[1].documents :
      LET held == collection.source[1].documents[d]
          ctx == Context(held.skeleton.root)
      IN  \A i \in DOMAIN OwnFeatures(d) :
            LET f == OwnFeatures(d)[i]
                n == f.model[1].node
            IN  EditedAlone(f, n, Project(n, ctx)[1], Reconcile(n, f, ctx, held.version))

-----------------------------------------------------------------------------
(* Every element of a document in the order and the spelling of 2.2.       *)
InOrder22(doc) ==
  LET all == Every(doc.root)
      qualified(n) == Qualified(ElementOf(n), n.ns)
      slots(n) == [k \in DOMAIN n.kids |->
                     IF Foreign(n.kids[k]) THEN 0 ELSE SlotOf(qualified(n), qualified(n.kids[k]))]
      ordered(s) == \A h, k \in DOMAIN s : h < k => s[h] <= s[k]
      stands(n) == /\ \A k \in DOMAIN n.kids : Foreign(n.kids[k]) \/ slots(n)[k] # 0
                   /\ ordered(SelectSeq(slots(n), LAMBDA slot : slot # 0))
  IN  \A i \in DOMAIN all : Foreign(all[i]) \/ Slots22[qualified(all[i])] = <<>> \/ stands(all[i])

(* Every element 2.3 added is where 2.3 admits it.                         *)
AdmittedIn23(doc) ==
  LET all == Every(doc.root)
      later(kid) == kid.ns = "kml" /\ In(kid, LaterOnly)
  IN  \A i \in DOMAIN all : Foreign(all[i]) \/
        \A k \in DOMAIN all[i].kids :
          later(all[i].kids[k]) => ElementOf(all[i].kids[k]) \in Members23[ElementOf(all[i])]

(* What a change of version says before the write is what the write does:  *)
(* the same changes are made, an element is lost only where one is said to *)
(* be, a document lowered is of 2.2, in its order, and one raised has what *)
(* 2.3 added only where 2.3 admits it (lower.rs, raise.rs, mod.rs          *)
(* version_change_warnings). None asked for in 2.2 has what 2.3 added.     *)
VersionChangeAnnounced ==
  LET held == collection.source[1].documents
      source(d) == file.entries[held[d].entry].content[1]
      changed(d) == asked # <<>> /\ asked[1] # held[d].version
      change(d) == IF asked = <<"2.2">> THEN Lower(source(d)) ELSE Raise(source(d))
      reports == FlattenSeq([d \in DOMAIN held |-> IF changed(d) THEN change(d).report ELSE <<>>])
      elements(doc) == Len(SelectSeq(Every(doc.root), LAMBDA n : ~Is(n, "rotation")))
      said(kind) == \E i \in DOMAIN warnings.changes : warnings.changes[i].change = kind
  IN  WrittenBack # {} =>
        /\ edits = 0 => ToBag(reports) = ToBag(warnings.changes)
        /\ \A w \in WrittenBack : asked = <<"2.2">> => ~UsesLaterOnly(w[2].root)
        /\ \A w \in WrittenBack : changed(w[1]) =>
             /\ Detect(w[2]) # <<>> /\ Detect(w[2])[1].version = asked[1]
             /\ IF asked = <<"2.2">> THEN InOrder22(w[2]) ELSE AdmittedIn23(w[2])
             /\ edits = 0 /\ ~said("dropped") => elements(w[2]) = elements(source(w[1]))
=============================================================================
