------------------------------- MODULE GpkgSrs -------------------------------
(***************************************************************************)
(* The numbering of coordinate reference systems through a sequence of     *)
(* appends to one GeoPackage: resolve_srs and reconcile_carried_srs of     *)
(* src/geopackage/writer.rs, which rebuild gpkg_spatial_ref_sys on every   *)
(* write, and resolve_crs of src/geopackage/reader.rs, which reads the     *)
(* labels back at the next one.                                            *)
(*                                                                         *)
(* A run brings one layer, and at most one carried object (a pyramid or a  *)
(* dataset).  Within a run there is one step per layer, then one per       *)
(* carried object, and one per synthetic id stepped over.                  *)
(***************************************************************************)
EXTENDS Integers, Sequences

CONSTANTS
  LayerNames,     \* of layers
  ObjectNames,    \* of carried objects
  Auths,          \* authorities, Epsg and NoAuthority among them
  Epsg, NoAuthority,
  Defs,           \* definitions (WKT), Unknown among them
  Unknown,        \* the definition "undefined"
  Word,           \* a code that is not an integer
  None,           \* no authority, no code, no definition row
  Wgs84Id,        \* 4326
  SyntheticBase,  \* 100000
  Systems,        \* the reference systems layers arrive with
  Objects,        \* what sources carry: [name, id, def]
  MaxRuns

(* Option<Crs>: "none" is no CRS, "wgs84" the collapsed EPSG:4326.         *)
Crs == [kind : {"none", "wgs84"}]
         \cup [kind : {"named"}, auth : Auths \cup {None},
               code : Int \cup {None, Word}, def : Defs]

Definition == [org : Auths, code : Int, def : Defs]

Object == [name : ObjectNames, id : Int, def : Definition \cup {None}]

ASSUME SrsAssumption ==
  /\ Epsg \in Auths /\ NoAuthority \in Auths /\ Unknown \in Defs
  /\ None \notin Int /\ Word \notin Int /\ None \notin Definition /\ None # Word
  /\ Wgs84Id \in Nat \ {0} /\ SyntheticBase \in Nat /\ Wgs84Id < SyntheticBase
  /\ Systems \subseteq Crs
  /\ Objects \subseteq Object
  /\ MaxRuns \in Nat

VARIABLES
  layers,   \* the layers to write: a sequence of [name, crs]
  objects,  \* the carried objects to write
  perLayer, \* the ids resolved so far, one per layer
  perObject,\* and per carried object
  regs,     \* the rows registered so far: id -> Definition
  next,     \* next_synthetic
  stage,    \* "idle", "layers", "objects"
  file,     \* [layers, objects]: the file as a reader reads it
  arrived,  \* history: the layers that arrived, one per run
  runs

vars == <<layers, objects, perLayer, perObject, regs, next, stage, file, arrived, runs>>

-----------------------------------------------------------------------------
With(f, n, v) == [m \in DOMAIN f \cup {n} |-> IF m = n THEN v ELSE f[m]]

(* A row is registered unless its id is taken: the first one stays.        *)
Register(rows, id, def) == IF id \in DOMAIN rows THEN rows ELSE With(rows, id, def)

(* The three rows spatial_ref_sys always writes.                           *)
DefaultRow(id) ==
  IF id = Wgs84Id THEN [org |-> Epsg, code |-> Wgs84Id, def |-> Unknown]
  ELSE [org |-> NoAuthority, code |-> id, def |-> Unknown]

DefaultIds == {0, -1, Wgs84Id}

Row(rows, id) == IF id \in DefaultIds THEN DefaultRow(id) ELSE rows[id]

(* resolve_crs, and the collapse of from_authority_code.                   *)
Label(rows, id) ==
  IF id \in {0, -1} THEN [kind |-> "none"]
  ELSE LET row == Row(rows, id)
       IN  IF row.org = Epsg /\ row.code = Wgs84Id THEN [kind |-> "wgs84"]
           ELSE [kind |-> "named", auth |-> row.org, code |-> row.code, def |-> row.def]

-----------------------------------------------------------------------------
Init ==
  /\ layers = <<>> /\ objects = <<>> /\ perLayer = <<>> /\ perObject = <<>>
  /\ regs = <<>> /\ next = SyntheticBase /\ stage = "idle"
  /\ file = [layers |-> <<>>, objects |-> <<>>]
  /\ arrived = <<>> /\ runs = 0

(* seq without its item of this name; two layers never have one name.      *)
Without(seq, i) == SubSeq(seq, 1, i - 1) \o SubSeq(seq, i + 1, Len(seq))

Others(seq, name) ==
  IF \E i \in DOMAIN seq : seq[i].name = name
  THEN Without(seq, CHOOSE i \in DOMAIN seq : seq[i].name = name)
  ELSE seq

(* compose_layers and reconcile: the incoming layer replaces its namesake, *)
(* and an object comes after the destination's unless it is one of them.   *)
Start ==
  /\ stage = "idle" /\ runs < MaxRuns
  /\ runs' = runs + 1
  /\ \E name \in LayerNames, crs \in Systems :
       /\ layers' = Append(Others(file.layers, name), [name |-> name, crs |-> crs])
       /\ arrived' = Append(arrived, [name |-> name, crs |-> crs])
  /\ \/ objects' = file.objects
     \/ \E o \in Objects :
          /\ \A i \in DOMAIN file.objects : file.objects[i].name # o.name
          /\ objects' = Append(file.objects, o)
  /\ perLayer' = <<>> /\ perObject' = <<>> /\ regs' = <<>>
  /\ next' = SyntheticBase
  /\ stage' = "layers"
  /\ UNCHANGED file

Visiting == stage = "layers" /\ Len(perLayer) < Len(layers)

This == layers[Len(perLayer) + 1].crs

Numeric(crs) == crs.kind = "named" /\ crs.code \in Int

(* No CRS, WGS 84, and whatever has the code 4326: a default row.          *)
LayerDefault ==
  /\ Visiting
  /\ \/ This.kind = "none" /\ perLayer' = Append(perLayer, 0)
     \/ This.kind = "wgs84" /\ perLayer' = Append(perLayer, Wgs84Id)
     \/ Numeric(This) /\ This.code = Wgs84Id /\ perLayer' = Append(perLayer, Wgs84Id)
  /\ UNCHANGED <<layers, objects, perObject, regs, next, stage, file, arrived, runs>>

(* A positive authority code becomes the srs_id.                           *)
UsableCode(crs) == Numeric(crs) /\ crs.code > 0 /\ crs.code # Wgs84Id

(* Mutant of LayerCode: a code without an authority is nobody's.           *)
LayerCodeNobodys ==
  /\ Visiting /\ UsableCode(This)
  /\ perLayer' = Append(perLayer, This.code)
  /\ regs' = Register(regs, This.code,
                      [org |-> IF This.auth = None THEN NoAuthority ELSE This.auth,
                       code |-> This.code, def |-> This.def])
  /\ UNCHANGED <<layers, objects, perObject, next, stage, file, arrived, runs>>

LayerCode ==
  /\ Visiting /\ UsableCode(This)
  /\ perLayer' = Append(perLayer, This.code)
  /\ regs' = Register(regs, This.code,
                      [org |-> IF This.auth = None THEN Epsg ELSE This.auth,
                       code |-> This.code, def |-> This.def])
  /\ UNCHANGED <<layers, objects, perObject, next, stage, file, arrived, runs>>

(* No code, or one that is no positive integer: a synthetic id.            *)
NeedsSynthetic(crs) == crs.kind = "named" /\ (Numeric(crs) => crs.code <= 0)

LayerSynthetic ==
  /\ Visiting /\ NeedsSynthetic(This)
  /\ perLayer' = Append(perLayer, next)
  /\ regs' = Register(regs, next,
                      [org |-> IF This.auth = None THEN NoAuthority ELSE This.auth,
                       code |-> IF Numeric(This) THEN This.code ELSE next, def |-> This.def])
  /\ next' = next + 1
  /\ UNCHANGED <<layers, objects, perObject, stage, file, arrived, runs>>

LayersDone ==
  /\ stage = "layers" /\ Len(perLayer) = Len(layers)
  /\ stage' = "objects"
  /\ UNCHANGED <<layers, objects, perLayer, perObject, regs, next, file, arrived, runs>>

-----------------------------------------------------------------------------
VisitingObject == stage = "objects" /\ Len(perObject) < Len(objects)

ThisObject == objects[Len(perObject) + 1]

(* Mutant of ObjectDefault: a dangling id is carried through.              *)
ObjectDefaultDangling ==
  /\ VisitingObject
  /\ ThisObject.id \in DefaultIds \/ ThisObject.def = None
  /\ perObject' = Append(perObject, ThisObject.id)
  /\ UNCHANGED <<layers, objects, perLayer, regs, next, stage, file, arrived, runs>>

(* A default row, or an object whose source had no row for its id.         *)
ObjectDefault ==
  /\ VisitingObject
  /\ \/ ThisObject.id \in {0, -1} /\ perObject' = Append(perObject, ThisObject.id)
     \/ /\ ThisObject.id \notin {0, -1} /\ ThisObject.def = None
        /\ perObject' = Append(perObject, 0)
     \/ /\ ThisObject.id = Wgs84Id /\ ThisObject.def # None
        /\ perObject' = Append(perObject, Wgs84Id)
  /\ UNCHANGED <<layers, objects, perLayer, regs, next, stage, file, arrived, runs>>

Registrable == ThisObject.id \notin DefaultIds /\ ThisObject.def # None

(* The id is free: the source's row comes over under it.                   *)
ObjectRegister ==
  /\ VisitingObject /\ Registrable
  /\ ThisObject.id \notin DOMAIN regs
  /\ regs' = With(regs, ThisObject.id, ThisObject.def)
  /\ perObject' = Append(perObject, ThisObject.id)
  /\ UNCHANGED <<layers, objects, perLayer, next, stage, file, arrived, runs>>

(* Mutant of ObjectShare: one id is one system.                            *)
ObjectShareAny ==
  /\ VisitingObject /\ Registrable
  /\ ThisObject.id \in DOMAIN regs
  /\ perObject' = Append(perObject, ThisObject.id)
  /\ UNCHANGED <<layers, objects, perLayer, regs, next, stage, file, arrived, runs>>

(* The id is this system's already.                                        *)
ObjectShare ==
  /\ VisitingObject /\ Registrable
  /\ ThisObject.id \in DOMAIN regs /\ regs[ThisObject.id] = ThisObject.def
  /\ perObject' = Append(perObject, ThisObject.id)
  /\ UNCHANGED <<layers, objects, perLayer, regs, next, stage, file, arrived, runs>>

(* The id is another system's: step past the taken ids, and renumber.      *)
Collides ==
  /\ VisitingObject /\ Registrable
  /\ ThisObject.id \in DOMAIN regs /\ regs[ThisObject.id] # ThisObject.def

ObjectSkip ==
  /\ Collides /\ next \in DOMAIN regs
  /\ next' = next + 1
  /\ UNCHANGED <<layers, objects, perLayer, perObject, regs, stage, file, arrived, runs>>

ObjectRenumber ==
  /\ Collides /\ next \notin DOMAIN regs
  /\ regs' = With(regs, next, ThisObject.def)
  /\ perObject' = Append(perObject, next)
  /\ next' = next + 1
  /\ UNCHANGED <<layers, objects, perLayer, stage, file, arrived, runs>>

(* The file is written, and this is what a reader will find in it.         *)
ReadObject(i) ==
  [objects[i] EXCEPT !.id = perObject[i], !.def = Row(regs, perObject[i])]

Write ==
  /\ stage = "objects" /\ Len(perObject) = Len(objects)
  /\ file' = [layers  |-> [i \in DOMAIN layers |->
                             [layers[i] EXCEPT !.crs = Label(regs, perLayer[i])]],
              objects |-> [i \in DOMAIN objects |-> ReadObject(i)]]
  /\ stage' = "idle"
  /\ UNCHANGED <<layers, objects, perLayer, perObject, regs, next, arrived, runs>>

Next ==
  \/ Start
  \/ LayerDefault \/ LayerCode \/ LayerSynthetic \/ LayersDone
  \/ ObjectDefault \/ ObjectRegister \/ ObjectShare \/ ObjectSkip \/ ObjectRenumber
  \/ Write

Spec == Init /\ [][Next]_vars

-----------------------------------------------------------------------------
TypeOK ==
  /\ layers \in Seq([name : LayerNames, crs : Crs]) /\ objects \in Seq(Object)
  /\ perLayer \in Seq(Int) /\ Len(perLayer) <= Len(layers)
  /\ perObject \in Seq(Int) /\ Len(perObject) <= Len(objects)
  /\ DOMAIN regs \subseteq Int /\ \A id \in DOMAIN regs : regs[id] \in Definition
  /\ next \in Nat
  /\ stage \in {"idle", "layers", "objects"}
  /\ file.layers \in Seq([name : LayerNames, crs : Crs]) /\ file.objects \in Seq(Object)

(* Every id a layer or a carried object has been given names a row of the   *)
(* gpkg_spatial_ref_sys being written (fk_gc_r_srs_id), and no registered   *)
(* row takes the id of one of the three that are always there.              *)
EveryIdHasOneRow ==
  /\ \A i \in DOMAIN perLayer : perLayer[i] \in DefaultIds \cup DOMAIN regs
  /\ \A i \in DOMAIN perObject : perObject[i] \in DefaultIds \cup DOMAIN regs
  /\ DOMAIN regs \cap DefaultIds = {}

(* A carried object is never relabelled: whatever ids the layers and the    *)
(* other objects have taken, and however often the file is appended to, the *)
(* row its id names is the definition it came with.                         *)
CarriedDefinitionStands ==
  \A i \in DOMAIN perObject :
    (objects[i].id \notin DefaultIds /\ objects[i].def # None) =>
      Row(regs, perObject[i]) = objects[i].def

(* The label is that of the system: its authority and code where it has a   *)
(* numeric one, its definition otherwise.                                   *)
Labels(label, crs) ==
  \/ crs.kind # "named" /\ label = crs
  \/ Numeric(crs) /\ crs.code = Wgs84Id /\ crs.auth \in {None, Epsg} /\ label.kind = "wgs84"
  \/ /\ Numeric(crs) /\ label.kind = "named" /\ label.code = crs.code
     /\ label.auth = IF crs.auth = None THEN Epsg ELSE crs.auth
  \/ /\ ~Numeric(crs) /\ crs.kind = "named" /\ label.kind = "named" /\ label.def = crs.def

(* The system the layer of this name last arrived with.                     *)
ArrivedWith(name) ==
  arrived[CHOOSE i \in DOMAIN arrived :
            arrived[i].name = name /\ \A j \in DOMAIN arrived : arrived[j].name = name => j <= i].crs

Authority(crs) == IF crs.auth = None THEN Epsg ELSE crs.auth

(* A system whose number nothing else has claimed: no CRS, WGS 84, or a     *)
(* positive code below the synthetic ones that no layer ever arrived with   *)
(* under another authority.                                                 *)
Registered(crs) ==
  crs.kind = "named" =>
    /\ Numeric(crs) /\ crs.code > 0 /\ crs.code < SyntheticBase
    /\ crs.code = Wgs84Id => Authority(crs) = Epsg
    /\ \A i \in DOMAIN arrived :
         LET other == arrived[i].crs
         IN  (Numeric(other) /\ other.code = crs.code) => Authority(other) = Authority(crs)

(* A layer of a registered system is read back with it after any number of   *)
(* later appends, whatever other layers are numbered beside it and whatever  *)
(* carried objects are renumbered around it: each append reads the label,    *)
(* resolves it again and registers it before anything carried.               *)
RegisteredLayersKeepTheirCrs ==
  stage = "idle" =>
    \A i \in DOMAIN file.layers :
      LET crs == ArrivedWith(file.layers[i].name)
      IN  Registered(crs) => Labels(file.layers[i].crs, crs)

=============================================================================
