---------------------------- MODULE GpkgSrsProofs ----------------------------
(***************************************************************************)
(* Proofs about GpkgSrs: for any layers, carried objects and definitions,  *)
(* and any number of appends, every id written has a row, and a carried    *)
(* object's id has the row it came with.                                   *)
(***************************************************************************)
EXTENDS GpkgSrs, TLAPS

(* Sequences, element by element.                                           *)
LEMMA SeqOfFunction ==
  ASSUME NEW T, NEW n \in Nat, NEW f \in [1..n -> T]
  PROVE  f \in Seq(T)
OBVIOUS

(* The elements of a sequence.                                             *)
LEMMA SeqElement ==
  ASSUME NEW T, NEW s \in Seq(T)
  PROVE  /\ Len(s) \in Nat /\ DOMAIN s = 1..Len(s)
         /\ \A i \in DOMAIN s : s[i] \in T
OBVIOUS

(* What appending adds.                                                    *)
LEMMA SeqAppend ==
  ASSUME NEW T, NEW s \in Seq(T), NEW e \in T
  PROVE  /\ Append(s, e) \in Seq(T)
         /\ Len(Append(s, e)) = Len(s) + 1
         /\ DOMAIN Append(s, e) = DOMAIN s \cup {Len(s) + 1}
         /\ \A i \in DOMAIN s : Append(s, e)[i] = s[i]
         /\ Append(s, e)[Len(s) + 1] = e
OBVIOUS

(* A sequence without its n-th element, whatever n is.                     *)
LEMMA SeqOthers ==
  ASSUME NEW T, NEW s \in Seq(T), NEW n
  PROVE  Others(s, n) \in Seq(T)
<1>1. ASSUME NEW i \in DOMAIN s PROVE Without(s, i) \in Seq(T)
  <2>1. SubSeq(s, 1, i - 1) \in Seq(T) /\ SubSeq(s, i + 1, Len(s)) \in Seq(T)
    OBVIOUS
  <2> QED BY <2>1 DEF Without
<1> QED BY <1>1 DEF Others

-----------------------------------------------------------------------------
LayerT == [name : LayerNames, crs : Crs]

(* The rows registered are rows, and none is on a default id.               *)
RowsOK(r) ==
  /\ DOMAIN r \subseteq Int /\ DOMAIN r \cap DefaultIds = {}
  /\ \A id \in DOMAIN r : r[id] \in Definition

(* Rows are only ever added.                                                *)
Grown(r, s) == DOMAIN r \subseteq DOMAIN s /\ \A id \in DOMAIN r : s[id] = r[id]

(* What an object's id must name: a row, and its own if it brought one.     *)
ObjectOK(o, id, r) ==
  /\ id \in DefaultIds \cup DOMAIN r
  /\ (o.id \notin DefaultIds /\ o.def # None) => id \in DOMAIN r /\ r[id] = o.def

LayerIdsOK == \A i \in DOMAIN perLayer : perLayer[i] \in DefaultIds \cup DOMAIN regs

ObjectIdsOK == \A i \in DOMAIN perObject : ObjectOK(objects[i], perObject[i], regs)

AllResolved == stage = "objects" => Len(perLayer) = Len(layers)

Inductive ==
  /\ TypeOK
  /\ AllResolved
  /\ RowsOK(regs)
  /\ next >= SyntheticBase
  /\ LayerIdsOK
  /\ ObjectIdsOK

(* A registration keeps the rows there are.                                 *)
LEMMA RegisterOK ==
  ASSUME NEW r, RowsOK(r), NEW id \in Int, id \notin DefaultIds, NEW def \in Definition
  PROVE  /\ RowsOK(Register(r, id, def)) /\ Grown(r, Register(r, id, def))
         /\ id \in DOMAIN Register(r, id, def)
<1>1. CASE id \in DOMAIN r
  BY <1>1 DEF Register, Grown
<1>2. CASE id \notin DOMAIN r
  <2>1. Register(r, id, def) = With(r, id, def)
    BY <1>2 DEF Register
  <2>2. /\ DOMAIN With(r, id, def) = DOMAIN r \cup {id}
        /\ With(r, id, def)[id] = def
        /\ \A m \in DOMAIN r : With(r, id, def)[m] = r[m]
    BY <1>2 DEF With
  <2> QED BY <2>1, <2>2 DEF RowsOK, Grown
<1> QED BY <1>1, <1>2

(* More rows leave a numbered object as it is.                             *)
LEMMA GrownObject ==
  ASSUME NEW o, NEW id, NEW r, NEW s, Grown(r, s), ObjectOK(o, id, r)
  PROVE  ObjectOK(o, id, s)
BY DEF Grown, ObjectOK

(* A row is a definition.                                                   *)
LEMMA RowType ==
  ASSUME NEW r, RowsOK(r), NEW id \in DefaultIds \cup DOMAIN r
  PROVE  Row(r, id) \in Definition /\ id \in Int
<1>1. id \in Int
  BY SrsAssumption DEF RowsOK, DefaultIds
<1>2. DefaultRow(id) \in Definition
  BY <1>1, SrsAssumption DEF DefaultRow, Definition
<1> QED BY <1>1, <1>2 DEF Row, RowsOK

(* What a reader makes of a row is a label.                                *)
LEMMA LabelType ==
  ASSUME NEW r, RowsOK(r), NEW id \in DefaultIds \cup DOMAIN r
  PROVE  Label(r, id) \in Crs
<1>1. Row(r, id) \in [org : Auths, code : Int, def : Defs]
  BY RowType DEF Definition
<1>2. /\ Row(r, id).org \in Auths /\ Row(r, id).code \in Int /\ Row(r, id).def \in Defs
  BY <1>1
<1>3. [kind |-> "named", auth |-> Row(r, id).org, code |-> Row(r, id).code,
       def |-> Row(r, id).def] \in Crs
  BY <1>2 DEF Crs
<1>4. [kind |-> "none"] \in Crs /\ [kind |-> "wgs84"] \in Crs
  BY DEF Crs
<1> QED BY <1>3, <1>4 DEF Label

(* No synthetic id is one of the three the standard takes.                 *)
LEMMA SyntheticNotDefault ==
  ASSUME NEW n \in Nat, n >= SyntheticBase
  PROVE  n \notin DefaultIds
BY SrsAssumption DEF DefaultIds

(* Nothing is numbered at first.                                           *)
LEMMA InitInductive == Init => Inductive
<1> SUFFICES ASSUME Init PROVE Inductive
  OBVIOUS
<1>1. <<>> \in Seq(LayerT) /\ <<>> \in Seq(Object) /\ <<>> \in Seq(Int) /\ Len(<<>>) = 0
  OBVIOUS
<1>2. DOMAIN <<>> = {}
  OBVIOUS
<1> QED BY <1>1, <1>2, SrsAssumption
        DEF Init, Inductive, TypeOK, AllResolved, RowsOK, LayerIdsOK, ObjectIdsOK, LayerT

(* Every step of the numbering keeps the invariant.                        *)
LEMMA StepInductive == Inductive /\ [Next]_vars => Inductive'
<1> SUFFICES ASSUME Inductive, [Next]_vars PROVE Inductive'
  OBVIOUS
<1> USE DEF Inductive
<1>0. /\ layers \in Seq(LayerT) /\ objects \in Seq(Object)
      /\ perLayer \in Seq(Int) /\ perObject \in Seq(Int)
      /\ Len(perLayer) \in Nat /\ Len(perObject) \in Nat
      /\ Len(layers) \in Nat /\ Len(objects) \in Nat
      /\ DOMAIN layers = 1..Len(layers) /\ DOMAIN objects = 1..Len(objects)
      /\ DOMAIN perLayer = 1..Len(perLayer) /\ DOMAIN perObject = 1..Len(perObject)
      /\ \A i \in DOMAIN layers : layers[i] \in LayerT
      /\ \A i \in DOMAIN objects : objects[i] \in Object
      /\ next \in Nat
  BY SeqElement DEF TypeOK, LayerT
<1>1. CASE Start
  <2>1. PICK name \in LayerNames, crs \in Systems :
          layers' = Append(Others(file.layers, name), [name |-> name, crs |-> crs])
    BY <1>1 DEF Start
  <2>2. layers' \in Seq(LayerT)
    <3>1. file.layers \in Seq(LayerT)
      BY DEF TypeOK, LayerT
    <3>2. [name |-> name, crs |-> crs] \in LayerT
      BY SrsAssumption DEF LayerT
    <3> QED BY <2>1, <3>1, <3>2, SeqOthers, SeqAppend
  <2>3. objects' \in Seq(Object)
    <3>1. file.objects \in Seq(Object) /\ Objects \subseteq Object
      BY SrsAssumption DEF TypeOK
    <3>2. CASE objects' = file.objects
      BY <3>1, <3>2
    <3>3. ASSUME NEW o \in Objects, objects' = Append(file.objects, o)
          PROVE  objects' \in Seq(Object)
      BY <3>1, <3>3, SeqAppend
    <3> QED BY <1>1, <3>2, <3>3 DEF Start
  <2>4. perLayer' = <<>> /\ perObject' = <<>> /\ regs' = <<>> /\ next' = SyntheticBase
        /\ stage' = "layers" /\ file' = file
    BY <1>1 DEF Start
  <2>5. <<>> \in Seq(Int) /\ Len(<<>>) = 0 /\ DOMAIN <<>> = {}
    OBVIOUS
  <2>6. Len(layers') \in Nat /\ Len(objects') \in Nat
    BY <2>2, <2>3, SeqElement
  <2>7. TypeOK'
    BY <2>2, <2>3, <2>4, <2>5, <2>6, SrsAssumption DEF TypeOK, LayerT
  <2>8. RowsOK(regs') /\ next' >= SyntheticBase
    BY <2>4, <2>5, SrsAssumption DEF RowsOK
  <2>9. LayerIdsOK' /\ ObjectIdsOK'
    BY <2>4, <2>5 DEF LayerIdsOK, ObjectIdsOK
  <2>10. AllResolved'
    BY <2>4 DEF AllResolved
  <2> QED BY <2>7, <2>8, <2>9, <2>10
(* Every layer step appends an id that has a row, and only adds rows.      *)
<1>2. ASSUME NEW id \in Int, Visiting,
             perLayer' = Append(perLayer, id), id \in DefaultIds \cup DOMAIN regs',
             RowsOK(regs'), Grown(regs, regs'), next' \in Nat, next' >= next,
             UNCHANGED <<layers, objects, perObject, stage, file>>
      PROVE  Inductive'
  <2>1. perLayer' \in Seq(Int) /\ Len(perLayer') <= Len(layers')
    BY <1>0, <1>2, SeqAppend DEF Visiting
  <2>2. LayerIdsOK'
    <3>1. \A i \in DOMAIN perLayer : perLayer'[i] \in DefaultIds \cup DOMAIN regs'
      BY <1>0, <1>2, SeqAppend DEF LayerIdsOK, Grown
    <3>2. perLayer'[Len(perLayer) + 1] = id
          /\ DOMAIN perLayer' = DOMAIN perLayer \cup {Len(perLayer) + 1}
      BY <1>0, <1>2, SeqAppend
    <3> QED BY <1>2, <3>1, <3>2 DEF LayerIdsOK
  <2>3. ObjectIdsOK'
    BY <1>2, GrownObject DEF ObjectIdsOK
  <2>4. TypeOK'
    BY <1>2, <2>1 DEF TypeOK, RowsOK
  <2>5. next' >= SyntheticBase
    BY <1>0, <1>2, SrsAssumption
  <2> QED BY <1>2, <2>2, <2>3, <2>4, <2>5 DEF Visiting, AllResolved
<1>3. Grown(regs, regs)
  BY DEF Grown
<1>4. CASE LayerDefault
  <2>1. PICK id \in {0, Wgs84Id} : perLayer' = Append(perLayer, id)
    BY <1>4 DEF LayerDefault
  <2>2. id \in Int /\ id \in DefaultIds
    BY SrsAssumption DEF DefaultIds
  <2>3. /\ Visiting /\ regs' = regs /\ next' = next
        /\ UNCHANGED <<layers, objects, perObject, stage, file>>
    BY <1>4 DEF LayerDefault
  <2> QED BY <1>0, <1>2, <1>3, <2>1, <2>2, <2>3
<1>5. Visiting => This \in Crs
  <2>1. Visiting => layers[Len(perLayer) + 1] \in LayerT
    BY <1>0 DEF Visiting
  <2> QED BY <2>1 DEF This, LayerT
<1>6. ASSUME Visiting, This.kind = "named"
      PROVE  /\ This.auth \in Auths \cup {None} /\ This.code \in Int \cup {None, Word}
             /\ This.def \in Defs
  <2>1. This \in [kind : {"named"}, auth : Auths \cup {None},
                  code : Int \cup {None, Word}, def : Defs]
    BY <1>5, <1>6 DEF Crs
  <2> QED BY <2>1
<1>7. CASE LayerCode
  <2> DEFINE def == [org |-> IF This.auth = None THEN Epsg ELSE This.auth,
                     code |-> This.code, def |-> This.def]
  <2>1. /\ Visiting /\ This.kind = "named" /\ This.code \in Int
        /\ This.code > 0 /\ This.code # Wgs84Id
    BY <1>7 DEF LayerCode, UsableCode, Numeric
  <2>2. This.code \notin DefaultIds
    BY <2>1 DEF DefaultIds
  <2>3. def \in Definition
    BY <1>6, <2>1, SrsAssumption DEF Definition
  <2>4. regs' = Register(regs, This.code, def) /\ perLayer' = Append(perLayer, This.code)
    BY <1>7 DEF LayerCode
  <2> HIDE DEF def
  <2>5. RowsOK(regs') /\ Grown(regs, regs') /\ This.code \in DOMAIN regs'
    BY <2>1, <2>2, <2>3, <2>4, RegisterOK
  <2>6. next' = next /\ UNCHANGED <<layers, objects, perObject, stage, file>>
    BY <1>7 DEF LayerCode
  <2> QED BY <1>0, <1>2, <2>1, <2>4, <2>5, <2>6
<1>8. CASE LayerSynthetic
  <2> DEFINE def == [org |-> IF This.auth = None THEN NoAuthority ELSE This.auth,
                     code |-> IF Numeric(This) THEN This.code ELSE next, def |-> This.def]
  <2>1. Visiting /\ This.kind = "named"
    BY <1>8 DEF LayerSynthetic, NeedsSynthetic
  <2>2. next \notin DefaultIds /\ next \in Int
    BY <1>0, SyntheticNotDefault
  <2>3. def \in Definition
    <3>1. (IF Numeric(This) THEN This.code ELSE next) \in Int
      BY <2>2 DEF Numeric
    <3>2. (IF This.auth = None THEN NoAuthority ELSE This.auth) \in Auths
      BY <1>6, <2>1, SrsAssumption
    <3> QED BY <1>6, <2>1, <3>1, <3>2 DEF Definition
  <2>4. regs' = Register(regs, next, def) /\ perLayer' = Append(perLayer, next)
    BY <1>8 DEF LayerSynthetic
  <2> HIDE DEF def
  <2>5. RowsOK(regs') /\ Grown(regs, regs') /\ next \in DOMAIN regs'
    BY <2>2, <2>3, <2>4, RegisterOK
  <2>6. next' = next + 1 /\ UNCHANGED <<layers, objects, perObject, stage, file>>
    BY <1>8 DEF LayerSynthetic
  <2> QED BY <1>0, <1>2, <2>1, <2>2, <2>4, <2>5, <2>6
<1>9. CASE LayersDone
  BY <1>9 DEF LayersDone, TypeOK, AllResolved, LayerIdsOK, ObjectIdsOK
(* Every object step that is not a skip appends an id that serves it.      *)
<1>10. ASSUME NEW id \in Int, VisitingObject,
              perObject' = Append(perObject, id),
              RowsOK(regs'), Grown(regs, regs'), ObjectOK(ThisObject, id, regs'),
              next' \in Nat, next' >= next,
              UNCHANGED <<layers, objects, perLayer, stage, file>>
       PROVE  Inductive'
  <2>1. perObject' \in Seq(Int) /\ Len(perObject') <= Len(objects')
    BY <1>0, <1>10, SeqAppend DEF VisitingObject
  <2>2. ObjectIdsOK'
    <3>1. \A i \in DOMAIN perObject : ObjectOK(objects[i], perObject[i], regs')
      BY <1>10, GrownObject DEF ObjectIdsOK
    <3>2. /\ \A i \in DOMAIN perObject : perObject'[i] = perObject[i]
          /\ perObject'[Len(perObject) + 1] = id
          /\ DOMAIN perObject' = DOMAIN perObject \cup {Len(perObject) + 1}
      BY <1>0, <1>10, SeqAppend
    <3> QED BY <1>10, <3>1, <3>2 DEF ObjectIdsOK, ThisObject
  <2>3. LayerIdsOK'
    BY <1>10 DEF LayerIdsOK, Grown
  <2>4. TypeOK'
    BY <1>10, <2>1 DEF TypeOK, RowsOK
  <2>5. next' >= SyntheticBase
    BY <1>0, <1>10, SrsAssumption
  <2> QED BY <1>10, <2>2, <2>3, <2>4, <2>5 DEF AllResolved
<1>11. VisitingObject => /\ ThisObject.id \in Int /\ ThisObject.def \in Definition \cup {None}
  <2>1. VisitingObject => ThisObject \in Object
    BY <1>0 DEF VisitingObject, ThisObject
  <2> QED BY <2>1 DEF Object
<1>12. CASE ObjectDefault
  <2>1. PICK id \in DefaultIds : perObject' = Append(perObject, id)
    BY <1>12 DEF ObjectDefault, DefaultIds
  <2>2. ThisObject.id \in DefaultIds \/ ThisObject.def = None
    BY <1>12 DEF ObjectDefault, DefaultIds
  <2>3. id \in Int /\ ObjectOK(ThisObject, id, regs)
    BY <2>2, SrsAssumption DEF ObjectOK, DefaultIds
  <2>4. /\ VisitingObject /\ regs' = regs /\ next' = next
        /\ UNCHANGED <<layers, objects, perLayer, stage, file>>
    BY <1>12 DEF ObjectDefault
  <2> QED BY <1>0, <1>3, <1>10, <2>1, <2>3, <2>4
(* A free id is given the object's own row.                                *)
<1>13. ASSUME VisitingObject, Registrable, NEW id \in Int,
              id \notin DefaultIds, id \notin DOMAIN regs
       PROVE  LET s == With(regs, id, ThisObject.def)
              IN  RowsOK(s) /\ Grown(regs, s) /\ ObjectOK(ThisObject, id, s)
  <2> DEFINE s == With(regs, id, ThisObject.def)
  <2>1. /\ DOMAIN s = DOMAIN regs \cup {id} /\ s[id] = ThisObject.def
        /\ \A m \in DOMAIN regs : s[m] = regs[m]
    BY <1>13 DEF With
  <2>2. ThisObject.def \in Definition
    BY <1>11, <1>13 DEF Registrable
  <2> HIDE DEF s
  <2> QED BY <1>13, <2>1, <2>2 DEF RowsOK, Grown, ObjectOK, s
<1>14. CASE ObjectRegister
  <2>1. /\ VisitingObject /\ Registrable /\ ThisObject.id \notin DOMAIN regs
        /\ regs' = With(regs, ThisObject.id, ThisObject.def)
        /\ perObject' = Append(perObject, ThisObject.id)
        /\ next' = next /\ UNCHANGED <<layers, objects, perLayer, stage, file>>
    BY <1>14 DEF ObjectRegister
  <2>2. ThisObject.id \in Int /\ ThisObject.id \notin DefaultIds
    BY <1>11, <2>1 DEF Registrable
  <2> QED BY <1>0, <1>10, <1>13, <2>1, <2>2
<1>15. CASE ObjectShare
  <2>1. /\ VisitingObject /\ ThisObject.id \in DOMAIN regs
        /\ regs[ThisObject.id] = ThisObject.def
        /\ perObject' = Append(perObject, ThisObject.id)
        /\ regs' = regs /\ next' = next
        /\ UNCHANGED <<layers, objects, perLayer, stage, file>>
    BY <1>15 DEF ObjectShare
  <2>2. ObjectOK(ThisObject, ThisObject.id, regs)
    BY <2>1 DEF ObjectOK
  <2> QED BY <1>0, <1>3, <1>10, <1>11, <2>1, <2>2
<1>16. CASE ObjectSkip
  <2>1. next' = next + 1 /\ UNCHANGED <<layers, objects, perLayer, perObject, regs, stage, file>>
    BY <1>16 DEF ObjectSkip
  <2>2. next' \in Nat /\ next' >= SyntheticBase
    BY <1>0, <2>1, SrsAssumption
  <2> QED BY <2>1, <2>2 DEF TypeOK, AllResolved, LayerIdsOK, ObjectIdsOK
<1>17. CASE ObjectRenumber
  <2>1. /\ VisitingObject /\ Registrable /\ next \notin DOMAIN regs
        /\ regs' = With(regs, next, ThisObject.def)
        /\ perObject' = Append(perObject, next)
        /\ next' = next + 1 /\ UNCHANGED <<layers, objects, perLayer, stage, file>>
    BY <1>17 DEF ObjectRenumber, Collides
  <2>2. next \in Int /\ next \notin DefaultIds
    BY <1>0, SyntheticNotDefault
  <2> QED BY <1>0, <1>10, <1>13, <2>1, <2>2
<1>18. CASE Write
  <2>1. /\ Len(perObject) = Len(objects) /\ stage' = "idle"
        /\ UNCHANGED <<layers, objects, perLayer, perObject, regs, next>>
        /\ file' = [layers  |-> [i \in DOMAIN layers |->
                                   [layers[i] EXCEPT !.crs = Label(regs, perLayer[i])]],
                    objects |-> [i \in DOMAIN objects |-> ReadObject(i)]]
    BY <1>18 DEF Write
  <2>2. Len(perLayer) = Len(layers)
    BY <1>18 DEF Write, AllResolved
  <2>3. file'.layers \in Seq(LayerT)
    <3>1. ASSUME NEW i \in DOMAIN layers
          PROVE  [layers[i] EXCEPT !.crs = Label(regs, perLayer[i])] \in LayerT
      <4>1. perLayer[i] \in DefaultIds \cup DOMAIN regs
        BY <1>0, <2>2 DEF LayerIdsOK
      <4>2. Label(regs, perLayer[i]) \in Crs
        BY <4>1, LabelType
      <4> QED BY <1>0, <4>2 DEF LayerT
    <3> HIDE DEF LayerT
    <3>2. file'.layers \in [1..Len(layers) -> LayerT]
      BY <1>0, <2>1, <3>1
    <3> QED BY <1>0, <3>2, SeqOfFunction
  <2>4. file'.objects \in Seq(Object)
    <3>1. ASSUME NEW i \in DOMAIN objects PROVE ReadObject(i) \in Object
      <4>1. perObject[i] \in DefaultIds \cup DOMAIN regs
        BY <1>0, <2>1 DEF ObjectIdsOK, ObjectOK
      <4>2. Row(regs, perObject[i]) \in Definition /\ perObject[i] \in Int
        BY <4>1, RowType
      <4> QED BY <1>0, <4>2 DEF ReadObject, Object
    <3>2. file'.objects \in [1..Len(objects) -> Object]
      BY <1>0, <2>1, <3>1
    <3> QED BY <1>0, <3>2, SeqOfFunction
  <2>5. TypeOK'
    BY <2>1, <2>3, <2>4 DEF TypeOK, LayerT
  <2> QED BY <2>1, <2>5 DEF AllResolved, LayerIdsOK, ObjectIdsOK
<1>19. CASE UNCHANGED vars
  BY <1>19 DEF vars, TypeOK, AllResolved, LayerIdsOK, ObjectIdsOK
<1> QED BY <1>1, <1>4, <1>7, <1>8, <1>9, <1>12, <1>14, <1>15, <1>16, <1>17, <1>18, <1>19 DEF Next

-----------------------------------------------------------------------------
(* The inductive invariant holds in every reachable state.                  *)
THEOREM Invariant == Spec => []Inductive
<1> QED BY InitInductive, StepInductive, PTL DEF Spec

(* Type correctness, the file read back included.                           *)
THEOREM TypeCorrect == Spec => []TypeOK
<1>1. Inductive => TypeOK
  BY DEF Inductive
<1> QED BY <1>1, Invariant, PTL

(* No srs_id dangles in a written file (fk_gc_r_srs_id).                    *)
THEOREM EveryIdHasOneRowAlways == Spec => []EveryIdHasOneRow
<1>1. Inductive => EveryIdHasOneRow
  BY DEF Inductive, LayerIdsOK, ObjectIdsOK, ObjectOK, RowsOK, EveryIdHasOneRow
<1> QED BY <1>1, Invariant, PTL

(* A carried object is never relabelled with another system.                *)
THEOREM CarriedDefinitionStandsAlways == Spec => []CarriedDefinitionStands
<1>1. Inductive => CarriedDefinitionStands
  BY DEF Inductive, ObjectIdsOK, ObjectOK, RowsOK, Row, CarriedDefinitionStands
<1> QED BY <1>1, Invariant, PTL

-----------------------------------------------------------------------------
(***************************************************************************)
(* A layer of a registered system is read back with it after any number of *)
(* appends.                                                                *)
(***************************************************************************)
UniqueNames(s) == \A i, j \in DOMAIN s : s[i].name = s[j].name => i = j

(* The items of two sequences one after the other.                         *)
LEMMA SeqConcat ==
  ASSUME NEW T, NEW a \in Seq(T), NEW b \in Seq(T)
  PROVE  /\ DOMAIN (a \o b) = 1..(Len(a) + Len(b))
         /\ \A k \in 1..(Len(a) + Len(b)) :
              (a \o b)[k] = IF k <= Len(a) THEN a[k] ELSE b[k - Len(a)]
OBVIOUS

(* Taking the i-th item out moves the ones behind it up.                    *)
LEMMA WithoutItems ==
  ASSUME NEW s \in Seq(LayerT), NEW i \in DOMAIN s
  PROVE  /\ DOMAIN Without(s, i) = 1..(Len(s) - 1)
         /\ \A k \in 1..(Len(s) - 1) : Without(s, i)[k] = s[IF k < i THEN k ELSE k + 1]
<1> DEFINE front == SubSeq(s, 1, i - 1)
           back == SubSeq(s, i + 1, Len(s))
<1> HIDE DEF LayerT
<1>1. /\ Len(s) \in Nat /\ i \in 1..Len(s)
      /\ front \in Seq(LayerT) /\ Len(front) = i - 1 /\ \A k \in 1..(i - 1) : front[k] = s[k]
  OBVIOUS
<1>2. /\ back \in Seq(LayerT) /\ Len(back) = Len(s) - i
      /\ \A k \in 1..(Len(s) - i) : back[k] = s[i + k]
  BY <1>1
<1> HIDE DEF front, back
<1> DEFINE all == front \o back
<1>3. /\ DOMAIN all = 1..(Len(s) - 1)
      /\ \A k \in 1..(Len(s) - 1) : all[k] = IF k <= i - 1 THEN front[k] ELSE back[k - (i - 1)]
  <2>1. /\ DOMAIN all = 1..(Len(front) + Len(back))
        /\ \A k \in 1..(Len(front) + Len(back)) :
             all[k] = IF k <= Len(front) THEN front[k] ELSE back[k - Len(front)]
    BY <1>1, <1>2, SeqConcat
  <2>2. Len(front) + Len(back) = Len(s) - 1
    BY <1>1, <1>2
  <2> HIDE DEF all
  <2> QED BY <1>1, <2>1, <2>2
<1> HIDE DEF all
<1>4. ASSUME NEW k \in 1..(Len(s) - 1)
      PROVE  all[k] = s[IF k < i THEN k ELSE k + 1]
  <2>1. CASE k < i
    <3>1. k <= i - 1 /\ k \in 1..(i - 1)
      BY <1>1, <2>1
    <3> QED BY <1>1, <1>3, <2>1, <3>1
  <2>2. CASE ~(k < i)
    <3>1. /\ k - (i - 1) \in 1..(Len(s) - i) /\ i + (k - (i - 1)) = k + 1
          /\ ~(k <= i - 1)
      BY <1>1, <2>2
    <3>2. all[k] = back[k - (i - 1)]
      BY <1>3, <3>1
    <3>3. back[k - (i - 1)] = s[i + (k - (i - 1))]
      BY <1>2, <3>1
    <3> QED BY <2>2, <3>1, <3>2, <3>3
  <2> QED BY <2>1, <2>2
<1> QED BY <1>3, <1>4 DEF Without, front, back, all

(* The other layers are layers of the file, and none has the name.          *)
LEMMA OthersItems ==
  ASSUME NEW s \in Seq(LayerT), UniqueNames(s), NEW n
  PROVE  /\ UniqueNames(Others(s, n))
         /\ \A k \in DOMAIN Others(s, n) :
              \E m \in DOMAIN s : Others(s, n)[k] = s[m] /\ s[m].name # n
<1>1. CASE ~\E i \in DOMAIN s : s[i].name = n
  BY <1>1 DEF Others
<1>2. CASE \E i \in DOMAIN s : s[i].name = n
  <2>1. PICK i \in DOMAIN s : s[i].name = n /\ Others(s, n) = Without(s, i)
    BY <1>2 DEF Others
  <2> DEFINE w == Without(s, i)
             from(k) == IF k < i THEN k ELSE k + 1
  <2>2. /\ DOMAIN w = 1..(Len(s) - 1)
        /\ \A k \in DOMAIN w : w[k] = s[from(k)]
    BY WithoutItems
  <2>3. Len(s) \in Nat /\ DOMAIN s = 1..Len(s)
    BY SeqElement
  <2>4. /\ \A k \in DOMAIN w : from(k) \in DOMAIN s /\ from(k) # i
        /\ \A k, l \in DOMAIN w : from(k) = from(l) => k = l
    BY <2>2, <2>3
  <2> HIDE DEF w, from
  <2>5. \A k \in DOMAIN w : s[from(k)].name # n
    BY <2>1, <2>4 DEF UniqueNames
  <2>6. UniqueNames(w)
    BY <2>2, <2>4 DEF UniqueNames
  <2> QED BY <2>1, <2>2, <2>4, <2>5, <2>6 DEF w
<1> QED BY <1>1, <1>2

-----------------------------------------------------------------------------
Last(i, name) ==
  /\ i \in DOMAIN arrived /\ arrived[i].name = name
  /\ \A j \in DOMAIN arrived : arrived[j].name = name => j <= i

(* Some layer arrived with this number of this authority.                   *)
Claim(code, auth) ==
  \E i \in DOMAIN arrived :
    LET crs == arrived[i].crs
    IN  Numeric(crs) /\ crs.code = code /\ Authority(crs) = auth

Low(code) == code > 0 /\ code < SyntheticBase /\ code # Wgs84Id

Claimed(crs) == (Numeric(crs) /\ Low(crs.code)) => Claim(crs.code, Authority(crs))

(* A layer to write is as it arrived, or as the last write labelled it.     *)
LayerOK(layer) ==
  /\ Claimed(layer.crs)
  /\ \E i \in DOMAIN arrived :
       /\ Last(i, layer.name)
       /\ Registered(arrived[i].crs) =>
            layer.crs = arrived[i].crs \/ Labels(layer.crs, arrived[i].crs)

WrittenOK(name, label) ==
  /\ Claimed(label)
  /\ \E i \in DOMAIN arrived :
       /\ Last(i, name)
       /\ Registered(arrived[i].crs) => Labels(label, arrived[i].crs)

(* What a row registered for a layer says: below the synthetic ids, the     *)
(* code that is its id, under the authority a layer claimed it for.         *)
RowClaimed(id, row) ==
  /\ id > 0 /\ id # Wgs84Id
  /\ IF id < SyntheticBase THEN row.code = id
     ELSE row.code <= 0 \/ row.code >= SyntheticBase
  /\ Low(row.code) => Claim(row.code, row.org)

Kept ==
  /\ arrived \in Seq(LayerT)
  /\ stage = "idle" => /\ UniqueNames(file.layers)
                       /\ \A i \in DOMAIN file.layers :
                            WrittenOK(file.layers[i].name, file.layers[i].crs)
  /\ stage # "idle" => /\ UniqueNames(layers)
                       /\ \A i \in DOMAIN layers : LayerOK(layers[i])
                       /\ \A i \in DOMAIN perLayer :
                            WrittenOK(layers[i].name, Label(regs, perLayer[i]))
  /\ stage = "layers" => \A id \in DOMAIN regs : RowClaimed(id, regs[id])

(* An empty file has no layer to label.                                    *)
LEMMA KeptStarts == Init => Kept
BY DEF Init, Kept, UniqueNames

(* One more arrival takes nothing from what the earlier ones claimed, and   *)
(* only takes away from what counts as registered.                         *)
LEMMA ArrivalGrows ==
  ASSUME arrived \in Seq(LayerT), NEW new \in LayerT, arrived' = Append(arrived, new)
  PROVE  /\ arrived' \in Seq(LayerT)
         /\ \E i \in DOMAIN arrived' : Last(i, new.name)' /\ arrived'[i] = new
         /\ \A i \in DOMAIN arrived : i \in DOMAIN arrived' /\ arrived'[i] = arrived[i]
         /\ \A i, name : Last(i, name) /\ name # new.name => Last(i, name)'
         /\ \A code, auth : Claim(code, auth) => Claim(code, auth)'
         /\ Numeric(new.crs) => Claim(new.crs.code, Authority(new.crs))'
         /\ \A crs : Registered(crs)' => Registered(crs)
<1>1. /\ arrived' \in Seq(LayerT) /\ Len(arrived) \in Nat /\ DOMAIN arrived = 1..Len(arrived)
      /\ DOMAIN arrived' = DOMAIN arrived \cup {Len(arrived) + 1}
      /\ \A i \in DOMAIN arrived : arrived'[i] = arrived[i] /\ i <= Len(arrived) + 1
      /\ arrived'[Len(arrived) + 1] = new
  BY SeqAppend, SeqElement
<1>2. \E i \in DOMAIN arrived' : Last(i, new.name)' /\ arrived'[i] = new
  <2> DEFINE n == Len(arrived) + 1
  <2>1. /\ n \in DOMAIN arrived' /\ arrived'[n] = new
        /\ \A j \in DOMAIN arrived' : j <= n
    BY <1>1
  <2>2. PICK m : m = n
    OBVIOUS
  <2> HIDE DEF n
  <2>3. Last(m, new.name)'
    BY <2>1, <2>2 DEF Last
  <2> QED BY <2>1, <2>2, <2>3
<1>3. \A i, name : Last(i, name) /\ name # new.name => Last(i, name)'
  BY <1>1 DEF Last
<1>4. \A code, auth : Claim(code, auth) => Claim(code, auth)'
  BY <1>1 DEF Claim
<1>5. Numeric(new.crs) => Claim(new.crs.code, Authority(new.crs))'
  BY <1>1 DEF Claim
<1>6. \A crs : Registered(crs)' => Registered(crs)
  BY <1>1 DEF Registered
<1> QED BY <1>1, <1>2, <1>3, <1>4, <1>5, <1>6

(* A run begins with the file's layers as they were written, and one that   *)
(* has just arrived.                                                       *)
LEMMA StartKeeps == Inductive /\ Kept /\ Start => Kept'
<1> SUFFICES ASSUME Inductive, Kept, Start PROVE Kept'
  OBVIOUS
<1>1. PICK name \in LayerNames, crs \in Systems :
        /\ layers' = Append(Others(file.layers, name), [name |-> name, crs |-> crs])
        /\ arrived' = Append(arrived, [name |-> name, crs |-> crs])
  BY DEF Start
<1> DEFINE new == [name |-> name, crs |-> crs]
           others == Others(file.layers, name)
<1>2. /\ stage = "idle" /\ stage' = "layers" /\ perLayer' = <<>> /\ regs' = <<>>
  BY DEF Start
<1>3. new \in LayerT /\ arrived \in Seq(LayerT) /\ file.layers \in Seq(LayerT)
  BY SrsAssumption DEF Kept, LayerT, Inductive, TypeOK
<1>4. /\ UniqueNames(file.layers)
      /\ \A i \in DOMAIN file.layers : WrittenOK(file.layers[i].name, file.layers[i].crs)
  BY <1>2 DEF Kept
<1>5. /\ UniqueNames(others) /\ others \in Seq(LayerT)
      /\ \A k \in DOMAIN others : \E m \in DOMAIN file.layers :
           others[k] = file.layers[m] /\ file.layers[m].name # name
  BY <1>3, <1>4, OthersItems, SeqOthers
<1>6. /\ DOMAIN layers' = DOMAIN others \cup {Len(others) + 1}
      /\ \A k \in DOMAIN others : layers'[k] = others[k]
      /\ layers'[Len(others) + 1] = new
  BY <1>1, <1>3, <1>5, SeqAppend
<1>7. /\ arrived' \in Seq(LayerT)
      /\ \E i \in DOMAIN arrived' : Last(i, new.name)' /\ arrived'[i] = new
      /\ \A i \in DOMAIN arrived : i \in DOMAIN arrived' /\ arrived'[i] = arrived[i]
      /\ \A i, n : Last(i, n) /\ n # new.name => Last(i, n)'
      /\ \A code, auth : Claim(code, auth) => Claim(code, auth)'
      /\ Numeric(new.crs) => Claim(new.crs.code, Authority(new.crs))'
      /\ \A c : Registered(c)' => Registered(c)
  BY <1>1, <1>3, ArrivalGrows
<1>8. new.name = name /\ new.crs = crs
  OBVIOUS
<1> HIDE DEF new, others
<1>9. LayerOK(new)'
  <2>1. Claimed(new.crs)'
    BY <1>7 DEF Claimed
  <2> QED BY <1>7, <2>1 DEF LayerOK
<1>10. ASSUME NEW layer, layer.name # name, WrittenOK(layer.name, layer.crs)
       PROVE  LayerOK(layer)'
  <2>1. Claimed(layer.crs)'
    BY <1>7, <1>10 DEF WrittenOK, Claimed
  <2>2. PICK i \in DOMAIN arrived :
          Last(i, layer.name) /\ (Registered(arrived[i].crs) => Labels(layer.crs, arrived[i].crs))
    BY <1>10 DEF WrittenOK
  <2>3. Last(i, layer.name)' /\ i \in DOMAIN arrived' /\ arrived'[i] = arrived[i]
    BY <1>7, <1>8, <1>10, <2>2
  <2>4. (Registered(arrived[i].crs) => Labels(layer.crs, arrived[i].crs))'
    <3>1. PICK c : c = arrived[i].crs
      OBVIOUS
    <3>2. Registered(c)' => Registered(c)
      BY <1>7
    <3>3. Registered(arrived[i].crs)' => Registered(c)'
      BY <2>3, <3>1
    <3>4. Labels(layer.crs, arrived[i].crs)' = Labels(layer.crs, c)
      BY <2>3, <3>1 DEF Labels, Numeric
    <3> QED BY <2>2, <3>1, <3>2, <3>3, <3>4
  <2> QED BY <2>1, <2>3, <2>4 DEF LayerOK
<1>11. \A i \in DOMAIN layers' : LayerOK(layers[i])'
  <2>1. ASSUME NEW k \in DOMAIN others PROVE LayerOK(layers[k])'
    <3>1. PICK layer : layer = others[k]
      OBVIOUS
    <3>2. layer.name # name /\ WrittenOK(layer.name, layer.crs)
      BY <1>4, <1>5, <3>1
    <3> QED BY <1>6, <1>10, <3>1, <3>2
  <2>2. ASSUME NEW k, k = Len(others) + 1 PROVE LayerOK(layers[k])'
    BY <1>6, <1>9, <2>2
  <2> QED BY <1>6, <2>1, <2>2
<1>12. UniqueNames(layers)'
  <2>1. \A k \in DOMAIN others : layers'[k].name # layers'[Len(others) + 1].name
    BY <1>5, <1>6, <1>8
  <2> QED BY <1>5, <1>6, <2>1 DEF UniqueNames
<1>13. DOMAIN perLayer' = {} /\ DOMAIN regs' = {}
  BY <1>2
<1> QED BY <1>2, <1>7, <1>11, <1>12, <1>13 DEF Kept

-----------------------------------------------------------------------------
(* The label of a registered row is the row, and claims no more than it.    *)
LEMMA RowLabel ==
  ASSUME NEW r, RowsOK(r), NEW id \in DOMAIN r, RowClaimed(id, r[id])
  PROVE  /\ Label(r, id) = [kind |-> "named", auth |-> r[id].org, code |-> r[id].code, def |-> r[id].def]
         /\ Claimed(Label(r, id))
<1> DEFINE row == r[id]
           label == [kind |-> "named", auth |-> row.org, code |-> row.code, def |-> row.def]
<1>1. /\ id \in Int /\ id \notin DefaultIds /\ row \in Definition
  BY DEF RowsOK
<1>2. row.code \in Int
  BY <1>1 DEF Definition
<1>3. row.code # Wgs84Id
  BY <1>1, <1>2, SrsAssumption DEF RowClaimed
<1>4. Label(r, id) = label
  BY <1>1, <1>3 DEF Label, Row, DefaultIds
<1>5. Claimed(label)
  <2>1. ASSUME Low(row.code) PROVE Claim(row.code, Authority(label))
    <3>1. Claim(row.code, row.org)
      BY <2>1 DEF RowClaimed
    <3>2. PICK crs : Authority(crs) = row.org
      BY <3>1 DEF Claim
    <3>3. Authority(label) = row.org
      BY <3>2 DEF Authority
    <3> QED BY <3>1, <3>3
  <2> QED BY <2>1 DEF Claimed
<1> QED BY <1>4, <1>5

(* Rows that join change no label that was given out.                       *)
LEMMA GrownLabel ==
  ASSUME NEW r, NEW s, Grown(r, s), NEW id \in DefaultIds \cup DOMAIN r
  PROVE  Label(s, id) = Label(r, id)
<1>1. Row(s, id) = Row(r, id)
  BY DEF Grown, Row
<1> QED BY <1>1 DEF Label

(* What has arrived decides what was claimed and written.                   *)
LEMMA SameArrivals ==
  ASSUME arrived' = arrived
  PROVE  /\ \A name, label : WrittenOK(name, label) => WrittenOK(name, label)'
         /\ \A layer : LayerOK(layer) => LayerOK(layer)'
         /\ \A id, row : RowClaimed(id, row) => RowClaimed(id, row)'
<1>1. \A name, label : WrittenOK(name, label) => WrittenOK(name, label)'
  BY DEF WrittenOK, Claimed, Claim, Last, Registered
<1>2. \A layer : LayerOK(layer) => LayerOK(layer)'
  BY DEF LayerOK, Claimed, Claim, Last, Registered
<1>3. \A id, row : RowClaimed(id, row) => RowClaimed(id, row)'
  BY DEF RowClaimed, Claim
<1> QED BY <1>1, <1>2, <1>3

(* A layer resolved so that its label is that of its system keeps the       *)
(* invariant.                                                              *)
LEMMA LayerStepKeeps ==
  ASSUME Inductive, Kept, Visiting, NEW id \in DefaultIds \cup DOMAIN regs',
         perLayer' = Append(perLayer, id), RowsOK(regs'), Grown(regs, regs'),
         UNCHANGED <<layers, stage, file, arrived>>,
         \A m \in DOMAIN regs' : RowClaimed(m, regs'[m]),
         Claimed(Label(regs', id)),
         \A crs : Registered(crs) /\ (This = crs \/ Labels(This, crs)) => Labels(Label(regs', id), crs)
  PROVE  Kept'
<1>1. /\ layers \in Seq(LayerT) /\ perLayer \in Seq(Int) /\ stage = "layers"
      /\ Len(perLayer) < Len(layers)
  BY DEF Inductive, TypeOK, LayerT, Visiting
<1> DEFINE n == Len(perLayer) + 1
<1>2. /\ n \in DOMAIN layers /\ DOMAIN perLayer' = DOMAIN perLayer \cup {n}
      /\ \A i \in DOMAIN perLayer : perLayer'[i] = perLayer[i] /\ i \in DOMAIN layers
      /\ perLayer'[n] = id
  <2>1. id \in Int
    BY SrsAssumption DEF DefaultIds, RowsOK
  <2> QED BY <1>1, <2>1
<1>3. LayerOK(layers[n]) /\ This = layers[n].crs
  BY <1>1, <1>2 DEF Kept, This
<1> HIDE DEF n
<1>4. WrittenOK(layers[n].name, Label(regs', id))
  <2>1. PICK i \in DOMAIN arrived :
          /\ Last(i, layers[n].name)
          /\ Registered(arrived[i].crs) => This = arrived[i].crs \/ Labels(This, arrived[i].crs)
    BY <1>3 DEF LayerOK
  <2> QED BY <2>1 DEF WrittenOK
<1>5. ASSUME NEW i \in DOMAIN perLayer PROVE WrittenOK(layers[i].name, Label(regs', perLayer[i]))
  <2>1. perLayer[i] \in DefaultIds \cup DOMAIN regs
    BY DEF Inductive, LayerIdsOK
  <2>2. Label(regs', perLayer[i]) = Label(regs, perLayer[i])
    BY <2>1, GrownLabel
  <2> QED BY <1>1, <2>2 DEF Kept
<1>6. \A i \in DOMAIN perLayer' : WrittenOK(layers[i].name, Label(regs', perLayer'[i]))
  BY <1>2, <1>4, <1>5
<1>7. /\ \A i \in DOMAIN perLayer' : WrittenOK(layers[i].name, Label(regs, perLayer[i]))'
      /\ \A i \in DOMAIN layers : LayerOK(layers[i])'
      /\ \A m \in DOMAIN regs' : RowClaimed(m, regs[m])'
  BY <1>1, <1>6, SameArrivals DEF Kept
<1> QED BY <1>1, <1>7 DEF Kept, UniqueNames

(* What a layer is resolved from, at the row that its step registers.       *)
LEMMA VisitedLayer ==
  ASSUME Inductive, Kept, Visiting
  PROVE  /\ This \in Crs /\ Claimed(This) /\ stage = "layers"
         /\ This.kind = "named" => This.auth \in Auths \cup {None} /\ This.def \in Defs
         /\ next \in Nat /\ next >= SyntheticBase /\ RowsOK(regs)
         /\ \A id \in DOMAIN regs : RowClaimed(id, regs[id])
<1>1. layers \in Seq(LayerT) /\ perLayer \in Seq(Int) /\ stage = "layers" /\ Len(perLayer) < Len(layers)
  BY DEF Inductive, TypeOK, LayerT, Visiting
<1>2. Len(perLayer) + 1 \in DOMAIN layers
  BY <1>1
<1>3. layers[Len(perLayer) + 1] \in LayerT /\ LayerOK(layers[Len(perLayer) + 1])
  BY <1>1, <1>2, SeqElement DEF Kept
<1>4. This \in Crs /\ Claimed(This)
  BY <1>3 DEF This, LayerT, LayerOK
<1>5. This.kind = "named" => This.auth \in Auths \cup {None} /\ This.def \in Defs
  BY <1>4 DEF Crs
<1> QED BY <1>1, <1>4, <1>5 DEF Inductive, TypeOK, Kept

(* A registration keeps the rows claimed, if its row is.                    *)
LEMMA RegisterClaimed ==
  ASSUME NEW r, RowsOK(r), \A m \in DOMAIN r : RowClaimed(m, r[m]),
         NEW id \in Int, id \notin DefaultIds, NEW def \in Definition, RowClaimed(id, def)
  PROVE  LET s == Register(r, id, def)
         IN  /\ RowsOK(s) /\ Grown(r, s) /\ id \in DOMAIN s
             /\ \A m \in DOMAIN s : RowClaimed(m, s[m])
<1>1. CASE id \in DOMAIN r
  BY <1>1, RegisterOK DEF Register
<1>2. CASE id \notin DOMAIN r
  <2>1. Register(r, id, def) = [m \in DOMAIN r \cup {id} |-> IF m = id THEN def ELSE r[m]]
    BY <1>2 DEF Register, With
  <2> QED BY <2>1, RegisterOK
<1> QED BY <1>1, <1>2

(* No CRS, WGS 84 and the code 4326 keep the system they stand for.         *)
LEMMA DefaultKeeps == Inductive /\ Kept /\ LayerDefault => Kept'
<1> SUFFICES ASSUME Inductive, Kept, LayerDefault PROVE Kept'
  OBVIOUS
<1>1. /\ Visiting /\ UNCHANGED <<layers, stage, file, arrived>> /\ regs' = regs
      /\ \/ This.kind = "none" /\ perLayer' = Append(perLayer, 0)
         \/ /\ This.kind = "wgs84" \/ (This.kind = "named" /\ This.code = Wgs84Id)
            /\ perLayer' = Append(perLayer, Wgs84Id)
  BY DEF LayerDefault, Numeric
<1>2. /\ This \in Crs /\ RowsOK(regs) /\ \A id \in DOMAIN regs : RowClaimed(id, regs[id])
  BY <1>1, VisitedLayer
<1>3. Grown(regs, regs')
  BY <1>1 DEF Grown
<1>4. /\ Label(regs, 0) = [kind |-> "none"] /\ Label(regs, Wgs84Id) = [kind |-> "wgs84"]
      /\ 0 \in DefaultIds /\ Wgs84Id \in DefaultIds
  BY SrsAssumption DEF Label, Row, DefaultRow, DefaultIds
<1>5. CASE This.kind = "none"
  <2>1. This = [kind |-> "none"]
    BY <1>2, <1>5 DEF Crs
  <2>2. Claimed(This) /\ \A crs : This = crs => Labels(This, crs)
    BY <2>1 DEF Claimed, Numeric, Labels
  <2>3. perLayer' = Append(perLayer, 0)
    BY <1>1, <1>5
  <2> QED BY <1>1, <1>2, <1>3, <1>4, <2>1, <2>2, <2>3, LayerStepKeeps
<1>6. CASE This.kind = "wgs84" \/ (This.kind = "named" /\ This.code = Wgs84Id)
  <2> DEFINE label == [kind |-> "wgs84"]
  <2>1. perLayer' = Append(perLayer, Wgs84Id)
    BY <1>1, <1>6
  <2>2. Claimed(label)
    BY DEF Claimed, Numeric
  <2>3. ASSUME NEW crs, Registered(crs), This = crs \/ Labels(This, crs) PROVE Labels(label, crs)
    <3>1. CASE This.kind = "wgs84"
      <4>1. This = label
        BY <1>2, <3>1 DEF Crs
      <4>2. crs = label => Labels(label, crs)
        BY DEF Labels
      <4> QED BY <2>3, <4>1, <4>2
    <3>2. CASE This.kind = "named" /\ This.code = Wgs84Id
      <4>1. crs.kind = "named"
        BY <2>3, <3>2 DEF Labels, Numeric
      <4>2. Numeric(crs) /\ crs.code = Wgs84Id
        BY <2>3, <3>2, <4>1 DEF Labels, Registered
      <4>3. Authority(crs) = Epsg
        BY <2>3, <4>1, <4>2 DEF Registered
      <4>4. crs.auth \in {None, Epsg}
        BY <4>3 DEF Authority
      <4> QED BY <4>2, <4>4 DEF Labels
    <3> QED BY <1>6, <3>1, <3>2
  <2> HIDE DEF label
  <2>4. Label(regs', Wgs84Id) = label
    BY <1>1, <1>4 DEF label
  <2> QED BY <1>1, <1>2, <1>3, <1>4, <2>1, <2>2, <2>3, <2>4, LayerStepKeeps
<1> QED BY <1>1, <1>5, <1>6

(* A registered code is written under itself, where no other layer can have *)
(* registered another system: none arrived with that number.               *)
LEMMA CodeKeeps == Inductive /\ Kept /\ LayerCode => Kept'
<1> SUFFICES ASSUME Inductive, Kept, LayerCode PROVE Kept'
  OBVIOUS
<1> DEFINE id == This.code
           def == [org |-> Authority(This), code |-> id, def |-> This.def]
<1>1. /\ Visiting /\ UNCHANGED <<layers, stage, file, arrived>>
      /\ Numeric(This) /\ id \in Int /\ id > 0 /\ id # Wgs84Id
      /\ regs' = Register(regs, id, def) /\ perLayer' = Append(perLayer, id)
  BY DEF LayerCode, UsableCode, Numeric, Authority
<1>2. /\ This \in Crs /\ Claimed(This) /\ RowsOK(regs)
      /\ This.auth \in Auths \cup {None} /\ This.def \in Defs
      /\ \A m \in DOMAIN regs : RowClaimed(m, regs[m])
  BY <1>1, VisitedLayer DEF Numeric
<1>3. def \in Definition
  BY <1>1, <1>2, SrsAssumption DEF Definition, Authority
<1>4. RowClaimed(id, def)
  BY <1>1, <1>2, SrsAssumption DEF RowClaimed, Claimed
<1>5. id \notin DefaultIds
  BY <1>1 DEF DefaultIds
<1> HIDE DEF def, id
<1>6. /\ RowsOK(regs') /\ Grown(regs, regs') /\ id \in DOMAIN regs'
      /\ \A m \in DOMAIN regs' : RowClaimed(m, regs'[m])
  BY <1>1, <1>2, <1>3, <1>4, <1>5, RegisterClaimed
<1>7. /\ Label(regs', id) = [kind |-> "named", auth |-> regs'[id].org, code |-> regs'[id].code,
                             def |-> regs'[id].def]
      /\ Claimed(Label(regs', id))
  BY <1>6, RowLabel
<1>8. ASSUME NEW crs, Registered(crs), This = crs \/ Labels(This, crs)
      PROVE  Labels(Label(regs', id), crs)
  <2>1. crs.kind = "named" /\ Numeric(crs) /\ crs.code = id
    BY <1>1, <1>8 DEF Labels, Registered, Numeric, id
  <2>2. id < SyntheticBase
    BY <1>8, <2>1 DEF Registered
  <2>3. regs'[id].code = id
    BY <1>6, <2>2 DEF RowClaimed
  <2>4. Claim(id, regs'[id].org)
    BY <1>1, <1>6, <2>2, <2>3 DEF RowClaimed, Low
  <2>5. regs'[id].org = Authority(crs)
    BY <1>8, <2>1, <2>4 DEF Claim, Registered
  <2> QED BY <1>7, <2>1, <2>3, <2>5 DEF Labels, Authority
<1> QED BY <1>1, <1>6, <1>7, <1>8, LayerStepKeeps

(* A system that needs a synthetic id is no registered one, and its row     *)
(* claims no code below the synthetic ones.                                *)
LEMMA SyntheticKeeps == Inductive /\ Kept /\ LayerSynthetic => Kept'
<1> SUFFICES ASSUME Inductive, Kept, LayerSynthetic PROVE Kept'
  OBVIOUS
<1> DEFINE def == [org |-> IF This.auth = None THEN NoAuthority ELSE This.auth,
                   code |-> IF Numeric(This) THEN This.code ELSE next, def |-> This.def]
<1>1. /\ Visiting /\ UNCHANGED <<layers, stage, file, arrived>>
      /\ This.kind = "named" /\ (Numeric(This) => This.code <= 0)
      /\ regs' = Register(regs, next, def) /\ perLayer' = Append(perLayer, next)
  BY DEF LayerSynthetic, NeedsSynthetic
<1>2. /\ RowsOK(regs) /\ next \in Nat /\ next >= SyntheticBase
      /\ This.auth \in Auths \cup {None} /\ This.def \in Defs
      /\ \A m \in DOMAIN regs : RowClaimed(m, regs[m])
  BY <1>1, VisitedLayer
<1>3. /\ next \in Int /\ next > 0 /\ next # Wgs84Id /\ next \notin DefaultIds
      /\ ~(next < SyntheticBase)
  BY <1>2, SyntheticNotDefault, SrsAssumption
<1>4. /\ def.code \in Int /\ (def.code <= 0 \/ def.code >= SyntheticBase)
      /\ def.org \in Auths /\ def.def \in Defs
  BY <1>1, <1>2, <1>3, SrsAssumption DEF Numeric
<1>5. def \in Definition
  BY <1>4 DEF Definition
<1> HIDE DEF def
<1>6. RowClaimed(next, def)
  <2>1. ~Low(def.code)
    BY <1>4, SrsAssumption DEF Low
  <2> QED BY <1>3, <1>4, <2>1 DEF RowClaimed
<1>7. /\ RowsOK(regs') /\ Grown(regs, regs') /\ next \in DOMAIN regs'
      /\ \A m \in DOMAIN regs' : RowClaimed(m, regs'[m])
  BY <1>1, <1>2, <1>3, <1>5, <1>6, RegisterClaimed
<1>8. Claimed(Label(regs', next))
  BY <1>7, RowLabel
<1>9. ASSUME NEW crs, Registered(crs), This = crs \/ Labels(This, crs) PROVE FALSE
  <2>1. crs.kind = "named"
    BY <1>1, <1>9 DEF Labels, Numeric
  <2>2. Numeric(crs) /\ crs.code > 0
    BY <1>9, <2>1 DEF Registered
  <2>3. Numeric(This) /\ This.code = crs.code
    BY <1>1, <1>9, <2>2 DEF Labels, Numeric
  <2> QED BY <1>1, <2>2, <2>3 DEF Numeric
<1> QED BY <1>1, <1>7, <1>8, <1>9, LayerStepKeeps

(* Nothing that is registered for a carried object changes a layer's label. *)
LEMMA ObjectStepKeeps ==
  ASSUME Inductive, Kept, stage # "idle", stage' = "objects", Grown(regs, regs'),
         UNCHANGED <<layers, perLayer, file, arrived>>
  PROVE  Kept'
<1>1. ASSUME NEW i \in DOMAIN perLayer PROVE WrittenOK(layers[i].name, Label(regs', perLayer[i]))
  <2>1. perLayer[i] \in DefaultIds \cup DOMAIN regs
    BY DEF Inductive, LayerIdsOK
  <2>2. Label(regs', perLayer[i]) = Label(regs, perLayer[i])
    BY <2>1, GrownLabel
  <2> QED BY <2>2 DEF Kept
<1>2. /\ \A i \in DOMAIN perLayer : WrittenOK(layers[i].name, Label(regs, perLayer[i]))'
      /\ \A i \in DOMAIN layers : LayerOK(layers[i])'
  BY <1>1, SameArrivals DEF Kept
<1> QED BY <1>2 DEF Kept, UniqueNames

(* The file is written under the labels its ids were resolved to.           *)
LEMMA WriteKeeps == Inductive /\ Kept /\ Write => Kept'
<1> SUFFICES ASSUME Inductive, Kept, Write PROVE Kept'
  OBVIOUS
<1>1. /\ stage = "objects" /\ stage' = "idle" /\ arrived' = arrived
      /\ file'.layers = [i \in DOMAIN layers |-> [layers[i] EXCEPT !.crs = Label(regs, perLayer[i])]]
  BY DEF Write
<1>2. /\ layers \in Seq(LayerT) /\ perLayer \in Seq(Int) /\ Len(perLayer) = Len(layers)
  BY <1>1 DEF Inductive, TypeOK, AllResolved, LayerT
<1>3. DOMAIN perLayer = DOMAIN layers /\ \A i \in DOMAIN layers : layers[i] \in LayerT
  BY <1>2, SeqElement
<1>4. ASSUME NEW i \in DOMAIN layers
      PROVE  file'.layers[i].name = layers[i].name /\ file'.layers[i].crs = Label(regs, perLayer[i])
  <2> DEFINE written == [layers[i] EXCEPT !.crs = Label(regs, perLayer[i])]
  <2>1. written.name = layers[i].name /\ written.crs = Label(regs, perLayer[i])
    BY <1>3 DEF LayerT
  <2>2. file'.layers[i] = written
    BY <1>1
  <2> HIDE DEF written
  <2> QED BY <2>1, <2>2
<1>5. DOMAIN file'.layers = DOMAIN layers
  BY <1>1
<1>6. \A i \in DOMAIN layers : WrittenOK(file'.layers[i].name, file'.layers[i].crs)
  BY <1>1, <1>3, <1>4 DEF Kept
<1>7. \A i \in DOMAIN file'.layers : WrittenOK(file.layers[i].name, file.layers[i].crs)'
  BY <1>1, <1>5, <1>6, SameArrivals
<1>8. UniqueNames(file.layers)'
  BY <1>1, <1>4, <1>5 DEF Kept, UniqueNames
<1> QED BY <1>1, <1>7, <1>8 DEF Kept

(* Every step of an append keeps what is known of the layers.              *)
LEMMA StepKept == Inductive /\ Kept /\ [Next]_vars => Kept'
<1> SUFFICES ASSUME Inductive, Kept, [Next]_vars PROVE Kept'
  OBVIOUS
<1>1. CASE LayersDone
  BY <1>1, ObjectStepKeeps DEF LayersDone, Grown
<1>2. CASE ObjectDefault \/ ObjectShare \/ ObjectSkip
  BY <1>2, ObjectStepKeeps DEF ObjectDefault, ObjectShare, ObjectSkip, Collides, VisitingObject, Grown
<1>3. \A id, def : id \notin DOMAIN regs => Grown(regs, With(regs, id, def))
  BY DEF Grown, With
<1>4. CASE ObjectRegister \/ ObjectRenumber
  <2>1. /\ stage = "objects" /\ stage' = "objects"
        /\ UNCHANGED <<layers, perLayer, file, arrived>>
        /\ \E id, def : id \notin DOMAIN regs /\ regs' = With(regs, id, def)
    BY <1>4 DEF ObjectRegister, ObjectRenumber, Collides, VisitingObject
  <2> QED BY <1>3, <2>1, ObjectStepKeeps
<1>5. CASE UNCHANGED vars
  <2>1. UNCHANGED <<layers, perLayer, regs, stage, file, arrived>>
    BY <1>5 DEF vars
  <2>2. /\ \A name, label : WrittenOK(name, label) => WrittenOK(name, label)'
        /\ \A layer : LayerOK(layer) => LayerOK(layer)'
        /\ \A id, row : RowClaimed(id, row) => RowClaimed(id, row)'
    BY <2>1, SameArrivals
  <2>3. \A r, id : Label(r, id)' = Label(r, id)
    BY DEF Label, Row
  <2> QED BY <2>1, <2>2 DEF Kept, UniqueNames
<1> QED BY <1>1, <1>2, <1>4, <1>5, StartKeeps, DefaultKeeps, CodeKeeps, SyntheticKeeps, WriteKeeps DEF Next

(* What is known of the layers holds in every reachable state.              *)
THEOREM KeptAlways == Spec => []Kept
<1> QED BY Invariant, KeptStarts, StepKept, PTL DEF Spec

(* A layer of a registered system is read back with it after any number of  *)
(* appends, whatever is numbered and renumbered around it.                 *)
THEOREM RegisteredLayersKeepTheirCrsAlways == Spec => []RegisteredLayersKeepTheirCrs
<1>1. Kept => RegisteredLayersKeepTheirCrs
  <2>1. SUFFICES ASSUME Kept, stage = "idle", NEW i \in DOMAIN file.layers,
                        Registered(ArrivedWith(file.layers[i].name))
                 PROVE  Labels(file.layers[i].crs, ArrivedWith(file.layers[i].name))
    BY DEF RegisteredLayersKeepTheirCrs
  <2> DEFINE name == file.layers[i].name
  <2>2. PICK k \in DOMAIN arrived :
          /\ Last(k, name)
          /\ Registered(arrived[k].crs) => Labels(file.layers[i].crs, arrived[k].crs)
    BY <2>1 DEF Kept, WrittenOK
  <2> HIDE DEF name
  <2>3. \A j \in DOMAIN arrived : j \in Nat
    BY <2>1, SeqElement DEF Kept
  <2>4. \A j \in DOMAIN arrived : Last(j, name) => j = k
    BY <2>2, <2>3 DEF Last
  <2>5. ArrivedWith(name) = arrived[k].crs
    BY <2>2, <2>4 DEF ArrivedWith, Last
  <2> QED BY <2>1, <2>2, <2>5 DEF name
<1> QED BY <1>1, KeptAlways, PTL

=============================================================================
