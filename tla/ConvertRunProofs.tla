-------------------------- MODULE ConvertRunProofs --------------------------
(***************************************************************************)
(* Proofs about ConvertRun: for any names, layers, disks and commands, and *)
(* wherever a write fails, the run touches its output's files only, its    *)
(* lower-case input stands, success means that every file is whole, and    *)
(* the files it warns about are the stale ones.                            *)
(***************************************************************************)
EXTENDS ConvertRun, TLAPS, FiniteSetTheorems

(* Sequences without repetitions, as sets from which the head is taken.     *)
Elems(s) == {s[i] : i \in DOMAIN s}
NoRepeats(s) == \A i, j \in DOMAIN s : s[i] = s[j] => i = j

(* A sequence without repeats loses its first element with its head.       *)
LEMMA HeadAndTail ==
  ASSUME NEW T, NEW s \in Seq(T), s # <<>>, NoRepeats(s)
  PROVE  /\ Tail(s) \in Seq(T) /\ NoRepeats(Tail(s))
         /\ Head(s) \in T /\ Head(s) \in Elems(s)
         /\ Elems(Tail(s)) = Elems(s) \ {Head(s)}
<1>1. /\ Len(s) \in Nat \ {0} /\ DOMAIN s = 1..Len(s)
      /\ \A i \in 1..Len(s) : s[i] \in T
  OBVIOUS
<1>2. /\ Tail(s) \in Seq(T) /\ DOMAIN Tail(s) = 1..(Len(s) - 1)
      /\ \A i \in 1..(Len(s) - 1) : Tail(s)[i] = s[i + 1]
  OBVIOUS
<1>3. Head(s) = s[1]
  OBVIOUS
<1>4. NoRepeats(Tail(s))
  BY <1>1, <1>2 DEF NoRepeats
<1>5. Elems(Tail(s)) \subseteq Elems(s) \ {Head(s)}
  BY <1>1, <1>2, <1>3 DEF Elems, NoRepeats
<1>6. Elems(s) \ {Head(s)} \subseteq Elems(Tail(s))
  <2>1. SUFFICES ASSUME NEW i \in 1..Len(s), i # 1
                 PROVE  s[i] \in Elems(Tail(s))
    BY <1>1, <1>3 DEF Elems
  <2>2. i - 1 \in 1..(Len(s) - 1) /\ Tail(s)[i - 1] = s[i]
    BY <1>1, <1>2, <2>1
  <2> QED BY <1>2, <2>2 DEF Elems
<1>7. Elems(Tail(s)) = Elems(s) \ {Head(s)}
  BY <1>5, <1>6
<1>8. 1 \in DOMAIN s /\ s[1] \in T
  BY <1>1
<1>9. Head(s) \in T /\ Head(s) \in Elems(s)
  BY <1>3, <1>8 DEF Elems
<1> QED BY <1>2, <1>4, <1>7, <1>9

(* The empty sequence has no elements.                                     *)
LEMMA ElemsOfEmpty ==
  ASSUME NEW s, s = <<>>
  PROVE  Elems(s) = {}
BY DEF Elems

(* As many distinct members of a finite set as it has are all of them.      *)
LEMMA AllOfThem ==
  ASSUME NEW S, IsFiniteSet(S), NEW f \in [1..Cardinality(S) -> S],
         \A i, j \in 1..Cardinality(S) : f[i] = f[j] => i = j
  PROVE  \A x \in S : \E i \in 1..Cardinality(S) : f[i] = x
<1>1. Cardinality(S) \in Nat
  BY FS_CardinalityType
<1>2. Cardinality(1..Cardinality(S)) = Cardinality(S)
  BY <1>1, FS_Interval
<1>3. f \in Injection(1..Cardinality(S), S)
  BY DEF Injection, IsInjective
<1>4. f \in Surjection(1..Cardinality(S), S)
  BY <1>2, <1>3, FS_Injection
<1> QED BY <1>4 DEF Surjection

-----------------------------------------------------------------------------
(* The files of a job, the jobs of an output, and the files of all of them: *)
(* what the run may write, exactly.                                        *)
Job == [path : Path, format : Formats]

Files(job, crs) ==
  IF job.format # "shp" THEN {job.path}
  ELSE {At(job.path, e, FALSE) : e \in {x \in WrittenExts : x = "prj" => crs}}

JobOf(n, out) ==
  [path |-> [stem |-> n, ext |-> IF out.format = "shp" THEN "shp" ELSE "csv", upper |-> FALSE],
   format |-> out.format]

JobsFor(out) ==
  IF out.path = Directory THEN {JobOf(n, out) : n \in LayerNames}
  ELSE {[path |-> out.path, format |-> out.format]}

Mine(out, crs) == UNION {Files(j, crs) : j \in JobsFor(out)}

(* The files one layer is written to, and none of them twice.              *)
LEMMA FilesOfAJob ==
  ASSUME NEW job \in Job, hasCrs \in BOOLEAN
  PROVE  /\ FilesOf(job) \in Seq(Path)
         /\ NoRepeats(FilesOf(job))
         /\ Elems(FilesOf(job)) = Files(job, hasCrs)
<1>1. job.path \in Path /\ job.path.stem \in Stems
  BY DEF Job, Path
<1>2. CASE job.format # "shp"
  <2>1. FilesOf(job) = <<job.path>>
    BY <1>2 DEF FilesOf
  <2> QED BY <1>1, <1>2, <2>1 DEF Elems, NoRepeats, Files
<1>3. CASE job.format = "shp"
  <2> DEFINE n == IF hasCrs THEN 5 ELSE 4
             exts == <<"shp", "shx", "dbf", "cpg", "prj">>
  <2>1. FilesOf(job) = [i \in 1..n |-> At(job.path, exts[i], FALSE)]
    BY <1>3 DEF FilesOf
  <2>2. n \in {4, 5} /\ (n = 5 <=> hasCrs)
    OBVIOUS
  <2>3. \A i \in 1..n : exts[i] \in WrittenExts /\ (exts[i] = "prj" => hasCrs)
    BY <2>2 DEF WrittenExts
  <2>4. \A i, j \in 1..n : exts[i] = exts[j] => i = j
    BY <2>2
  <2>5. \A e \in WrittenExts : (e = "prj" => hasCrs) => \E i \in 1..n : exts[i] = e
    BY <2>2 DEF WrittenExts
  <2> HIDE DEF n, exts
  <2>6. \A i \in 1..n : At(job.path, exts[i], FALSE) \in Path
    <3>1. \A i \in 1..n : exts[i] \in Exts
      BY <2>3 DEF Exts
    <3> QED BY <1>1, <3>1 DEF At, Path
  <2>7. FilesOf(job) \in Seq(Path)
    <3>1. n \in Nat /\ FilesOf(job) \in [1..n -> Path]
      <4>1. n \in Nat
        BY <2>2
      <4> QED BY <4>1, <2>1, <2>6
    <3> QED BY <3>1
  <2>8. NoRepeats(FilesOf(job))
    BY <2>1, <2>4 DEF NoRepeats, At
  <2>9. Elems(FilesOf(job)) = {At(job.path, exts[i], FALSE) : i \in 1..n}
    BY <2>1 DEF Elems
  <2>10. Files(job, hasCrs) = {At(job.path, e, FALSE) : e \in {x \in WrittenExts : x = "prj" => hasCrs}}
    BY <1>3 DEF Files
  <2>11. \A i \in 1..n : At(job.path, exts[i], FALSE) \in Files(job, hasCrs)
    BY <2>3, <2>10
  <2>12. \A e \in {x \in WrittenExts : x = "prj" => hasCrs} : \E i \in 1..n : exts[i] = e
    BY <2>5
  <2>13. Files(job, hasCrs) \subseteq Elems(FilesOf(job))
    BY <2>9, <2>10, <2>12
  <2>14. Elems(FilesOf(job)) \subseteq Files(job, hasCrs)
    BY <2>9, <2>11
  <2> QED BY <2>7, <2>8, <2>13, <2>14
<1> QED BY <1>2, <1>3

(* Each layer has its job.                                                 *)
LEMMA JobOfIsJob ==
  ASSUME NEW out \in Outputs, NEW n \in LayerNames
  PROVE  JobOf(n, out) \in Job
<1> DEFINE ext == IF out.format = "shp" THEN "shp" ELSE "csv"
<1>1. n \in Stems /\ out.format \in Formats
  BY RunAssumption
<1>2. "shp" \in Exts /\ "csv" \in Exts
  BY DEF Exts, WrittenExts
<1>3. ext \in Exts
  BY <1>2
<1> HIDE DEF ext
<1>4. [stem |-> n, ext |-> ext, upper |-> FALSE] \in Path
  BY <1>1, <1>3 DEF Path
<1> QED BY <1>1, <1>4 DEF JobOf, Job, ext

(* Every file of a job has its stem, is lower case for a Shapefile, and the *)
(* jobs of an output have different stems.                                 *)
LEMMA FilesAreOwn ==
  ASSUME NEW out \in Outputs, NEW crs \in BOOLEAN, NEW j \in JobsFor(out)
  PROVE  /\ j \in Job /\ j.format = out.format
         /\ Files(j, crs) \subseteq Path
         /\ \A p \in Files(j, crs) : p.stem = j.path.stem
         /\ j.format = "shp" => \A p \in Path : p \in Files(j, crs) <=>
                /\ p.stem = j.path.stem /\ ~p.upper
                /\ p.ext \in WrittenExts /\ (p.ext = "prj" => crs)
<1>1. out.path \in Path \cup {Directory} /\ out.format \in Formats
  BY RunAssumption
<1>2. j \in Job /\ j.format = out.format
  <2>1. CASE out.path = Directory
    <3>1. PICK n \in LayerNames : j = JobOf(n, out)
      BY <2>1 DEF JobsFor
    <3> QED BY <3>1, JobOfIsJob DEF JobOf
  <2>2. CASE out.path # Directory
    BY <1>1, <2>2 DEF JobsFor, Job
  <2> QED BY <2>1, <2>2
<1>3. j.path \in Path /\ j.path.stem \in Stems
  BY <1>2 DEF Job, Path
<1>4. CASE j.format # "shp"
  BY <1>2, <1>3, <1>4 DEF Files
<1>5. CASE j.format = "shp"
  <2>1. Files(j, crs) = {At(j.path, e, FALSE) : e \in {x \in WrittenExts : x = "prj" => crs}}
    BY <1>5 DEF Files
  <2>2. Files(j, crs) \subseteq Path
    <3>1. \A e \in WrittenExts : e \in Exts
      BY DEF Exts
    <3>2. \A e \in WrittenExts : At(j.path, e, FALSE) \in Path
      BY <1>3, <3>1 DEF At, Path
    <3> QED BY <2>1, <3>2
  <2>3. \A p \in Files(j, crs) : /\ p.stem = j.path.stem /\ ~p.upper
                                 /\ p.ext \in WrittenExts /\ (p.ext = "prj" => crs)
    BY <2>1 DEF At
  <2>4. ASSUME NEW p \in Path, p.stem = j.path.stem, ~p.upper,
               p.ext \in WrittenExts, p.ext = "prj" => crs
        PROVE  p \in Files(j, crs)
    <3>1. p = At(j.path, p.ext, FALSE)
      BY <2>4 DEF Path, At
    <3> QED BY <2>1, <2>4, <3>1
  <2> QED BY <1>2, <2>2, <2>3, <2>4
<1> QED BY <1>2, <1>4, <1>5

(* Two layers of one output have two stems.                                *)
LEMMA JobsApart ==
  ASSUME NEW out \in Outputs, NEW j \in JobsFor(out), NEW k \in JobsFor(out), j.path.stem = k.path.stem
  PROVE  j = k
<1>1. CASE out.path = Directory
  <2>1. PICK l \in LayerNames : j = JobOf(l, out)
    BY <1>1 DEF JobsFor
  <2>2. PICK m \in LayerNames : k = JobOf(m, out)
    BY <1>1 DEF JobsFor
  <2>3. j.path.stem = l /\ k.path.stem = m
    BY <2>1, <2>2 DEF JobOf
  <2> QED BY <2>1, <2>2, <2>3
<1>2. CASE out.path # Directory
  BY <1>2 DEF JobsFor
<1> QED BY <1>1, <1>2

(* The jobs of a run are those of its output, each once.                    *)
LEMMA CollectionsAreJobs ==
  ASSUME output \in Outputs, NEW s \in Collections
  PROVE  s \in Seq(Job) /\ NoRepeats(s) /\ Elems(s) = JobsFor(output)
<1>0. output.path \in Path \cup {Directory} /\ output.format \in Formats
  BY RunAssumption
<1>1. CASE output.path # Directory
  <2>1. s = <<[path |-> output.path, format |-> output.format]>>
    BY <1>1 DEF Collections
  <2>2. [path |-> output.path, format |-> output.format] \in Job
    BY <1>0, <1>1 DEF Job
  <2> QED BY <1>1, <2>1, <2>2 DEF JobsFor, Elems, NoRepeats
<1>2. CASE output.path = Directory
  <2> DEFINE n == Cardinality(LayerNames)
             place(l) == [stem |-> l, ext |-> IF output.format = "shp" THEN "shp" ELSE "csv", upper |-> FALSE]
             name == [i \in 1..n |-> s[i].path.stem]
  <2>1. n \in Nat
    BY RunAssumption, FS_CardinalityType
  <2>2. /\ s \in [1..n -> [path : {place(l) : l \in LayerNames}, format : {output.format}]]
        /\ \A i, j \in DOMAIN s : i # j => s[i] # s[j]
    BY <1>2 DEF Collections
  <2>3. \A i \in 1..n : name[i] \in LayerNames /\ s[i] = JobOf(name[i], output)
    <3>1. SUFFICES ASSUME NEW i \in 1..n PROVE name[i] \in LayerNames /\ s[i] = JobOf(name[i], output)
      OBVIOUS
    <3>2. s[i] \in [path : {place(l) : l \in LayerNames}, format : {output.format}]
      BY <2>2
    <3>3. PICK l \in LayerNames : s[i].path = place(l)
      BY <3>2
    <3>4. name[i] = l
      BY <3>3
    <3>5. s[i] = [path |-> place(l), format |-> output.format]
      BY <3>2, <3>3
    <3> QED BY <3>4, <3>5 DEF JobOf
  <2> HIDE DEF n, name
  <2>4. DOMAIN s = 1..n /\ NoRepeats(s)
    BY <2>2 DEF NoRepeats
  <2>5. name \in [1..n -> LayerNames]
    BY <2>3 DEF name
  <2>6. \A i, j \in 1..n : name[i] = name[j] => i = j
    BY <2>3, <2>4 DEF NoRepeats
  <2>7. \A l \in LayerNames : \E i \in 1..n : name[i] = l
    <3>1. IsFiniteSet(LayerNames)
      BY RunAssumption
    <3>2. name \in [1..Cardinality(LayerNames) -> LayerNames]
      BY <2>5 DEF n
    <3>3. \A i, j \in 1..Cardinality(LayerNames) : name[i] = name[j] => i = j
      BY <2>6 DEF n
    <3>4. \A l \in LayerNames : \E i \in 1..Cardinality(LayerNames) : name[i] = l
      BY <3>1, <3>2, <3>3, AllOfThem
    <3> QED BY <3>4 DEF n
  <2>8. \A l \in LayerNames : JobOf(l, output) \in Job
    BY JobOfIsJob
  <2>9. s \in Seq(Job)
    BY <2>1, <2>2, <2>3, <2>8
  <2>10. Elems(s) = {JobOf(l, output) : l \in LayerNames}
    BY <2>3, <2>4, <2>7 DEF Elems
  <2> QED BY <1>2, <2>4, <2>9, <2>10 DEF JobsFor
<1> QED BY <1>1, <1>2

(* A file of the output with the stem of one of its jobs is that job's.     *)
LEMMA FilesByStem ==
  ASSUME NEW out \in Outputs, NEW crs \in BOOLEAN, NEW j \in JobsFor(out),
         NEW p \in Mine(out, crs), p.stem = j.path.stem
  PROVE  p \in Files(j, crs)
<1>1. PICK k \in JobsFor(out) : p \in Files(k, crs)
  BY DEF Mine
<1>2. k.path.stem = j.path.stem
  BY <1>1, FilesAreOwn
<1> QED BY <1>1, <1>2, JobsApart

(* What the run writes is whole, is not what was there, and holds New.      *)
LEMMA WholeData ==
  ASSUME NEW a, a \subseteq {Older}
  PROVE  LET w == {New} \cup a
         IN  /\ w # Absent /\ w # Broken /\ New \in w /\ (a = {} => w = {New})
             /\ {Older} # Absent /\ {Older} # Broken /\ {Older} # {New} /\ New \notin {Older}
             /\ Absent # {New} /\ Broken # {New} /\ Absent # Broken
<1>1. /\ {New} \cup a \in SUBSET {Older, New}
      /\ {Older} \in SUBSET {Older, New} /\ {New} \in SUBSET {Older, New}
  OBVIOUS
<1> QED BY <1>1, DataAssumption

-----------------------------------------------------------------------------
(* The inductive invariant.                                                 *)
Whole == {New} \cup appendTo

Typed ==
  /\ input \in Inputs /\ output \in Outputs /\ hasCrs \in BOOLEAN
  /\ DOMAIN disk = Path /\ disk = [p \in Path |-> disk[p]]
  /\ \A p \in Path : before[p] \in {{Older}, Absent}
  /\ appendTo \subseteq {Older}
  /\ jobs \in Seq(Job) /\ NoRepeats(jobs) /\ Elems(jobs) \subseteq JobsFor(output)
  /\ stage = "existing" => Elems(jobs) = JobsFor(output)
  /\ output.format = "gpkg" \/ (appendTo = {} /\ stage # "existing")
  /\ stage = "ok" => jobs = <<>>

(* A lower-case file the run has read is one the refusal looked at.         *)
ReadsGuarded ==
  /\ stage \notin {"start", "refused"} => ~Clash
  /\ stage \in {"start", "refused"} => reads = {}
  /\ \A p \in reads : p \in Path /\ (~p.upper => p \in TouchedPaths(input))

Untouched ==
  stage \in {"start", "refused", "read", "existing"} =>
    (\A p \in Path : disk[p] = before[p]) /\ warned = {}

(* At most the file whose write has just failed is broken.                  *)
OnlyMine ==
  \A p \in Path :
    \/ disk[p] = before[p]
    \/ p \in Mine(output, hasCrs) /\ disk[p] = Whole
    \/ /\ p \in Mine(output, hasCrs) /\ disk[p] = Broken
       /\ stage = "failed" /\ p = Head(pending)

Writing ==
  stage = "write" =>
    /\ jobs # <<>> /\ pending \in Seq(Path) /\ NoRepeats(pending)
    /\ Elems(pending) \subseteq Files(Head(jobs), hasCrs)

FilesOfAll(js) == UNION {Files(j, hasCrs) : j \in js}

Remaining ==
  IF stage = "write" THEN Elems(pending) \cup FilesOfAll(Elems(jobs) \ {Head(jobs)})
  ELSE FilesOfAll(Elems(jobs))

(* The files are written one after the other.                               *)
Progress ==
  stage \in {"job", "write", "ok"} =>
    \A p \in Mine(output, hasCrs) :
      disk[p] = IF p \in Remaining THEN before[p] ELSE Whole

(* The warnings are right about every collection already written.           *)
WarnedSoFar ==
  (stage \in {"job", "write", "ok"} /\ output.format = "shp") =>
    \A j \in JobsFor(output), p \in Path :
      p.stem = j.path.stem /\ p.ext \notin {"gpkg", "csv"} =>
        (p \in warned <=> j \notin Elems(jobs) /\ disk[p] \notin {Absent, {New}})

IInv ==
  Typed /\ ReadsGuarded /\ Untouched /\ OnlyMine /\ Writing /\ Progress /\ WarnedSoFar

-----------------------------------------------------------------------------
(* No file has been touched, read or warned about at the start.             *)
LEMMA InitIInv == Init => IInv
<1> SUFFICES ASSUME Init PROVE IInv
  OBVIOUS
<1>1. PICK present \in Disks : disk = [p \in Path |-> IF p \in present THEN {Older} ELSE Absent]
  BY DEF Init
<1>2. Typed
  <2>1. \A p \in Path : before[p] \in {{Older}, Absent}
    BY <1>1 DEF Init
  <2>2. jobs = <<>> /\ jobs \in Seq(Job) /\ NoRepeats(jobs) /\ Elems(jobs) = {}
    BY DEF Init, NoRepeats, Elems
  <2> QED BY <1>1, <2>1, <2>2 DEF Typed, Init
<1> QED BY <1>2 DEF Init, IInv, ReadsGuarded, Untouched, OnlyMine, Writing, Progress, WarnedSoFar

-----------------------------------------------------------------------------
(* The refusal or acceptance of the output keeps the invariant.             *)
LEMMA StartKeeps ==
  ASSUME IInv, RefuseSameFile \/ Begin
  PROVE  IInv'
<1>1. /\ stage = "start" /\ stage' \in {"refused", "read"} /\ (stage' = "read" => ~Clash)
      /\ UNCHANGED <<disk, command, reads, appendTo, jobs, pending, warned>>
  BY DEF RefuseSameFile, Begin
<1>2. UNCHANGED <<disk, input, output, hasCrs, before>> /\ Clash' = Clash
  BY <1>1 DEF command, Clash, TouchedPaths, At
<1>3. Typed' /\ ReadsGuarded'
  BY <1>1, <1>2 DEF IInv, Typed, ReadsGuarded, TouchedPaths, At
<1>4. Untouched' /\ OnlyMine' /\ Writing' /\ Progress' /\ WarnedSoFar'
  BY <1>1, <1>2 DEF IInv, Untouched, OnlyMine, Writing, Progress, WarnedSoFar
<1> QED BY <1>3, <1>4 DEF IInv

(* So does a failed read, and the end of a run.                             *)
LEMMA StopKeeps ==
  ASSUME IInv, ReadFails \/ AllWritten
  PROVE  IInv'
<1>1. /\ \/ stage = "read" /\ stage' = "failed"
         \/ stage = "job" /\ jobs = <<>> /\ stage' = "ok"
      /\ UNCHANGED <<disk, command, reads, appendTo, jobs, pending, warned>>
  BY DEF ReadFails, AllWritten
<1>2. UNCHANGED <<disk, input, output, hasCrs, before>> /\ Clash' = Clash
  BY <1>1 DEF command, Clash, TouchedPaths, At
<1>3. Typed' /\ ReadsGuarded'
  BY <1>1, <1>2 DEF IInv, Typed, ReadsGuarded, TouchedPaths, At
<1>4. Untouched' /\ OnlyMine' /\ Writing'
  BY <1>1, <1>2 DEF IInv, Untouched, OnlyMine, Writing, Whole
<1>5. Progress' /\ WarnedSoFar'
  BY <1>1, <1>2 DEF IInv, Progress, WarnedSoFar, Remaining, FilesOfAll, Whole
<1> QED BY <1>3, <1>4, <1>5 DEF IInv

(* A lower-case file of the input is one the refusal has compared.          *)
LEMMA SiblingsAreTouched ==
  ASSUME input \in Inputs, ReadInput, NEW p \in reads'
  PROVE  p \in Path /\ (~p.upper => p \in TouchedPaths(input))
<1>1. /\ input.path \in Path /\ input.path # Directory
      /\ (input.format = "shp" => input.path.ext = "shp")
  BY RunAssumption
<1>2. CASE p = input.path
  <2>1. CASE input.format = "shp"
    <3>1. ~p.upper => p = At(p, "shp", FALSE)
      BY <1>1, <1>2, <2>1 DEF At, Path
    <3> QED BY <1>1, <1>2, <2>1, <3>1 DEF TouchedPaths, WrittenExts
  <2> QED BY <1>1, <1>2, <2>1 DEF TouchedPaths
<1>3. CASE p # input.path
  <2>1. input.format = "shp" /\ \E e \in {"dbf", "prj", "cpg"} : p \in SiblingPaths(input.path, e)
    BY <1>3 DEF ReadInput
  <2>2. PICK e \in {"dbf", "prj", "cpg"}, u \in BOOLEAN : p = At(input.path, e, u)
    BY <1>1, <2>1 DEF SiblingPaths, Path
  <2>3. e \in WrittenExts /\ e \in Exts
    BY DEF WrittenExts, Exts
  <2>4. p \in Path /\ p.upper = u
    BY <1>1, <2>2, <2>3 DEF At, Path
  <2> QED BY <1>1, <2>1, <2>2, <2>3, <2>4 DEF TouchedPaths
<1> QED BY <1>2, <1>3

(* Reading the input plans every job of the output, once, and none of them  *)
(* has been written yet.                                                   *)
LEMMA ReadInputKeeps ==
  ASSUME IInv, ReadInput
  PROVE  IInv'
<1>1. /\ stage = "read" /\ jobs' \in Collections
      /\ stage' = IF output.format = "gpkg" THEN "existing" ELSE "job"
      /\ UNCHANGED <<disk, input, output, hasCrs, before, appendTo, pending, warned>>
  BY DEF ReadInput, command
<1>2. input \in Inputs /\ output \in Outputs /\ hasCrs \in BOOLEAN
  BY DEF IInv, Typed
<1>3. jobs' \in Seq(Job) /\ NoRepeats(jobs') /\ Elems(jobs') = JobsFor(output)
  BY <1>1, <1>2, CollectionsAreJobs
<1>4. Clash' = Clash
  BY <1>1 DEF Clash, TouchedPaths, At
<1>5. Typed'
  BY <1>1, <1>3 DEF IInv, Typed
<1>6. ReadsGuarded'
  <2>1. \A p \in reads' : p \in Path /\ (~p.upper => p \in TouchedPaths(input))
    BY <1>2, SiblingsAreTouched
  <2>2. TouchedPaths(input)' = TouchedPaths(input)
    BY <1>1 DEF TouchedPaths, At
  <2> QED BY <1>1, <1>4, <2>1, <2>2 DEF IInv, ReadsGuarded
<1>7. Untouched' /\ OnlyMine' /\ Writing'
  BY <1>1 DEF IInv, Untouched, OnlyMine, Writing, Whole
<1>8. Progress'
  <2>1. Remaining' = Mine(output, hasCrs)
    BY <1>1, <1>3 DEF Remaining, FilesOfAll, Mine
  <2>2. Mine(output, hasCrs)' = Mine(output, hasCrs)
    BY <1>1 DEF Mine, Files, JobsFor, JobOf, At
  <2>3. Mine(output, hasCrs) \subseteq Path
    BY <1>2, FilesAreOwn DEF Mine
  <2> QED BY <1>1, <2>1, <2>2, <2>3 DEF IInv, Untouched, Progress
<1>9. WarnedSoFar'
  BY <1>1, <1>3 DEF IInv, Untouched, WarnedSoFar
<1> QED BY <1>5, <1>6, <1>7, <1>8, <1>9 DEF IInv

(* What an existing GeoPackage adds to the write is what was there before.  *)
LEMMA ReadExistingKeeps ==
  ASSUME IInv, ReadExisting
  PROVE  IInv'
<1>1. /\ stage = "existing" /\ stage' = "job"
      /\ appendTo' \in {IF Exists(output.path) THEN disk[output.path] ELSE {}, {}}
      /\ UNCHANGED <<disk, input, output, hasCrs, before, reads, jobs, pending, warned>>
  BY DEF ReadExisting, command
<1>2. /\ output \in Outputs /\ hasCrs \in BOOLEAN /\ output.format = "gpkg"
      /\ Elems(jobs) = JobsFor(output) /\ \A p \in Path : disk[p] = before[p]
  BY <1>1 DEF IInv, Typed, Untouched
<1>3. appendTo' \subseteq {Older}
  <2>1. output.path \in Path
    BY <1>2, RunAssumption
  <2>2. disk[output.path] \in {{Older}, Absent}
    BY <1>2, <2>1 DEF IInv, Typed
  <2> QED BY <1>1, <2>2 DEF Exists
<1>4. Clash' = Clash
  BY <1>1 DEF Clash, TouchedPaths, At
<1>5. Typed' /\ ReadsGuarded'
  BY <1>1, <1>2, <1>3, <1>4 DEF IInv, Typed, ReadsGuarded, TouchedPaths, At
<1>6. Untouched' /\ OnlyMine' /\ Writing' /\ WarnedSoFar'
  BY <1>1, <1>2 DEF IInv, Untouched, OnlyMine, Writing, WarnedSoFar
<1>7. Progress'
  <2>1. Remaining' = Mine(output, hasCrs)
    BY <1>1, <1>2 DEF Remaining, FilesOfAll, Mine
  <2>2. Mine(output, hasCrs)' = Mine(output, hasCrs)
    BY <1>1 DEF Mine, Files, JobsFor, JobOf, At
  <2>3. Mine(output, hasCrs) \subseteq Path
    BY <1>2, FilesAreOwn DEF Mine
  <2> QED BY <1>1, <1>2, <2>1, <2>2, <2>3 DEF Progress
<1> QED BY <1>5, <1>6, <1>7 DEF IInv

(* The first of the jobs still to do, and the others.                       *)
LEMMA HeadJob ==
  ASSUME IInv, jobs # <<>>
  PROVE  /\ Head(jobs) \in JobsFor(output) /\ Head(jobs) \in Job /\ Head(jobs) \in Elems(jobs)
         /\ Elems(Tail(jobs)) = Elems(jobs) \ {Head(jobs)}
         /\ Tail(jobs) \in Seq(Job) /\ NoRepeats(Tail(jobs))
         /\ FilesOfAll(Elems(jobs)) =
              Files(Head(jobs), hasCrs) \cup FilesOfAll(Elems(jobs) \ {Head(jobs)})
<1>1. jobs \in Seq(Job) /\ NoRepeats(jobs) /\ Elems(jobs) \subseteq JobsFor(output)
  BY DEF IInv, Typed
<1>2. /\ Tail(jobs) \in Seq(Job) /\ NoRepeats(Tail(jobs))
      /\ Head(jobs) \in Job /\ Head(jobs) \in Elems(jobs)
      /\ Elems(Tail(jobs)) = Elems(jobs) \ {Head(jobs)}
  BY <1>1, HeadAndTail
<1>3. FilesOfAll(Elems(jobs)) =
        Files(Head(jobs), hasCrs) \cup FilesOfAll(Elems(jobs) \ {Head(jobs)})
  BY <1>2 DEF FilesOfAll
<1> QED BY <1>1, <1>2, <1>3

(* The files of a collection about to be written all remain to be written.  *)
LEMMA BeginJobKeeps ==
  ASSUME IInv, BeginJob
  PROVE  IInv'
<1>1. /\ stage = "job" /\ jobs # <<>> /\ stage' = "write" /\ pending' = FilesOf(Head(jobs))
      /\ UNCHANGED <<disk, input, output, hasCrs, before, reads, appendTo, jobs, warned>>
  BY DEF BeginJob, command
<1>2. /\ pending' \in Seq(Path) /\ NoRepeats(pending')
      /\ Elems(pending') = Files(Head(jobs), hasCrs)
  BY <1>1, HeadJob, FilesOfAJob DEF IInv, Typed
<1>3. Clash' = Clash
  BY <1>1 DEF Clash, TouchedPaths, At
<1>4. Typed' /\ ReadsGuarded'
  BY <1>1, <1>3 DEF IInv, Typed, ReadsGuarded, TouchedPaths, At
<1>5. Files(Head(jobs), hasCrs)' = Files(Head(jobs), hasCrs)
  BY <1>1 DEF Files, At
<1>6. Untouched' /\ OnlyMine' /\ Writing'
  BY <1>1, <1>2, <1>5 DEF IInv, Untouched, OnlyMine, Writing, Whole
<1>7. Remaining' = Remaining
  <2>1. Remaining = FilesOfAll(Elems(jobs))
    BY <1>1 DEF Remaining
  <2>2. Remaining' = Elems(pending') \cup FilesOfAll(Elems(jobs) \ {Head(jobs)})
    BY <1>1 DEF Remaining, FilesOfAll, Elems
  <2> QED BY <1>1, <1>2, <2>1, <2>2, HeadJob
<1>8. Progress' /\ WarnedSoFar'
  BY <1>1, <1>7 DEF IInv, Progress, WarnedSoFar, Whole
<1> QED BY <1>4, <1>6, <1>8 DEF IInv

(* The next file to write belongs to the job at hand and to no other, and   *)
(* is as it was before the run.                                            *)
LEMMA NextFile ==
  ASSUME IInv, stage = "write", pending # <<>>
  PROVE  /\ Head(pending) \in Path /\ Head(pending) \in Mine(output, hasCrs)
         /\ Head(pending) \in Elems(pending)
         /\ Head(pending).stem = Head(jobs).path.stem
         /\ Tail(pending) \in Seq(Path) /\ NoRepeats(Tail(pending))
         /\ Elems(Tail(pending)) = Elems(pending) \ {Head(pending)}
         /\ disk[Head(pending)] = before[Head(pending)]
         /\ Head(pending) \notin FilesOfAll(Elems(jobs) \ {Head(jobs)})
<1>1. /\ jobs # <<>> /\ pending \in Seq(Path) /\ NoRepeats(pending)
      /\ Elems(pending) \subseteq Files(Head(jobs), hasCrs)
      /\ output \in Outputs /\ hasCrs \in BOOLEAN /\ Elems(jobs) \subseteq JobsFor(output)
  BY DEF IInv, Writing, Typed
<1>2. /\ Tail(pending) \in Seq(Path) /\ NoRepeats(Tail(pending))
      /\ Head(pending) \in Path /\ Head(pending) \in Elems(pending)
      /\ Elems(Tail(pending)) = Elems(pending) \ {Head(pending)}
  BY <1>1, HeadAndTail
<1>3. Head(jobs) \in JobsFor(output) /\ Head(pending) \in Files(Head(jobs), hasCrs)
  BY <1>1, <1>2, HeadJob
<1>4. Head(pending).stem = Head(jobs).path.stem /\ Head(pending) \in Mine(output, hasCrs)
  BY <1>1, <1>3, FilesAreOwn DEF Mine
<1>5. disk[Head(pending)] = before[Head(pending)]
  BY <1>2, <1>4 DEF IInv, Progress, Remaining
<1>6. ASSUME NEW k \in Elems(jobs) \ {Head(jobs)}, Head(pending) \in Files(k, hasCrs) PROVE FALSE
  <2>1. k \in JobsFor(output) /\ Head(pending).stem = k.path.stem
    BY <1>1, <1>6, FilesAreOwn
  <2> QED BY <1>1, <1>3, <1>4, <1>6, <2>1, JobsApart
<1> QED BY <1>2, <1>4, <1>5, <1>6 DEF FilesOfAll

(* A file written is whole, and one fewer remains.                          *)
LEMMA WriteFileKeeps ==
  ASSUME IInv, WriteFile
  PROVE  IInv'
<1> DEFINE file == Head(pending)
<1>1. /\ stage = "write" /\ pending # <<>> /\ stage' = "write"
      /\ disk' = [disk EXCEPT ![file] = Whole] /\ pending' = Tail(pending)
      /\ UNCHANGED <<input, output, hasCrs, before, reads, appendTo, jobs, warned>>
  BY DEF WriteFile, command, Whole
<1>2. /\ file \in Path /\ file \in Mine(output, hasCrs) /\ file \in Elems(pending)
      /\ file.stem = Head(jobs).path.stem
      /\ Tail(pending) \in Seq(Path) /\ NoRepeats(Tail(pending))
      /\ Elems(Tail(pending)) = Elems(pending) \ {file}
      /\ file \notin FilesOfAll(Elems(jobs) \ {Head(jobs)})
  BY <1>1, NextFile
<1>3. DOMAIN disk = Path /\ output \in Outputs /\ hasCrs \in BOOLEAN
  BY DEF IInv, Typed
<1>4. DOMAIN disk' = Path /\ \A p \in Path : disk'[p] = IF p = file THEN Whole ELSE disk[p]
  BY <1>1, <1>3
<1>5. Clash' = Clash /\ Whole' = Whole
  BY <1>1 DEF Clash, TouchedPaths, At, Whole
<1>6. Mine(output, hasCrs)' = Mine(output, hasCrs)
  BY <1>1 DEF Mine, Files, JobsFor, JobOf, At
<1> HIDE DEF file
<1>7. Typed' /\ ReadsGuarded'
  BY <1>1, <1>4, <1>5 DEF IInv, Typed, ReadsGuarded, TouchedPaths, At
<1>8. Untouched' /\ OnlyMine'
  BY <1>1, <1>2, <1>4, <1>5, <1>6 DEF IInv, Untouched, OnlyMine
<1>9. Writing'
  BY <1>1, <1>2 DEF IInv, Writing, Files, At
<1>10. Progress'
  <2>1. Remaining' = Remaining \ {file}
    <3> DEFINE others == FilesOfAll(Elems(jobs) \ {Head(jobs)})
    <3>1. others' = others
      BY <1>1 DEF FilesOfAll, Elems, Files, At
    <3>2. Elems(pending') = Elems(pending) \ {file} /\ file \notin others
      BY <1>1, <1>2
    <3>3. Remaining = Elems(pending) \cup others /\ Remaining' = Elems(pending') \cup others'
      BY <1>1 DEF Remaining, Elems
    <3> HIDE DEF others
    <3> QED BY <3>1, <3>2, <3>3
  <2>2. file \in Remaining
    BY <1>1, <1>2 DEF Remaining
  <2>3. Mine(output, hasCrs) \subseteq Path
    BY <1>3, FilesAreOwn DEF Mine
  <2> QED BY <1>1, <1>2, <1>4, <1>5, <1>6, <2>1, <2>2, <2>3 DEF IInv, Progress
<1>11. WarnedSoFar'
  <2>1. SUFFICES ASSUME output.format = "shp", NEW j \in JobsFor(output), NEW p \in Path,
                        p.stem = j.path.stem, p.ext \notin {"gpkg", "csv"}
                 PROVE  p \in warned <=> j \notin Elems(jobs) /\ disk'[p] \notin {Absent, {New}}
    BY <1>1 DEF WarnedSoFar, JobsFor, JobOf
  <2>2. p \in warned <=> j \notin Elems(jobs) /\ disk[p] \notin {Absent, {New}}
    BY <1>1, <2>1 DEF IInv, WarnedSoFar
  <2>3. CASE p = file
    <3>1. Head(jobs) \in JobsFor(output) /\ Head(jobs) \in Elems(jobs)
      BY <1>1, HeadJob DEF IInv, Writing
    <3>2. j = Head(jobs)
      BY <1>2, <1>3, <2>1, <2>3, <3>1, JobsApart
    <3> QED BY <2>2, <3>1, <3>2
  <2>4. CASE p # file
    BY <1>4, <2>2, <2>4
  <2> QED BY <2>3, <2>4
<1> QED BY <1>7, <1>8, <1>9, <1>10, <1>11 DEF IInv

(* A write that fails breaks the file being written at worst.               *)
LEMMA WriteFailsKeeps ==
  ASSUME IInv, WriteFails
  PROVE  IInv'
<1> DEFINE file == Head(pending)
<1>1. /\ stage = "write" /\ pending # <<>> /\ stage' = "failed"
      /\ disk' \in {disk, [disk EXCEPT ![file] = Broken]}
      /\ UNCHANGED <<input, output, hasCrs, before, reads, appendTo, jobs, pending, warned>>
  BY DEF WriteFails, command
<1>2. file \in Path /\ file \in Mine(output, hasCrs)
  BY <1>1, NextFile
<1>3. DOMAIN disk = Path
  BY DEF IInv, Typed
<1>4. /\ DOMAIN disk' = Path
      /\ \A p \in Path : disk'[p] = disk[p] \/ (p = file /\ disk'[p] = Broken)
  BY <1>1, <1>3
<1>5. Clash' = Clash /\ Whole' = Whole
  BY <1>1 DEF Clash, TouchedPaths, At, Whole
<1>6. Mine(output, hasCrs)' = Mine(output, hasCrs)
  BY <1>1 DEF Mine, Files, JobsFor, JobOf, At
<1>7. file' = file
  BY <1>1
<1>8. Typed'
  <2>1. disk' = [p \in Path |-> disk'[p]]
    BY <1>1, <1>4 DEF IInv, Typed
  <2> QED BY <1>1, <1>4, <2>1 DEF IInv, Typed
<1> HIDE DEF file
<1>9. ReadsGuarded'
  BY <1>1, <1>5 DEF IInv, ReadsGuarded, TouchedPaths, At
<1>10. OnlyMine'
  BY <1>1, <1>2, <1>4, <1>5, <1>6, <1>7 DEF IInv, OnlyMine, file
<1>11. Untouched' /\ Writing' /\ Progress' /\ WarnedSoFar'
  BY <1>1 DEF Untouched, Writing, Progress, WarnedSoFar
<1> QED BY <1>8, <1>9, <1>10, <1>11 DEF IInv

(* The warnings of a finished Shapefile name the files beside it that still *)
(* hold something else.                                                    *)
LEMMA StaleIsWhatDiffers ==
  ASSUME IInv, stage = "write", pending = <<>>, output.format = "shp",
         NEW p \in Path, p.stem = Head(jobs).path.stem, p.ext \notin {"gpkg", "csv"}
  PROVE  p \in Stale(Head(jobs).path) <=> disk[p] \notin {Absent, {New}}
<1> DEFINE job == Head(jobs)
<1>1. /\ jobs # <<>> /\ output \in Outputs /\ hasCrs \in BOOLEAN
      /\ appendTo = {} /\ before[p] \in {{Older}, Absent}
  BY DEF IInv, Writing, Typed
<1>2. job \in JobsFor(output) /\ job \in Job
  BY <1>1, HeadJob
<1> HIDE DEF job
<1>3. /\ job.format = "shp"
      /\ p \in Files(job, hasCrs) <=>
           /\ ~p.upper /\ p.ext \in WrittenExts /\ (p.ext = "prj" => hasCrs)
  BY <1>1, <1>2, FilesAreOwn DEF job
<1>4. /\ {Older} # Absent /\ {Older} # {New} /\ Absent # {New} /\ Whole = {New}
  BY <1>1, WholeData DEF Whole
<1>5. CASE p \in Files(job, hasCrs)
  <2>1. p \in Mine(output, hasCrs)
    BY <1>2, <1>5 DEF Mine
  <2>2. p \notin Remaining
    <3>1. Elems(pending) = {}
      BY ElemsOfEmpty
    <3>2. ASSUME NEW k \in Elems(jobs) \ {job}, p \in Files(k, hasCrs) PROVE FALSE
      <4>1. k \in JobsFor(output) /\ p.stem = k.path.stem
        BY <1>1, <3>2, FilesAreOwn DEF IInv, Typed
      <4> QED BY <1>1, <1>2, <3>2, <4>1, JobsApart DEF job
    <3> QED BY <3>1, <3>2 DEF Remaining, FilesOfAll, job
  <2>3. disk[p] = {New}
    BY <1>4, <2>1, <2>2 DEF IInv, Progress
  <2>4. p \notin Stale(job.path)
    BY <1>3, <1>5, <2>3 DEF Stale, UnwrittenSidecars, WrittenExts
  <2> QED BY <2>3, <2>4 DEF job
<1>6. CASE p \notin Files(job, hasCrs)
  <2>1. disk[p] = before[p]
    BY <1>1, <1>2, <1>6, FilesByStem DEF IInv, OnlyMine, job
  <2>2. disk[p] \notin {Absent, {New}} <=> Exists(p)
    BY <1>1, <1>4, <2>1 DEF Exists
  <2>3. p.ext \in WrittenExts \cup UnwrittenSidecars
    BY DEF Path, Exts
  <2>4. /\ p.upper \in BOOLEAN /\ p.stem = job.path.stem
    BY DEF Path, job
  <2>5. Exists(p) => disk[p] # {New}
    BY <2>2
  <2>6. p.ext \in WrittenExts => p.upper \/ (p.ext = "prj" /\ ~hasCrs)
    BY <1>3, <1>6
  <2>7. Exists(p) <=> p \in Stale(job.path)
    BY <2>3, <2>4, <2>5, <2>6 DEF Stale, Wrote
  <2> QED BY <2>2, <2>7 DEF job
<1> QED BY <1>5, <1>6

(* The last file of a collection ends it, and its stale files are named.    *)
LEMMA EndJobKeeps ==
  ASSUME IInv, EndJob
  PROVE  IInv'
<1> DEFINE job == Head(jobs)
<1>1. /\ stage = "write" /\ pending = <<>> /\ stage' = "job" /\ jobs' = Tail(jobs)
      /\ warned' = warned \cup (IF job.format = "shp" THEN Stale(job.path) ELSE {})
      /\ UNCHANGED <<disk, input, output, hasCrs, before, reads, appendTo, pending>>
  BY DEF EndJob, command
<1>2. jobs # <<>> /\ output \in Outputs /\ hasCrs \in BOOLEAN
  BY <1>1 DEF IInv, Writing, Typed
<1>3. /\ job \in JobsFor(output) /\ job \in Elems(jobs)
      /\ Tail(jobs) \in Seq(Job) /\ NoRepeats(Tail(jobs))
      /\ Elems(Tail(jobs)) = Elems(jobs) \ {job}
  BY <1>2, HeadJob
<1>4. job.format = output.format
  BY <1>2, <1>3, FilesAreOwn
<1>5. Clash' = Clash /\ Whole' = Whole /\ Mine(output, hasCrs)' = Mine(output, hasCrs)
  BY <1>1 DEF Clash, TouchedPaths, At, Whole, Mine, Files, JobsFor, JobOf
<1>6. Typed' /\ ReadsGuarded'
  BY <1>1, <1>3, <1>5 DEF IInv, Typed, ReadsGuarded, TouchedPaths, At, JobsFor, JobOf
<1>7. Untouched' /\ OnlyMine' /\ Writing'
  BY <1>1, <1>5 DEF IInv, Untouched, OnlyMine, Writing
<1>8. Progress'
  <2>1. Remaining' = Remaining
    <3> DEFINE others == FilesOfAll(Elems(jobs) \ {job})
    <3>1. Elems(pending) = {}
      BY <1>1, ElemsOfEmpty
    <3>2. Remaining = others
      BY <1>1, <3>1 DEF Remaining
    <3>3. Remaining' = FilesOfAll(Elems(Tail(jobs)))
      BY <1>1 DEF Remaining, FilesOfAll, Files, At, Elems
    <3> QED BY <1>3, <3>2, <3>3
  <2> QED BY <1>1, <1>5, <2>1 DEF IInv, Progress
<1>9. WarnedSoFar'
  <2>1. SUFFICES ASSUME output.format = "shp", NEW j \in JobsFor(output), NEW p \in Path,
                        p.stem = j.path.stem, p.ext \notin {"gpkg", "csv"}
                 PROVE  p \in warned' <=> j \notin Elems(jobs') /\ disk[p] \notin {Absent, {New}}
    BY <1>1 DEF WarnedSoFar, JobsFor, JobOf
  <2>2. p \in warned <=> j \notin Elems(jobs) /\ disk[p] \notin {Absent, {New}}
    BY <1>1, <2>1 DEF IInv, WarnedSoFar
  <2>3. Elems(jobs') = Elems(jobs) \ {job} /\ warned' = warned \cup Stale(job.path)
    BY <1>1, <1>3, <1>4, <2>1
  <2>4. CASE j = job
    <3>1. p \in Stale(job.path) <=> disk[p] \notin {Absent, {New}}
      BY <1>1, <2>1, <2>4, StaleIsWhatDiffers
    <3> HIDE DEF job
    <3> QED BY <1>3, <2>2, <2>3, <2>4, <3>1
  <2>5. CASE j # job
    <3>1. p.stem # job.path.stem
      BY <1>2, <1>3, <2>1, <2>5, JobsApart
    <3>2. p \notin Stale(job.path)
      BY <3>1 DEF Stale
    <3> HIDE DEF job
    <3> QED BY <2>2, <2>3, <2>5, <3>2
  <2> QED BY <2>4, <2>5
<1> QED BY <1>6, <1>7, <1>8, <1>9 DEF IInv

(* Every step keeps the invariant.                                          *)
LEMMA NextIInv == IInv /\ [Next]_vars => IInv'
<1> SUFFICES ASSUME IInv, [Next]_vars PROVE IInv'
  OBVIOUS
<1>1. CASE RefuseSameFile \/ Begin
  BY <1>1, StartKeeps
<1>2. CASE ReadFails \/ AllWritten
  BY <1>2, StopKeeps
<1>3. CASE ReadInput
  BY <1>3, ReadInputKeeps
<1>4. CASE ReadExisting
  BY <1>4, ReadExistingKeeps
<1>5. CASE BeginJob
  BY <1>5, BeginJobKeeps
<1>6. CASE WriteFile
  BY <1>6, WriteFileKeeps
<1>7. CASE WriteFails
  BY <1>7, WriteFailsKeeps
<1>8. CASE EndJob
  BY <1>8, EndJobKeeps
<1>9. CASE UNCHANGED vars
  <2>1. UNCHANGED <<disk, input, output, hasCrs, reads, appendTo, jobs, pending, warned, stage, before>>
    BY <1>9 DEF vars
  <2>2. Clash' = Clash /\ Whole' = Whole
    BY <2>1 DEF Clash, TouchedPaths, At, Whole
  <2>3. Mine(output, hasCrs)' = Mine(output, hasCrs) /\ Remaining' = Remaining
    BY <2>1 DEF Mine, Files, JobsFor, JobOf, At, Remaining, FilesOfAll, Elems
  <2>4. Typed' /\ ReadsGuarded'
    BY <2>1, <2>2 DEF IInv, Typed, ReadsGuarded, TouchedPaths, At, JobsFor, JobOf, Elems, NoRepeats
  <2>5. Untouched' /\ OnlyMine' /\ Progress'
    BY <2>1, <2>2, <2>3 DEF IInv, Untouched, OnlyMine, Progress
  <2>6. Writing' /\ WarnedSoFar'
    BY <2>1 DEF IInv, Writing, WarnedSoFar, NoRepeats, Elems, Files, At, JobsFor, JobOf
  <2> QED BY <2>4, <2>5, <2>6 DEF IInv
<1> QED BY <1>1, <1>2, <1>3, <1>4, <1>5, <1>6, <1>7, <1>8, <1>9 DEF Next

(* The invariant holds in every state of every run.                         *)
THEOREM IInvAlways == Spec => []IInv
<1> QED BY InitIInv, NextIInv, PTL DEF Spec

-----------------------------------------------------------------------------
(* The files of the output's jobs are among those an output may write.      *)
LEMMA MineIsOwn ==
  ASSUME output \in Outputs, hasCrs \in BOOLEAN, NEW p \in Mine(output, hasCrs)
  PROVE  /\ p \in Path /\ p \in OwnFiles
         /\ output.path = Directory => p.ext # "gpkg"
         /\ output.path # Directory => p \in TouchedPaths(output)
<1>1. PICK j \in JobsFor(output) : p \in Files(j, hasCrs)
  BY DEF Mine
<1>2. /\ j \in Job /\ j.format = output.format /\ p \in Path
      /\ j.format = "shp" => /\ p.stem = j.path.stem /\ ~p.upper
                             /\ p.ext \in WrittenExts /\ (p.ext = "prj" => hasCrs)
  BY <1>1, FilesAreOwn
<1>3. j.format # "shp" => p = j.path
  BY <1>1 DEF Files
<1>4. CASE output.path = Directory
  <2>1. PICK n \in LayerNames : j = JobOf(n, output)
    BY <1>4 DEF JobsFor
  <2>2. j.path.stem = n /\ (j.format # "shp" => j.path.ext = "csv" /\ ~j.path.upper)
    BY <1>2, <2>1 DEF JobOf
  <2> QED BY <1>2, <1>3, <1>4, <2>2 DEF OwnFiles, WrittenExts
<1>5. CASE output.path # Directory
  <2>1. j = [path |-> output.path, format |-> output.format]
    BY <1>5 DEF JobsFor
  <2>2. CASE output.format = "shp"
    <3>1. p = At(output.path, p.ext, FALSE)
      BY <1>2, <2>1, <2>2 DEF At, Path
    <3> QED BY <1>2, <1>5, <2>1, <2>2, <3>1 DEF OwnFiles, TouchedPaths
  <2>3. CASE output.format # "shp"
    BY <1>2, <1>3, <1>5, <2>1, <2>3 DEF OwnFiles, TouchedPaths
  <2> QED BY <2>2, <2>3
<1> QED BY <1>4, <1>5

(* No run overwrites a lower-case file of its own input: such a file was    *)
(* looked at by the refusal, so it is not one of the output's.              *)
THEOREM LowerCaseInputStandsAlways == Spec => []LowerCaseInputStands
<1>1. IInv => LowerCaseInputStands
  <2>1. SUFFICES ASSUME IInv, NEW p \in reads, ~p.upper,
                        output.path = Directory => p.ext = "gpkg", disk[p] # before[p]
                 PROVE  FALSE
    BY DEF LowerCaseInputStands
  <2>2. p \in Path /\ p \in TouchedPaths(input) /\ ~Clash
    BY <2>1 DEF IInv, ReadsGuarded
  <2>3. p \in Mine(output, hasCrs)
    BY <2>1, <2>2 DEF IInv, OnlyMine
  <2>4. p \in TouchedPaths(output)
    BY <2>1, <2>3, MineIsOwn DEF IInv, Typed
  <2> QED BY <2>2, <2>4 DEF Clash
<1> QED BY <1>1, IInvAlways, PTL

(* No step deletes a file, changes one that is not the output's, or writes  *)
(* a second time over one that is already whole.                            *)
THEOREM TouchesOnlyItsOutputAlways == Spec => TouchesOnlyItsOutput
<1> DEFINE step == \A p \in Path : disk'[p] # disk[p] =>
                     p \in OwnFiles /\ disk'[p] # Absent /\ ~HoldsNew(disk[p])
<1>1. IInv /\ [Next]_vars => [step]_vars
  <2>1. SUFFICES ASSUME IInv, Next, NEW p \in Path, disk'[p] # disk[p]
                 PROVE  p \in OwnFiles /\ disk'[p] # Absent /\ ~HoldsNew(disk[p])
    OBVIOUS
  <2>2. WriteFile \/ WriteFails
    BY <2>1 DEF Next, RefuseSameFile, Begin, ReadInput, ReadFails, ReadExisting, BeginJob,
                AllWritten, EndJob
  <2>3. /\ stage = "write" /\ pending # <<>>
        /\ disk' \in {disk, [disk EXCEPT ![Head(pending)] = Broken],
                       [disk EXCEPT ![Head(pending)] = Whole]}
    BY <2>2 DEF WriteFile, WriteFails, Whole
  <2>4. p = Head(pending) /\ (disk'[p] = Broken \/ disk'[p] = Whole)
    BY <2>1, <2>3 DEF IInv, Typed
  <2>5. p \in OwnFiles
    BY <2>1, <2>3, <2>4, NextFile, MineIsOwn DEF IInv, Typed
  <2>6. disk[p] \in {{Older}, Absent}
    BY <2>1, <2>3, <2>4, NextFile DEF IInv, Typed
  <2>7. /\ Whole # Absent /\ Broken # Absent /\ New \notin {Older}
    BY <2>1, WholeData, DataAssumption DEF IInv, Typed, Whole
  <2> QED BY <2>4, <2>5, <2>6, <2>7 DEF HoldsNew
<1> QED BY <1>1, IInvAlways, PTL DEF Spec, TouchesOnlyItsOutput

(* A successful run has written every file of the output, and nothing else  *)
(* has changed.                                                            *)
LEMMA OkIsWritten ==
  ASSUME IInv, stage = "ok", NEW p \in Path
  PROVE  IF p \in Mine(output, hasCrs) THEN disk[p] = Whole ELSE disk[p] = before[p]
<1>1. jobs = <<>>
  BY DEF IInv, Typed
<1>2. Elems(jobs) = {}
  BY <1>1, ElemsOfEmpty
<1>3. Remaining = {}
  BY <1>2 DEF Remaining, FilesOfAll
<1> QED BY <1>3 DEF IInv, Progress, OnlyMine

(* What the command line asks for is what the run's jobs write.            *)
LEMMA PromisedIsMine ==
  ASSUME output \in Outputs, hasCrs \in BOOLEAN, NEW p \in Promised
  PROVE  p \in Mine(output, hasCrs)
<1>1. CASE output.path = Directory
  <2> DEFINE job == JobOf(p.stem, output)
  <2>1. p.stem \in LayerNames
    BY <1>1 DEF Promised
  <2>2. job \in JobsFor(output)
    BY <1>1, <2>1 DEF JobsFor
  <2>3. p \in Files(job, hasCrs)
    <3>1. CASE output.format = "shp"
      <4>1. /\ p = [stem |-> p.stem, ext |-> p.ext, upper |-> FALSE]
            /\ p.ext \in {e \in WrittenExts : e = "prj" => hasCrs}
        BY <1>1, <3>1 DEF Promised
      <4>2. job.format = "shp" /\ job.path.stem = p.stem
        BY <3>1 DEF JobOf
      <4> HIDE DEF job
      <4>3. p = At(job.path, p.ext, FALSE)
        BY <4>1, <4>2 DEF At
      <4> QED BY <4>1, <4>2, <4>3 DEF Files
    <3>2. CASE output.format # "shp"
      <4>1. p = [stem |-> p.stem, ext |-> "csv", upper |-> FALSE]
        BY <1>1, <3>2 DEF Promised
      <4>2. job.format # "shp" /\ job.path = p
        BY <3>2, <4>1 DEF JobOf
      <4> HIDE DEF job
      <4> QED BY <4>2 DEF Files
    <3> QED BY <3>1, <3>2
  <2> QED BY <2>2, <2>3 DEF Mine
<1>2. CASE output.path # Directory
  <2> DEFINE job == [path |-> output.path, format |-> output.format]
  <2>1. job \in JobsFor(output)
    BY <1>2 DEF JobsFor
  <2>2. p \in Files(job, hasCrs)
    <3>1. CASE output.format = "shp"
      <4>1. /\ p = [stem |-> output.path.stem, ext |-> p.ext, upper |-> FALSE]
            /\ p.ext \in {e \in WrittenExts : e = "prj" => hasCrs}
        BY <1>2, <3>1 DEF Promised
      <4>2. p = At(output.path, p.ext, FALSE)
        BY <4>1 DEF At
      <4> QED BY <3>1, <4>1, <4>2 DEF Files
    <3>2. CASE output.format # "shp"
      BY <1>2, <3>2 DEF Promised, Files
    <3> QED BY <3>1, <3>2
  <2> QED BY <2>1, <2>2 DEF Mine
<1> QED BY <1>1, <1>2

(* A successful run has put its data, and what it read of a GeoPackage it   *)
(* appends to, in every file it was asked for: the four or five of each     *)
(* Shapefile, each layer's .csv, the single file of another format.  A run  *)
(* that fails leaves one broken file at most.                               *)
THEOREM EndsWholeAlways == Spec => []EndsWhole
<1>1. IInv => EndsWhole
  <2> SUFFICES ASSUME IInv PROVE EndsWhole
    OBVIOUS
  <2>1. /\ output \in Outputs /\ hasCrs \in BOOLEAN
        /\ \A p \in Path : before[p] \in {{Older}, Absent}
        /\ output.format # "gpkg" => appendTo = {}
    BY DEF IInv, Typed
  <2>2. /\ Whole # Broken /\ {Older} # Broken /\ Absent # Broken
        /\ Whole = {New} \cup (IF output.format = "gpkg" THEN appendTo ELSE {})
    BY <2>1, WholeData DEF IInv, Typed, Whole
  <2>3. ASSUME stage = "ok", NEW p \in Path PROVE disk[p] # Broken
    BY <2>1, <2>2, <2>3, OkIsWritten
  <2>4. ASSUME stage = "ok", NEW p \in Promised PROVE disk[p] = Whole
    <3>1. p \in Mine(output, hasCrs)
      BY <2>1, PromisedIsMine
    <3>2. p \in Path
      BY <2>1, <3>1, MineIsOwn
    <3> QED BY <2>4, <3>1, <3>2, OkIsWritten
  <2>5. Cardinality({p \in Path : disk[p] = Broken}) <= 1
    <3>1. {p \in Path : disk[p] = Broken} \subseteq {Head(pending)}
      BY <2>1, <2>2 DEF IInv, OnlyMine
    <3>2. IsFiniteSet({Head(pending)}) /\ Cardinality({Head(pending)}) = 1
      BY FS_Singleton
    <3> QED BY <3>1, <3>2, FS_Subset
  <2> QED BY <2>2, <2>3, <2>4, <2>5 DEF EndsWhole
<1> QED BY <1>1, IInvAlways, PTL

(* After a successful Shapefile write, the files beside it that hold        *)
(* something else are exactly those the run has warned about.              *)
THEOREM StaleFilesWarnedAlways == Spec => []StaleFilesWarned
<1>1. IInv => StaleFilesWarned
  <2>1. SUFFICES ASSUME IInv, stage = "ok", output.format = "shp", NEW p \in Path,
                        NEW q \in Path, q.stem = p.stem, disk[q] = {New},
                        p.ext \notin {"gpkg", "csv"}
                 PROVE  p \in warned <=> disk[p] \notin {Absent, {New}}
    BY DEF StaleFilesWarned
  <2>2. output \in Outputs /\ hasCrs \in BOOLEAN /\ jobs = <<>>
    BY <2>1 DEF IInv, Typed
  <2>3. q \in Mine(output, hasCrs)
    <3>1. before[q] \in {{Older}, Absent} /\ {Older} # {New} /\ Absent # {New}
      BY <2>1, WholeData DEF IInv, Typed
    <3> QED BY <2>1, <3>1, OkIsWritten
  <2>4. PICK j \in JobsFor(output) : q \in Files(j, hasCrs)
    BY <2>3 DEF Mine
  <2>5. p.stem = j.path.stem
    BY <2>1, <2>2, <2>4, FilesAreOwn
  <2>6. j \notin Elems(jobs)
    BY <2>2, ElemsOfEmpty
  <2> QED BY <2>1, <2>5, <2>6 DEF IInv, WarnedSoFar
<1> QED BY <1>1, IInvAlways, PTL

=============================================================================
