----------------------------- MODULE ConvertRun -----------------------------
(***************************************************************************)
(* One run of the command on a file system, by src/main.rs: the refusal of *)
(* an output that would overwrite its own input, the reads (a Shapefile is *)
(* a set of files), the reading of an existing GeoPackage to append to,    *)
(* the writes one file at a time, and the warnings about the sidecars of   *)
(* an older Shapefile that stay behind.  Any write may fail, before or     *)
(* after std::fs::write has truncated the file.                            *)
(*                                                                         *)
(* The file system is one directory whose names are case sensitive.        *)
(***************************************************************************)
EXTENDS Integers, Sequences, FiniteSets

CONSTANTS
  Stems,      \* file names without their extension
  LayerNames, \* the layers of a GeoPackage input: stems of the fan-out
  Older,      \* what a file held before the run, as data of an older run
  New,        \* the data of this run
  Absent,     \* no file
  Broken,     \* a truncated or half-written file
  Inputs,     \* the inputs: [path, format]
  Outputs,    \* the outputs: [path, format]; path Directory for a fan-out
  Directory,
  Disks       \* the sets of paths that exist at the start

Formats == {"shp", "gpkg", "one"}   \* "one": every single-buffer format

(* What the writer writes, what may lie beside it, and the other formats.  *)
WrittenExts == {"shp", "shx", "dbf", "prj", "cpg"}
UnwrittenSidecars == {"qix"}        \* and .sbn .sbx .fbn .fbx .ain .aih .atx ...
Exts == WrittenExts \cup UnwrittenSidecars \cup {"gpkg", "csv"}

Path == [stem : Stems, ext : Exts, upper : BOOLEAN]

ASSUME RunAssumption ==
  /\ LayerNames \subseteq Stems
  /\ Inputs \subseteq [path : Path, format : Formats]
  /\ Outputs \subseteq [path : Path \cup {Directory}, format : Formats]
  /\ Disks \subseteq SUBSET Path
  /\ \A i \in Inputs : i.format = "shp" => i.path.ext = "shp"
  /\ \A o \in Outputs : o.path = Directory => o.format # "gpkg"
  /\ \A i \in Inputs : i.path # Directory
  /\ IsFiniteSet(LayerNames)

(* What a file may hold, a set of data or neither, can be told apart.      *)
ASSUME DataAssumption ==
  /\ Older # New /\ Absent # Broken
  /\ \A data \in SUBSET {Older, New} : data # Absent /\ data # Broken

VARIABLES
  disk,     \* path -> the data sets in the file, Broken or Absent
  input, output,
  hasCrs,   \* whether the collection has a CRS to write as .prj
  reads,    \* the files the run has read
  appendTo, \* the data of the existing GeoPackage, as the run read it
  jobs,     \* the collections still to write: [path, format]
  pending,  \* the files of the current one still to write
  warned,   \* the files the stale-sidecar warnings name
  stage,    \* "start", "read", "existing", "job", "write", "ok", "refused", "failed"
  before    \* history: the disk at the start

vars == <<disk, input, output, hasCrs, reads, appendTo, jobs, pending, warned, stage, before>>

command == <<input, output, hasCrs, before>>

-----------------------------------------------------------------------------
At(path, ext, upper) == [stem |-> path.stem, ext |-> ext, upper |-> upper]

Exists(path) == disk[path] # Absent

(* Mutant of TouchedPaths: the siblings are forgotten.                     *)
TouchedPathOnly(side) == IF side.path = Directory THEN {} ELSE {side.path}

(* touched_paths: a Shapefile side contributes its siblings, in lower case *)
(* whatever the spelling of its path.                                      *)
TouchedPaths(side) ==
  IF side.path = Directory THEN {}
  ELSE IF side.format = "shp" THEN {At(side.path, e, FALSE) : e \in WrittenExts}
  ELSE {side.path}

(* sibling_path: the case of the .shp first, then the other one.           *)
SiblingPaths(path, ext) ==
  IF Exists(At(path, ext, path.upper)) THEN {At(path, ext, path.upper)}
  ELSE IF Exists(At(path, ext, ~path.upper)) THEN {At(path, ext, ~path.upper)}
  ELSE {}

(* Mutant of FilesOf: the siblings follow the spelling of the path.        *)
FilesAsSpelled(job) ==
  IF job.format # "shp" THEN <<job.path>>
  ELSE [i \in 1..(IF hasCrs THEN 5 ELSE 4) |->
          At(job.path, <<"shp", "shx", "dbf", "cpg", "prj">>[i], job.path.upper)]

(* Mutant of FilesOf: the .prj is not among the files of a Shapefile.       *)
FilesWithoutPrj(job) ==
  IF job.format # "shp" THEN <<job.path>>
  ELSE [i \in 1..4 |-> At(job.path, <<"shp", "shx", "dbf", "cpg">>[i], FALSE)]

(* The files of one collection, in the order they are written.             *)
FilesOf(job) ==
  IF job.format # "shp" THEN <<job.path>>
  ELSE [i \in 1..(IF hasCrs THEN 5 ELSE 4) |->
          At(job.path, <<"shp", "shx", "dbf", "cpg", "prj">>[i], FALSE)]

-----------------------------------------------------------------------------
Init ==
  /\ \E present \in Disks :
       disk = [p \in Path |-> IF p \in present THEN {Older} ELSE Absent]
  /\ before = disk
  /\ input \in Inputs /\ output \in Outputs /\ hasCrs \in BOOLEAN
  /\ input.format = "gpkg" \/ output.path # Directory
  /\ reads = {} /\ appendTo = {} /\ jobs = <<>> /\ pending = <<>> /\ warned = {}
  /\ stage = "start"

Clash == TouchedPaths(input) \cap TouchedPaths(output) # {}

RefuseSameFile ==
  /\ stage = "start" /\ Clash
  /\ stage' = "refused"
  /\ UNCHANGED <<disk, command, reads, appendTo, jobs, pending, warned>>

Begin ==
  /\ stage = "start" /\ ~Clash
  /\ stage' = "read"
  /\ UNCHANGED <<disk, command, reads, appendTo, jobs, pending, warned>>

InputMissing ==
  \/ ~Exists(input.path)
  \/ input.format = "shp" /\ SiblingPaths(input.path, "dbf") = {}

(* The collections the run will write: one, or one per layer.              *)
Collections ==
  IF output.path # Directory THEN {<<[path |-> output.path, format |-> output.format]>>}
  ELSE {s \in [1..Cardinality(LayerNames) ->
                 [path : {[stem |-> n, ext |-> IF output.format = "shp" THEN "shp" ELSE "csv",
                           upper |-> FALSE] : n \in LayerNames},
                  format : {output.format}]] :
          \A i, j \in DOMAIN s : i # j => s[i] # s[j]}

ReadInput ==
  /\ stage = "read" /\ ~InputMissing
  /\ reads' = {input.path} \cup
              (IF input.format = "shp"
               THEN UNION {SiblingPaths(input.path, e) : e \in {"dbf", "prj", "cpg"}}
               ELSE {})
  /\ jobs' \in Collections
  /\ stage' = IF output.format = "gpkg" THEN "existing" ELSE "job"
  /\ UNCHANGED <<disk, command, appendTo, pending, warned>>

(* A missing or malformed input, or one read error.                        *)
ReadFails ==
  /\ stage = "read"
  /\ stage' = "failed"
  /\ UNCHANGED <<disk, command, reads, appendTo, jobs, pending, warned>>

(* std::fs::read(out.path).ok(): a destination that cannot be read is a    *)
(* destination that does not exist.                                        *)
ReadExisting ==
  /\ stage = "existing"
  /\ appendTo' \in {IF Exists(output.path) THEN disk[output.path] ELSE {}, {}}
  /\ stage' = "job"
  /\ UNCHANGED <<disk, command, reads, jobs, pending, warned>>

BeginJob ==
  /\ stage = "job" /\ jobs # <<>>
  /\ pending' = FilesOf(Head(jobs))
  /\ stage' = "write"
  /\ UNCHANGED <<disk, command, reads, appendTo, jobs, warned>>

AllWritten ==
  /\ stage = "job" /\ jobs = <<>>
  /\ stage' = "ok"
  /\ UNCHANGED <<disk, command, reads, appendTo, jobs, pending, warned>>

WriteFile ==
  /\ stage = "write" /\ pending # <<>>
  /\ disk' = [disk EXCEPT ![Head(pending)] = {New} \cup appendTo]
  /\ pending' = Tail(pending)
  /\ UNCHANGED <<command, reads, appendTo, jobs, warned, stage>>

(* Mutant of WriteFails: the error is dropped and the loop goes on.        *)
WriteFailsQuietly ==
  /\ stage = "write" /\ pending # <<>>
  /\ disk' \in {disk, [disk EXCEPT ![Head(pending)] = Broken]}
  /\ pending' = Tail(pending)
  /\ UNCHANGED <<command, reads, appendTo, jobs, warned, stage>>

(* The open fails, or a write after the truncation does.                   *)
WriteFails ==
  /\ stage = "write" /\ pending # <<>>
  /\ disk' \in {disk, [disk EXCEPT ![Head(pending)] = Broken]}
  /\ stage' = "failed"
  /\ UNCHANGED <<command, reads, appendTo, jobs, pending, warned>>

(* Mutant of Wrote: the .prj is not counted among the files of the set.    *)
WroteWithoutPrj(ext) == ext \in WrittenExts \ {"prj"}

(* stale_sidecar_warnings, after the last write of the set: the other      *)
(* spelling of a file just written, if its bytes differ; a .prj when none  *)
(* was written; and every sidecar this writer does not produce.            *)
Wrote(ext) == ext \in WrittenExts /\ (ext = "prj" => hasCrs)

Stale(path) ==
  {p \in Path :
     /\ p.stem = path.stem /\ Exists(p)
     /\ \/ Wrote(p.ext) /\ p.upper /\ disk[p] # {New}
        \/ p.ext = "prj" /\ ~hasCrs
        \/ p.ext \in UnwrittenSidecars}

EndJob ==
  /\ stage = "write" /\ pending = <<>>
  /\ warned' = warned \cup
       (IF Head(jobs).format = "shp" THEN Stale(Head(jobs).path) ELSE {})
  /\ jobs' = Tail(jobs)
  /\ stage' = "job"
  /\ UNCHANGED <<disk, command, reads, appendTo, pending>>

Next ==
  \/ RefuseSameFile \/ Begin \/ ReadInput \/ ReadFails \/ ReadExisting
  \/ BeginJob \/ AllWritten \/ WriteFile \/ WriteFails \/ EndJob

Spec == Init /\ [][Next]_vars

-----------------------------------------------------------------------------
(* An input read under its lower-case names, a GeoPackage to be fanned out  *)
(* being named .gpkg, is as it was, however the run ends: a failed write    *)
(* leaves an original to retry from.                                        *)
LowerCaseInputStands ==
  \A p \in reads :
    ~p.upper /\ (output.path = Directory => p.ext = "gpkg") => disk[p] = before[p]

(* After a successful Shapefile write, the files beside it that describe    *)
(* something else are exactly the ones the run has warned about.            *)
StaleFilesWarned ==
  (stage = "ok" /\ output.format = "shp") =>
    \A p \in Path :
      (\E q \in Path : q.stem = p.stem /\ disk[q] = {New}) /\ p.ext \notin {"gpkg", "csv"} =>
        (p \in warned <=> disk[p] \notin {Absent, {New}})

(* The files a run may write: the output's own, one collection's or each    *)
(* layer's.                                                                 *)
OwnFiles ==
  IF output.path = Directory
  THEN {p \in Path : p.stem \in LayerNames /\ ~p.upper}
  ELSE IF output.format = "shp" THEN {At(output.path, e, FALSE) : e \in WrittenExts}
  ELSE {output.path}

HoldsNew(data) == data \notin {Absent, Broken} /\ New \in data

(* No step deletes a file or touches one that is not the output's, and a    *)
(* file once written whole is not written again.                            *)
TouchesOnlyItsOutput ==
  [][\A p \in Path : disk'[p] # disk[p] =>
       p \in OwnFiles /\ disk'[p] # Absent /\ ~HoldsNew(disk[p])]_vars

(* The files the command line asks for: the four of a Shapefile, with the   *)
(* .prj when there is a CRS to say, or the one of another format; those of  *)
(* every layer when the output is a directory.                              *)
Promised ==
  IF output.format = "shp"
  THEN [stem : IF output.path = Directory THEN LayerNames ELSE {output.path.stem},
        ext : {e \in WrittenExts : e = "prj" => hasCrs}, upper : {FALSE}]
  ELSE IF output.path = Directory THEN [stem : LayerNames, ext : {"csv"}, upper : {FALSE}]
  ELSE {output.path}

(* A run that reports success has put its data in every file it was asked   *)
(* for, with what it read of a GeoPackage it appended to and nothing else,  *)
(* and left no file broken; a run that fails leaves at most one broken.     *)
EndsWhole ==
  /\ stage = "ok" =>
       /\ \A p \in Promised :
            disk[p] = {New} \cup (IF output.format = "gpkg" THEN appendTo ELSE {})
       /\ \A p \in Path : disk[p] # Broken
  /\ Cardinality({p \in Path : disk[p] = Broken}) <= 1

=============================================================================
