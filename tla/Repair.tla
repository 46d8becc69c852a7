------------------------------- MODULE Repair -------------------------------
(***************************************************************************)
(* DeployedRepository::RepairImpl: each file of the database is looked up, *)
(* measured and hashed, one step after the other, while anybody may delete *)
(* or change files.  Verify reports what it finds; Repair notes the        *)
(* contents of damaged files and then asks the source for them.            *)
(***************************************************************************)
EXTENDS Integers, Sequences, FiniteSets

CONSTANTS
  Paths, Contents,
  Size,                    \* fs_contents.Size
  Databases,               \* what fs_files may be: functions from paths to contents
  MaxCalls, MaxChanges     \* bounds on the calls and on the changes from outside

OtherSize == -1            \* a length no content has
Junk == "junk"             \* bytes no content has

ASSUME RepairAssumption ==
  /\ IsFiniteSet(Paths) /\ IsFiniteSet(Contents) /\ Junk \notin Contents
  /\ Size \in [Contents -> Nat]
  /\ \A rows \in Databases : DOMAIN rows \subseteq Paths /\ rows \in [DOMAIN rows -> Contents]
  /\ MaxCalls \in Nat /\ MaxChanges \in Nat

Image == [hash : Contents \cup {Junk}, size : {Size[c] : c \in Contents} \cup {OtherSize},
          readable : BOOLEAN]
Absent == [hash |-> "none", size |-> OtherSize, readable |-> FALSE]

VARIABLES
  files,                   \* fs_files: the content of each path
  objects,                 \* fs_contents: the contents of the files, and perhaps others
  disk,
  debug,                   \* built with assertions
  restore,                 \* the call is a Repair, not a Verify
  source,                  \* what it is given: its kind and its contents
  pc,
  todo,                    \* paths queryFilesContentSql has yet to return
  measured,                \* statResult.size
  requiredContentObjects,
  reports,                 \* calls of repairCallback
  seen,                    \* images the current file has had since its turn came
  disturbed,               \* a file has changed during the call
  outcome,
  calls, changes

fileVars == <<disk, changes, disturbed>>
callVars == <<files, objects, debug, restore, source, calls>>
vars == <<fileVars, callVars, pc, todo, measured, requiredContentObjects, reports,
          seen, outcome>>

-----------------------------------------------------------------------------
Recorded == {files[p] : p \in DOMAIN files}

Original(p) == [hash |-> files[p], size |-> Size[files[p]], readable |-> TRUE]

(* What may become of a file: other bytes, of the same length if there are *)
(* any, or of another, or no permission to read it.                        *)
Damaged(p) ==
  {Absent, [Original(p) EXCEPT !.readable = FALSE],
   [Original(p) EXCEPT !.hash = Junk, !.size = OtherSize]}
  \cup IF Size[files[p]] = 0 THEN {} ELSE {[Original(p) EXCEPT !.hash = Junk]}

Sound(p, image) == image.hash = files[p] /\ image.size = Size[files[p]]

Row == Head(todo)

Goto(label) == pc' = label

Stop(how) == Goto("idle") /\ outcome' = how

(* ORDER BY size                                                           *)
BySize(order) ==
  \A i, j \in DOMAIN order : i < j => Size[files[order[i]]] <= Size[files[order[j]]]

Listings == {order \in [1..Cardinality(DOMAIN files) -> DOMAIN files] :
               BySize(order) /\ \A i, j \in DOMAIN order : i # j => order[i] # order[j]}

(* Mutant: contents without bytes do not count.                            *)
MutantObjectCount == Cardinality({c \in objects : Size[c] > 0})

(* The target of the progress: rows of fs_contents, also those that no     *)
(* file refers to any more, although there is a step per file.             *)
ObjectCount == Cardinality(objects)

RepairImpl(restoring) ==
  /\ pc = "idle" /\ outcome \notin {"died", "assertion"} /\ calls < MaxCalls
  /\ calls' = calls + 1
  /\ restore' = restoring
  /\ \E order \in Listings : todo' = order
  /\ source' \in [packed : BOOLEAN, contents : {Recorded, {}}]
  /\ requiredContentObjects' = <<>> /\ reports' = <<>> /\ seen' = {}
  /\ disturbed' = FALSE /\ outcome' = "none" /\ measured' = 0
  /\ Goto("exists")
  /\ UNCHANGED <<files, objects, disk, changes, debug>>

StepsDone == Cardinality(DOMAIN files) - Len(todo)

(* Advance, and the assertion in GetProgress.                              *)
Advance ==
  /\ todo' = Tail(todo) /\ seen' = {}
  /\ IF debug /\ StepsDone + 1 > ObjectCount
       THEN Stop("assertion")
       ELSE Goto("exists") /\ UNCHANGED outcome

(* Mutant: what is reported is put on the list as well.                    *)
MutantReport(verdict) ==
  /\ reports' = Append(reports,
       [path |-> Row, result |-> verdict, seen |-> seen \cup {disk[Row]}])
  /\ requiredContentObjects' = Append(requiredContentObjects, files[Row])

Report(verdict) ==
  /\ reports' = Append(reports,
       [path |-> Row, result |-> verdict, seen |-> seen \cup {disk[Row]}])
  /\ UNCHANGED requiredContentObjects

(* Mutant: a damaged file goes on the list, whatever the call is.          *)
MutantDamage(verdict) ==
  /\ requiredContentObjects' = Append(requiredContentObjects, files[Row])
  /\ UNCHANGED reports

Damage(verdict) ==
  IF restore
    THEN /\ requiredContentObjects' = Append(requiredContentObjects, files[Row])
         /\ UNCHANGED reports
    ELSE Report(verdict)

Exists ==
  /\ pc = "exists" /\ todo # <<>>
  /\ UNCHANGED <<fileVars, callVars, measured>>
  /\ IF disk[Row] = Absent
       THEN Damage("Missing") /\ Advance
       ELSE /\ Goto("stat") /\ seen' = {disk[Row]}
            /\ UNCHANGED <<todo, requiredContentObjects, reports, outcome>>

(* Without a file the result of stat is not initialised.                   *)
Measurable == IF disk[Row] = Absent
              THEN {Size[c] : c \in Contents} \cup {OtherSize}
              ELSE {disk[Row].size}

(* Mutant: the exception is for Verify, not for Repair.                    *)
MutantSizeDiffers(n) == n # Size[files[Row]] /\ restore

(* The size of a file does not matter to Repair.                           *)
SizeDiffers(n) == n # Size[files[Row]] /\ ~restore

Measure ==
  /\ pc = "stat"
  /\ UNCHANGED <<fileVars, callVars>>
  /\ \E n \in Measurable :
       /\ measured' = n
       /\ IF SizeDiffers(n)
            THEN Damage("Corrupted") /\ Advance
            ELSE IF Size[files[Row]] = 0
              THEN Report("Ok") /\ Advance
              ELSE /\ Goto("hash") /\ seen' = seen \cup {disk[Row]}
                   /\ UNCHANGED <<todo, requiredContentObjects, reports, outcome>>

Hash ==
  /\ pc = "hash" /\ disk[Row].readable
  /\ UNCHANGED <<fileVars, callVars, measured>>
  /\ IF disk[Row].hash # files[Row] THEN Damage("Corrupted") ELSE Report("Ok")
  /\ Advance

(* The descriptor of a file that cannot be opened is -1, a read from it    *)
(* returns -1, and hashing as many bytes is an assertion or runs out of    *)
(* the buffer.                                                             *)
HashFails ==
  /\ pc = "hash" /\ ~disk[Row].readable
  /\ Stop("died")
  /\ UNCHANGED <<fileVars, callVars, todo, measured, requiredContentObjects, reports, seen>>

Verified ==
  /\ pc = "exists" /\ todo = <<>> /\ ~restore
  /\ Stop("ok")
  /\ UNCHANGED <<fileVars, callVars, todo, measured, requiredContentObjects, reports, seen>>

Duplicates ==
  \E i, j \in DOMAIN requiredContentObjects :
    i # j /\ requiredContentObjects[i] = requiredContentObjects[j]

(* GetContentObjects.  A packed source cannot take a content twice (a key  *)
(* of a temporary table; the destructor of the statement ends the process) *)
(* and passes over contents it does not have; a deployed one makes a path  *)
(* of a null pointer then.  An error of the transfer gets lost.            *)
FetchDies ==
  /\ pc = "exists" /\ todo = <<>> /\ restore
  /\ IF source.packed
       THEN Duplicates
       ELSE \E i \in DOMAIN requiredContentObjects :
              requiredContentObjects[i] \notin source.contents
  /\ Stop("died")
  /\ UNCHANGED <<fileVars, callVars, todo, measured, requiredContentObjects, reports, seen>>

(* The contents arrive, and are looked up in a map that nothing fills.     *)
Fetch ==
  /\ pc = "exists" /\ todo = <<>> /\ restore
  /\ ~source.packed =>
       \A i \in DOMAIN requiredContentObjects :
         requiredContentObjects[i] \in source.contents
  /\ source.packed => ~Duplicates
  /\ Stop("ok")
  /\ UNCHANGED <<fileVars, callVars, todo, measured, requiredContentObjects, reports, seen>>

(* A query fails, or the source: nothing is changed, the call returns an   *)
(* error.                                                                  *)
Fail ==
  /\ pc = "exists"
  /\ Stop("error")
  /\ UNCHANGED <<fileVars, callVars, todo, measured, requiredContentObjects, reports, seen>>

(* Another process deletes, changes or puts back a file.                   *)
Change ==
  /\ changes < MaxChanges /\ changes' = changes + 1
  /\ \E p \in DOMAIN files : \E image \in Damaged(p) \cup {Original(p)} :
       /\ image # disk[p]
       /\ disk' = [disk EXCEPT ![p] = image]
       /\ seen' = IF pc \in {"stat", "hash"} /\ p = Row THEN seen \cup {image} ELSE seen
  /\ disturbed' = TRUE
  /\ UNCHANGED <<callVars, pc, todo, measured, requiredContentObjects, reports, outcome>>

Finished ==
  /\ pc = "idle" /\ (calls = MaxCalls \/ outcome \in {"died", "assertion"})
  /\ UNCHANGED vars

Init ==
  /\ files \in Databases
  /\ objects \in {os \in SUBSET Contents : Recorded \subseteq os}
  /\ disk = [p \in DOMAIN files |-> Original(p)]
  /\ debug \in BOOLEAN
  /\ restore = FALSE /\ source = [packed |-> TRUE, contents |-> {}]
  /\ pc = "idle" /\ todo = <<>> /\ measured = 0
  /\ requiredContentObjects = <<>> /\ reports = <<>> /\ seen = {}
  /\ disturbed = FALSE /\ outcome = "none" /\ calls = 0 /\ changes = 0

Step == Exists \/ Measure \/ Hash \/ HashFails \/ Verified \/ FetchDies \/ Fetch

Next ==
  \/ \E restoring \in BOOLEAN : RepairImpl(restoring)
  \/ Step \/ Fail \/ Change \/ Finished

Spec == Init /\ [][Next]_vars

-----------------------------------------------------------------------------
Verdict == {"Ok", "Missing", "Corrupted"}

RepairTypeOK ==
  /\ files \in Databases
  /\ objects \subseteq Contents /\ Recorded \subseteq objects
  /\ disk \in [DOMAIN files -> Image \cup {Absent}]
  /\ debug \in BOOLEAN /\ restore \in BOOLEAN /\ disturbed \in BOOLEAN
  /\ source.packed \in BOOLEAN /\ source.contents \subseteq Contents
  /\ pc \in {"idle", "exists", "stat", "hash"}
  /\ todo \in Seq(Paths) /\ (pc \in {"stat", "hash"} => todo # <<>>)
  /\ requiredContentObjects \in Seq(Contents)
  /\ reports \in Seq([path : Paths, result : Verdict, seen : SUBSET (Image \cup {Absent})])
  /\ Len(todo) + Len(reports) + Len(requiredContentObjects)
       = IF calls = 0 THEN 0 ELSE Cardinality(DOMAIN files)
  /\ outcome \in {"none", "ok", "error", "died", "assertion"}
  /\ calls \in 0..MaxCalls /\ changes \in 0..MaxChanges

(***************************************************************************)
(* However files change while they are looked at, each report was true of  *)
(* the file at some moment of its turn (DeployedRepository.cpp:95-144).    *)
(* Two exceptions, both about files without bytes: Repair does not compare *)
(* their size, and the size of one that is deleted before Stat is not      *)
(* known.                                                                  *)
(***************************************************************************)
ReportsTrue ==
  \A i \in DOMAIN reports :
    LET r == reports[i] IN
    /\ r.result = "Missing" => Absent \in r.seen
    /\ r.result = "Corrupted" => \E image \in r.seen : ~Sound(r.path, image)
    /\ r.result = "Ok" =>
         \/ \E image \in r.seen : Sound(r.path, image)
         \/ Size[files[r.path]] = 0 /\ (restore \/ Absent \in r.seen)

(***************************************************************************)
(* A Verify that nobody disturbs and that returns has reported each file   *)
(* once and called exactly the sound ones so: kcl validate can trust its   *)
(* count of errors (main.cpp:204).                                         *)
(***************************************************************************)
VerifyFindsDamage ==
  (pc = "idle" /\ outcome = "ok" /\ ~restore /\ ~disturbed) =>
    \A p \in DOMAIN files :
      /\ Cardinality({i \in DOMAIN reports : reports[i].path = p}) = 1
      /\ \A i \in DOMAIN reports : reports[i].path = p =>
           (reports[i].result = "Ok" <=> Sound(p, disk[p]))

(***************************************************************************)
(* What can end the process.  The assertion on the progress fails only in  *)
(* databases where two files share a content, and debug builds only, and   *)
(* always if there are more files than rows of fs_contents                 *)
(* (DeployedRepository.cpp:78-87, Repository.h:65).  Otherwise it is a     *)
(* file that could not be opened, or a Repair of two files with the same   *)
(* content, or of one the source does not have.                            *)
(***************************************************************************)
DeathsExplained ==
  /\ outcome = "assertion" =>
       debug /\ \E p, q \in DOMAIN files : p # q /\ files[p] = files[q]
  /\ (outcome = "ok" /\ debug) => Cardinality(DOMAIN files) <= Cardinality(objects)
  /\ outcome = "died" =>
       \/ todo # <<>> /\ \E image \in seen : ~image.readable
       \/ restore /\ (Duplicates \/ source.contents = {})

(***************************************************************************)
(* src/src/base/inc/Repository.h:65: "assert (current_ <= target_);"       *)
(***************************************************************************)
ProgressWithinTarget == outcome # "assertion"

(***************************************************************************)
(* src/doc/source/index.rst:29: "Installations can be validated and        *)
(* repaired if they ever get corrupted."                                   *)
(***************************************************************************)
RepairRestores ==
  (pc = "idle" /\ outcome = "ok" /\ restore /\ ~disturbed /\ source.contents = Recorded)
    => \A p \in DOMAIN files : Sound(p, disk[p])
=============================================================================
