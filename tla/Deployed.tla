------------------------------ MODULE Deployed ------------------------------
(***************************************************************************)
(* DeployedRepository::ConfigureImpl: the installed files and the database *)
(* that tracks them, brought to the selection of features the caller wants *)
(* from a source repository, in seven phases.                              *)
(*                                                                         *)
(* Some statements commit on their own, some run in a transaction, and the *)
(* files on disk are outside of both: "db" is what a statement sees, and   *)
(* "saved" is what is left of it after a crash.  A step is one statement   *)
(* or one file operation; inside a transaction, where a crash in between   *)
(* leaves the same, a file and its row share a step.  Rows are taken in    *)
(* any order.  A row is named by its Uuid, Hash, or Path; the integer ids  *)
(* that stand for them in other tables are not modelled.                   *)
(***************************************************************************)
EXTENDS Integers, Functions

CONSTANTS
  Paths, Contents, Features,
  NoParent,                \* NULL in features.ParentId
  Size,                    \* bytes of each content
  Staged,                  \* contents of several chunks
  Sources,                 \* the packed repositories to configure from
  WritesMayFail            \* open or write may fail; File tells nobody

(* The functions that map some of the members of S to members of T.        *)
PartialMaps(S, T) == UNION {[D -> T] : D \in SUBSET S}

(* A row of fs_files, and a file on disk: the content it begins with and   *)
(* its length, which is that of an older file when it shows behind it.     *)
Row == [content : Contents, feature : Features]
Image == [content : Contents, length : {Size[c] : c \in Contents}]

(* features maps each feature to its parent, files each path to its row.   *)
Database ==
  [features : PartialMaps(Features, Features \cup {NoParent}),
   contents : SUBSET Contents,
   files : PartialMaps(Paths, Row)]

(* The builder stores files and parents of features it has stored.         *)
IsSource(s) ==
  /\ s.features \in PartialMaps(Features, DOMAIN s.features \cup {NoParent})
  /\ s.files \in PartialMaps(Paths, [content : Contents,
                                    feature : DOMAIN s.features])

(* No two features of a source have a file in common.                      *)
SharesNothing(s) ==
  \A p, q \in DOMAIN s.files :
    s.files[p].content = s.files[q].content
      => s.files[p].feature = s.files[q].feature

ASSUME DeployedAssumption ==
  /\ NoParent \notin Features
  /\ Size \in [Contents -> Nat]
  /\ Staged \subseteq Contents
  /\ WritesMayFail \in BOOLEAN
  /\ \A s \in Sources : IsSource(s)

VARIABLES
  db,                      \* k.db, seen from the connection of Configure
  saved,                   \* k.db as of the last commit
  disk,                    \* the files below the target directory
  source,                  \* the attached copy of the source's database
  pending,                 \* pending_features
  pc,                      \* the phase Configure is in
  todo,                    \* requested contents that have not arrived
  targets,                 \* paths left in the loop over them
  doomed,                  \* the path whose row is gone and whose file is not
  result                   \* how the last Configure ended

store == <<db, saved, disk>>
job == <<source, pending>>
loop == <<todo, targets, doomed>>
vars == <<store, job, pc, loop, result>>

Goto(label) == pc' = label

(* A statement outside of a transaction.                                   *)
Autocommit(new) == db' = new /\ saved' = new

-----------------------------------------------------------------------------
(* Queries.  "d" is a state of the database.                               *)

TrackedPaths(d) == DOMAIN d.files

Unreferenced(d) ==
  {c \in d.contents : \A p \in TrackedPaths(d) : d.files[p].content # c}

WithoutUnreferenced(d) == [d EXCEPT !.contents = @ \ Unreferenced(d)]

WithoutRow(d, p) ==
  [d EXCEPT !.files = Restrict(@, DOMAIN @ \ {p})]

(* Files of the source that belong to a pending feature.                   *)
PendingPaths == {p \in DOMAIN source.files : source.files[p].feature \in pending}

(* pending_changed_files                                                   *)
ChangedPaths(d) ==
  {p \in PendingPaths \cap TrackedPaths(d) :
     d.files[p].content # source.files[p].content}

(* requested_content_objects                                               *)
RequestedContents(d) ==
  {source.files[p].content : p \in PendingPaths} \ d.contents

(* Mutant: the content is written to every path of the source.             *)
MutantAllTargets(c) == DOMAIN source.files

(* Every file of the source with this content, in a pending feature or not. *)
TargetPaths(c) == {p \in DOMAIN source.files : source.files[p].content = c}

(* The files CopyExistingFiles finds missing.                              *)
MissingPaths(d) == PendingPaths \ TrackedPaths(d)

Exemplars(d, p) ==
  {q \in TrackedPaths(d) : d.files[q].content = source.files[p].content}

(* Files whose feature is not among the pending features of this database. *)
UnusedPaths(d) ==
  {p \in TrackedPaths(d) :
     d.files[p].feature \notin DOMAIN d.features \cap pending}

(* Mutant: a LEFT JOIN, which gives NULL for a feature not installed.      *)
MutantLeftJoin(d, p) ==
  LET r == source.files[p] IN
  {IF r.feature \in DOMAIN d.features THEN r ELSE [r EXCEPT !.feature = NoParent]}

(* PrepareInsertFileQuery: what the joins give to insert for a path, none   *)
(* when the feature that owns it in the source is not installed.           *)
InsertedRows(d, p) ==
  {source.files[p]} \cap [content : Contents, feature : DOMAIN d.features]

(* fs_files.Path is the primary key.                                       *)
Conflicts(d, p) == InsertedRows(d, p) # {} /\ p \in TrackedPaths(d)

WithRowFor(d, p) ==
  IF InsertedRows(d, p) = {} THEN d
  ELSE [d EXCEPT !.files =
          [q \in DOMAIN @ \cup {p} |->
             IF q = p THEN CHOOSE r \in InsertedRows(d, p) : TRUE ELSE @[q]]]

WithSourceFeatures(d) ==
  LET new == (DOMAIN source.features \cap pending) \ DOMAIN d.features IN
  [d EXCEPT !.features =
     [f \in DOMAIN @ \cup new |-> IF f \in new THEN NoParent ELSE @[f]]]

(* A parent that is not installed becomes NULL.                            *)
WithSourceParents(d) ==
  [d EXCEPT !.features =
     [f \in DOMAIN @ |->
        IF f \notin DOMAIN source.features THEN @[f]
        ELSE IF source.features[f] \in DOMAIN @ THEN source.features[f]
        ELSE NoParent]]

WithFeature(d, p, f) == [d EXCEPT !.files[p].feature = f]

WithPendingFeatures(d) ==
  [d EXCEPT !.features = Restrict(@, DOMAIN @ \cap pending)]

-----------------------------------------------------------------------------
(* How Configure ends                                                      *)

(* The process dies: memory, open transactions, and locks are gone.        *)
Die ==
  /\ db' = saved
  /\ Goto("idle")
  /\ result' = "died"
  /\ targets' = {} /\ doomed' = {}
  /\ UNCHANGED <<saved, job, todo>>

(* An exception leaves Configure.  Transactions roll back, but the source  *)
(* stays attached to this connection.                                      *)
Throw ==
  /\ db' = saved
  /\ Goto("failed")
  /\ result' = "error"
  /\ targets' = {} /\ doomed' = {}
  /\ UNCHANGED <<saved, job, todo>>

Crash == pc # "idle" /\ Die /\ UNCHANGED disk

(* A second Configure on this handle cleans up and then fails to attach.   *)
ConfigureAgain ==
  /\ pc = "failed"
  /\ Autocommit(WithoutUnreferenced(db))
  /\ UNCHANGED <<disk, job, pc, loop, result>>

Reopen ==
  /\ pc = "failed"
  /\ Goto("idle")
  /\ UNCHANGED <<store, job, loop, result>>

-----------------------------------------------------------------------------
(* ConfigureImpl up to the first phase                                     *)

Start ==
  /\ pc = "idle"
  /\ Autocommit(WithoutUnreferenced(db))
  /\ source' \in Sources
  /\ pending' \in SUBSET Features
  /\ Goto("simulate")
  /\ result' = "running"
  /\ todo' = {}
  /\ UNCHANGED <<disk, targets, doomed>>

(* The simulated RemoveChangedFiles deletes the first changed row only.    *)
SimulatedRemovals ==
  LET d == WithSourceFeatures(db) IN
  {WithoutUnreferenced(e) :
     e \in IF ChangedPaths(d) = {} THEN {d}
           ELSE {WithoutRow(d, p) : p \in ChangedPaths(d)}}

(* The simulated GetContent inserts a row for every target of a content.   *)
SimulationConflicts(d) ==
  \E c \in RequestedContents(d) : \E p \in TargetPaths(c) : Conflicts(d, p)

(* All phases run in a transaction that is rolled back.  A conflict ends   *)
(* the process: the destructor of the statement throws once more while the *)
(* exception passes.                                                       *)
Simulate ==
  /\ pc = "simulate"
  /\ \E d \in SimulatedRemovals :
       IF SimulationConflicts(d)
         THEN Die
         ELSE /\ Goto("insertFeatures")
              /\ UNCHANGED <<db, saved, job, loop, result>>
  /\ UNCHANGED disk

-----------------------------------------------------------------------------
(* UpdateFeatures.  PreparePendingFeatures has filled "pending".           *)

InsertFeatures ==
  /\ pc = "insertFeatures"
  /\ Autocommit(WithSourceFeatures(db))
  /\ Goto("updateParents")
  /\ UNCHANGED <<disk, job, loop, result>>

UpdateParents ==
  /\ pc = "updateParents"
  /\ Autocommit(WithSourceParents(db))
  /\ Goto("updateFileFeatures")
  /\ UNCHANGED <<disk, job, loop, result>>

(* UpdateFeatureIdsForExistingFiles: temp_file_path_to_new_id has the      *)
(* installed paths whose content occurs in the source, with the feature    *)
(* that owns the path in the source.                                       *)
NewFeatureRows ==
  {p \in TrackedPaths(db) \cap DOMAIN source.files :
     /\ TargetPaths(db.files[p].content) # {}
     /\ source.files[p].feature \in DOMAIN db.features}

(* Neither subquery of the UPDATE refers to the row it updates: one path   *)
(* gets one feature, and the two come from the rows two scans meet first.  *)
UpdateFileFeatures ==
  /\ pc = "updateFileFeatures"
  /\ IF NewFeatureRows = {}
       THEN UNCHANGED <<db, saved>>
       ELSE \E p \in NewFeatureRows, q \in NewFeatureRows :
              Autocommit(WithFeature(db, p, source.files[q].feature))
  /\ Goto("removeChanged")
  /\ targets' = ChangedPaths(db')
  /\ UNCHANGED <<disk, job, todo, doomed, result>>

-----------------------------------------------------------------------------
(* RemoveChangedFiles                                                      *)

(* Mutant: the rows are deleted in a transaction.                          *)
MutantDropInTransaction(p) ==
  /\ db' = WithoutRow(db, p) /\ UNCHANGED saved
  /\ doomed' = {p}
  /\ UNCHANGED <<disk, job, pc, todo, result>>

DropRow(p) ==
  /\ Autocommit(WithoutRow(db, p))
  /\ doomed' = {p}
  /\ UNCHANGED <<disk, job, pc, todo, result>>

DropChangedRow ==
  /\ pc = "removeChanged"
  /\ doomed = {}
  /\ \E p \in targets : DropRow(p) /\ targets' = targets \ {p}

(* The file of a dropped row goes, or std::filesystem::remove throws.      *)
RemoveFile ==
  /\ doomed # {}
  /\ \/ /\ disk' = Restrict(disk, DOMAIN disk \ doomed)
        /\ doomed' = {}
        /\ UNCHANGED <<db, saved, job, pc, todo, targets, result>>
     \/ Throw /\ UNCHANGED disk

ChangedRemoved ==
  /\ pc = "removeChanged"
  /\ doomed = {} /\ targets = {}
  /\ Autocommit(WithoutUnreferenced(db))
  /\ Goto("directories")
  /\ UNCHANGED <<disk, job, loop, result>>

-----------------------------------------------------------------------------
(* GetContent, in a transaction                                            *)

CommitTransaction == saved' = db /\ UNCHANGED db

CreateDirectories ==
  /\ pc = "directories"
  /\ UNCHANGED disk
  /\ \/ /\ todo' = RequestedContents(db)
        /\ Goto("fetch")
        /\ UNCHANGED <<db, saved, job, targets, doomed, result>>
     \/ Throw

(* The last chunk of a content arrives.                                    *)
ReceiveContent ==
  /\ pc = "fetch"
  /\ \E c \in todo :
       /\ db' = [db EXCEPT !.contents = @ \cup {c}]
       /\ todo' = todo \ {c}
       /\ targets' = TargetPaths(c)
  /\ Goto("write")
  /\ UNCHANGED <<saved, disk, job, doomed, result>>

(* The transfer is over, or an exception in it has been lost on the way    *)
(* back from GetContentObjects (see Pipeline).                             *)
EndTransfer ==
  /\ CommitTransaction
  /\ Goto("copy")
  /\ targets' = MissingPaths(db)

(* CreateFile opens without truncation; a staging file replaces its first  *)
(* target and is copied to the others.                                     *)
Written(p) ==
  LET c == source.files[p].content
      old == IF p \in DOMAIN disk /\ c \notin Staged THEN disk[p].length ELSE 0
  IN [content |-> c, length |-> IF old > Size[c] THEN old ELSE Size[c]]

WithFile(p, image) ==
  [q \in DOMAIN disk \cup {p} |-> IF q = p THEN image ELSE disk[q]]

FirstTarget(c) == targets = TargetPaths(c)

(* A lost write looks like one that was done, unless the file is staged:   *)
(* rename and copy_file throw, the latter for a file in its way as well.   *)
WriteFile(p) ==
  LET c == source.files[p].content IN
  \/ /\ c \in Staged => FirstTarget(c) \/ p \notin DOMAIN disk
     /\ disk' = WithFile(p, Written(p))
  \/ /\ WritesMayFail /\ c \notin Staged
     /\ UNCHANGED disk

WriteThrows ==
  /\ pc = "write"
  /\ \E p \in targets : source.files[p].content \in Staged
  /\ EndTransfer
  /\ UNCHANGED <<disk, job, todo, doomed, result>>

InsertFile(p) ==
  /\ ~Conflicts(db, p)
  /\ db' = WithRowFor(db, p)
  /\ targets' = targets \ {p}
  /\ UNCHANGED <<saved, pc, result>>

(* A conflict ends the transfer with an exception, what there is gets      *)
(* committed, and the destructor of the statement ends the process.        *)
InsertConflicts(p) ==
  /\ Conflicts(db, p)
  /\ CommitTransaction
  /\ Goto("idle") /\ result' = "died"
  /\ targets' = {}

WriteTarget ==
  /\ pc = "write"
  /\ \E p \in targets : WriteFile(p) /\ (InsertFile(p) \/ InsertConflicts(p))
  /\ UNCHANGED <<job, todo, doomed>>

(* Once more than TransactionDataSize is written there is a commit.        *)
ContentDone ==
  /\ pc = "write"
  /\ targets = {}
  /\ UNCHANGED saved \/ saved' = db
  /\ Goto("fetch")
  /\ UNCHANGED <<db, disk, job, loop, result>>

(* All contents arrived, or the source failed before they did.             *)
TransferEnds ==
  /\ pc = "fetch"
  /\ EndTransfer
  /\ UNCHANGED <<disk, job, todo, doomed, result>>

-----------------------------------------------------------------------------
(* CopyExistingFiles, in a transaction that commits nothing: the row for   *)
(* the copy is bound to the statement, which is never stepped.             *)

CopyFile ==
  /\ pc = "copy"
  /\ \E p \in targets : \E q \in Exemplars(db, p) :
       IF p \notin DOMAIN disk /\ q \in DOMAIN disk
         THEN /\ disk' = WithFile(p, disk[q])
              /\ targets' = targets \ {p}
              /\ UNCHANGED <<db, saved, job, pc, todo, doomed, result>>
         ELSE Throw /\ UNCHANGED disk

CopyFails ==
  /\ pc = "copy"
  /\ \E p \in targets : Exemplars(db, p) # {}
  /\ Throw
  /\ UNCHANGED disk

(* Mutant: a missing exemplar is passed over.                              *)
MutantSkipMissing ==
  /\ pc = "copy"
  /\ \E p \in targets : Exemplars(db, p) = {} /\ targets' = targets \ {p}
  /\ UNCHANGED <<store, job, pc, todo, doomed, result>>

(* Without an exemplar a path is made from a null pointer.                 *)
NoExemplar ==
  /\ pc = "copy"
  /\ \E p \in targets : Exemplars(db, p) = {}
  /\ Die
  /\ UNCHANGED disk

CopyDone ==
  /\ pc = "copy"
  /\ targets = {}
  /\ CommitTransaction
  /\ Goto("cleanup")
  /\ UNCHANGED <<disk, job, loop, result>>

-----------------------------------------------------------------------------
(* Cleanup: files, features, contents.                                     *)

(* Mutant: the row of the unused file stays.                               *)
MutantKeepUnusedRow ==
  /\ pc = "cleanup"
  /\ doomed = {}
  /\ \E p \in UnusedPaths(db) : doomed' = {p}
  /\ UNCHANGED <<store, job, pc, todo, targets, result>>

DropUnusedRow ==
  /\ pc = "cleanup"
  /\ doomed = {}
  /\ \E p \in UnusedPaths(db) : DropRow(p)
  /\ UNCHANGED targets

(* Mutant: features that still have files may go.                          *)
MutantFeaturesFirst ==
  /\ pc = "cleanup"
  /\ doomed = {}
  /\ Autocommit(WithPendingFeatures(db))
  /\ Goto("cleanupContents")
  /\ UNCHANGED <<disk, job, loop, result>>

DropFeatures ==
  /\ pc = "cleanup"
  /\ doomed = {} /\ UnusedPaths(db) = {}
  /\ Autocommit(WithPendingFeatures(db))
  /\ Goto("cleanupContents")
  /\ UNCHANGED <<disk, job, loop, result>>

(* Unreferenced contents go, the source is detached, Configure returns.    *)
Finish ==
  /\ pc = "cleanupContents"
  /\ Autocommit(WithoutUnreferenced(db))
  /\ Goto("idle")
  /\ result' = "ok"
  /\ UNCHANGED <<disk, job, loop>>

-----------------------------------------------------------------------------
Nothing == [x \in {} |-> x]

EmptyDatabase == [features |-> Nothing, contents |-> {}, files |-> Nothing]

(* CreateFrom has just made the directory and an empty k.db.               *)
Init ==
  /\ db = EmptyDatabase
  /\ saved = EmptyDatabase
  /\ disk = Nothing
  /\ source \in Sources
  /\ pending = {}
  /\ pc = "idle"
  /\ todo = {} /\ targets = {} /\ doomed = {}
  /\ result = "none"

Work ==
  \/ Simulate
  \/ InsertFeatures
  \/ UpdateParents
  \/ UpdateFileFeatures
  \/ DropChangedRow
  \/ RemoveFile
  \/ ChangedRemoved
  \/ CreateDirectories
  \/ ReceiveContent
  \/ WriteTarget
  \/ WriteThrows
  \/ ContentDone
  \/ TransferEnds
  \/ CopyFile
  \/ CopyFails
  \/ NoExemplar
  \/ CopyDone
  \/ DropUnusedRow
  \/ DropFeatures
  \/ Finish

Next ==
  \/ Start
  \/ Work
  \/ Crash
  \/ ConfigureAgain
  \/ Reopen

Spec == Init /\ [][Next]_vars

(* A Configure that has started keeps running.                             *)
FairSpec == Spec /\ WF_vars(Work)

(* Nothing fails: no crash, no exception, and every transfer is complete.  *)
CalmNext ==
  /\ Start \/ Work
  /\ pc' # "failed"
  /\ pc' = "copy" /\ pc # "copy" => todo = {} /\ targets = {}

CalmSpec == Init /\ [][CalmNext]_vars
-----------------------------------------------------------------------------
(* Properties                                                              *)

Labels == {"idle", "failed", "simulate", "insertFeatures", "updateParents",
           "updateFileFeatures", "removeChanged", "directories", "fetch",
           "write", "copy", "cleanup", "cleanupContents"}

(* Types of the variables.  A row of fs_files has a path, a content, and a *)
(* feature that is never NULL, and the loops take paths of the source.     *)
TypeOK ==
  /\ db \in Database /\ saved \in Database
  /\ disk \in PartialMaps(Paths, Image)
  /\ source \in Sources
  /\ pending \subseteq Features
  /\ pc \in Labels
  /\ todo \subseteq Contents
  /\ targets \subseteq DOMAIN source.files
  /\ doomed \subseteq Paths
  /\ result \in {"none", "running", "ok", "error", "died"}

Resolves(d) ==
  \A p \in TrackedPaths(d) :
    /\ d.files[p].content \in d.contents
    /\ d.files[p].feature \in DOMAIN d.features

(* The order files, features, contents keeps referential integrity at all  *)
(* times: no row of fs_files names a content or a feature that is gone,    *)
(* not in the middle of a Configure and not after a crash.                 *)
ReferencesResolve == Resolves(db) /\ Resolves(saved)

(* Whatever a crash, an exception, or a lost transaction leaves behind, a  *)
(* file the database knows of is there: rows go before their files and     *)
(* come after them.                                                        *)
RowsHaveFiles == TrackedPaths(saved) \subseteq DOMAIN disk

(* ... and it begins with the content of its row, unless features share    *)
(* contents: a file in use is never written over.                          *)
RowsHoldContent ==
  \A p \in TrackedPaths(saved) :
    p \in DOMAIN disk => disk[p].content = saved.files[p].content

(* Although the failure of a transfer gets lost in GetContentObjects, a    *)
(* Configure that lacks a content it asked for does not report success.    *)
NoSilentPartialInstall == result = "ok" => todo = {}

(* Configure comes to an end, by itself or with the process.               *)
ConfigureEnds == pc \notin {"idle", "failed"} ~> pc \in {"idle", "failed"}

(* What a comment says of UpdateFileFeatures: a file with the path and the *)
(* content of one in the source belongs to that one's feature.             *)
KeptFilesFollowFeature ==
  pc = "removeChanged" =>
    \A p \in TrackedPaths(db) \cap DOMAIN source.files :
      /\ db.files[p].content = source.files[p].content
      /\ source.files[p].feature \in DOMAIN db.features
      => db.files[p].feature = source.files[p].feature

(* What a comment says of CopyExistingFiles: it takes care of every file   *)
(* of a pending feature that is not present in the database yet.           *)
CopiesRecorded == pc = "cleanup" => MissingPaths(db) = {}

(* What a comment says of Cleanup, for features: a parent is a feature.    *)
ParentsResolve ==
  \A f \in DOMAIN saved.features :
    saved.features[f] \in DOMAIN saved.features \cup {NoParent}

(* What a comment says of the start of Configure, for files: it can go on   *)
(* with what a partial uninstall has left, and no older file shows behind  *)
(* a newer one.                                                            *)
LeftoversReplaced ==
  \A p \in TrackedPaths(saved) \cap DOMAIN disk :
    disk[p].length = Size[disk[p].content]

(* What howto.rst says of updates: one is a Configure from the new version.*)
SimulationSurvives == [][Simulate => pc' # "idle"]_vars
=============================================================================
