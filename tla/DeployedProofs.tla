--------------------------- MODULE DeployedProofs ---------------------------
(***************************************************************************)
(* Proofs about Deployed, for any paths, contents, features, and sources:  *)
(* the types, the referential integrity of the database at all times, that *)
(* a file the database knows of exists and has its content, and that no    *)
(* Configure reports a success that lacks something.                       *)
(***************************************************************************)
EXTENDS Deployed, TLAPS

-----------------------------------------------------------------------------
(* Partial maps                                                            *)

(* A partial map is a function on some of the keys.                        *)
LEMMA PartialMapsDef ==
  ASSUME NEW S, NEW T, NEW f
  PROVE  f \in PartialMaps(S, T)
           <=> DOMAIN f \subseteq S /\ f \in [DOMAIN f -> T]
  BY DEF PartialMaps

(* The empty map.                                                          *)
LEMMA NothingIsPartial ==
  ASSUME NEW S, NEW T
  PROVE  Nothing \in PartialMaps(S, T) /\ DOMAIN Nothing = {}
  BY PartialMapsDef DEF Nothing

(* Fewer keys.                                                             *)
LEMMA RestrictPartial ==
  ASSUME NEW S, NEW T, NEW f \in PartialMaps(S, T),
         NEW D, D \subseteq DOMAIN f
  PROVE  /\ Restrict(f, D) \in PartialMaps(S, T)
         /\ DOMAIN Restrict(f, D) = D
         /\ \A x \in D : Restrict(f, D)[x] = f[x]
  BY PartialMapsDef DEF Restrict

-----------------------------------------------------------------------------
(* Databases                                                               *)

Good(d) == d \in Database /\ Resolves(d)

(* What a database is made of.                                             *)
LEMMA DatabaseDef ==
  ASSUME NEW d \in Database
  PROVE  /\ d.features \in PartialMaps(Features, Features \cup {NoParent})
         /\ d.contents \subseteq Contents
         /\ d.files \in PartialMaps(Paths, Row)
         /\ DOMAIN d.files \subseteq Paths
         /\ \A p \in DOMAIN d.files : d.files[p] \in Row
         /\ DOMAIN d.features \subseteq Features
         /\ \A f \in DOMAIN d.features :
              d.features[f] \in Features \cup {NoParent}
  BY PartialMapsDef DEF Database

(* The database CreateFrom makes.                                          *)
LEMMA EmptyGood == Good(EmptyDatabase) /\ TrackedPaths(EmptyDatabase) = {}
  BY NothingIsPartial
  DEF EmptyDatabase, Good, Database, Resolves, TrackedPaths

(* Sources have the files and features of a database.                      *)
LEMMA SourceFiles ==
  ASSUME source \in Sources, NEW p \in DOMAIN source.files
  PROVE  /\ p \in Paths
         /\ source.files[p] \in Row
         /\ source.files[p].content \in Contents
         /\ source.files[p].feature \in Features
         /\ source.files[p].feature \in DOMAIN source.features
<1>1. IsSource(source)
  BY DeployedAssumption
<1> DEFINE SourceRow == [content : Contents, feature : DOMAIN source.features]
<1>2. DOMAIN source.features \subseteq Features
  BY <1>1, PartialMapsDef DEF IsSource
<1>3. source.files \in PartialMaps(Paths, SourceRow)
  BY <1>1 DEF IsSource
<1> HIDE DEF SourceRow
<1>4. DOMAIN source.files \subseteq Paths /\ source.files[p] \in SourceRow
  BY <1>3, PartialMapsDef
<1> QED
  BY <1>2, <1>4 DEF Row, SourceRow

LEMMA SourceFeatures ==
  ASSUME source \in Sources
  PROVE  /\ DOMAIN source.features \subseteq Features
         /\ \A f \in DOMAIN source.features :
              source.features[f] \in Features \cup {NoParent}
<1>1. IsSource(source)
  BY DeployedAssumption
<1> QED
  BY <1>1, PartialMapsDef DEF IsSource

(* A content that some row names is not unreferenced.                      *)
LEMMA WithoutUnreferencedGood ==
  ASSUME NEW d, Good(d)
  PROVE  /\ Good(WithoutUnreferenced(d))
         /\ TrackedPaths(WithoutUnreferenced(d)) = TrackedPaths(d)
<1> DEFINE e == WithoutUnreferenced(d)
<1>1. d \in Database
  BY DEF Good
<1>2. /\ e \in Database /\ e.files = d.files /\ e.features = d.features
      /\ e.contents = d.contents \ Unreferenced(d)
  BY <1>1 DEF WithoutUnreferenced, Database
<1>3. Resolves(e)
  BY <1>2 DEF Good, Resolves, Unreferenced, TrackedPaths
<1> QED
  BY <1>2, <1>3 DEF Good, TrackedPaths

(* One row less.                                                           *)
LEMMA WithoutRowGood ==
  ASSUME NEW d, Good(d), NEW p
  PROVE  /\ Good(WithoutRow(d, p))
         /\ TrackedPaths(WithoutRow(d, p)) = TrackedPaths(d) \ {p}
<1> DEFINE e == WithoutRow(d, p)
           D == DOMAIN d.files \ {p}
<1>1. d \in Database /\ d.files \in PartialMaps(Paths, Row)
  BY DatabaseDef DEF Good
<1>2. /\ Restrict(d.files, D) \in PartialMaps(Paths, Row)
      /\ DOMAIN Restrict(d.files, D) = D
      /\ \A x \in D : Restrict(d.files, D)[x] = d.files[x]
  BY <1>1, RestrictPartial
<1>3. /\ e \in Database /\ e.files = Restrict(d.files, D)
      /\ e.features = d.features /\ e.contents = d.contents
  BY <1>1, <1>2 DEF WithoutRow, Database
<1>4. Resolves(e)
  BY <1>2, <1>3 DEF Good, Resolves, TrackedPaths
<1> QED
  BY <1>2, <1>3, <1>4 DEF Good, TrackedPaths

(* More features.                                                          *)
LEMMA WithSourceFeaturesGood ==
  ASSUME NEW d, Good(d), source \in Sources
  PROVE  /\ Good(WithSourceFeatures(d))
         /\ TrackedPaths(WithSourceFeatures(d)) = TrackedPaths(d)
<1> DEFINE e == WithSourceFeatures(d)
           new == (DOMAIN source.features \cap pending) \ DOMAIN d.features
           g == [f \in DOMAIN d.features \cup new |->
                   IF f \in new THEN NoParent ELSE d.features[f]]
<1>1. d \in Database
  BY DEF Good
<1>2. g \in PartialMaps(Features, Features \cup {NoParent})
  BY <1>1, DatabaseDef, SourceFeatures, PartialMapsDef
<1>3. /\ e \in Database /\ e.files = d.files /\ e.contents = d.contents
      /\ e.features = g
  BY <1>1, <1>2 DEF WithSourceFeatures, Database
<1>4. Resolves(e)
  BY <1>3 DEF Good, Resolves, TrackedPaths
<1> QED
  BY <1>3, <1>4 DEF Good, TrackedPaths

(* Other parents for the same features.                                    *)
LEMMA WithSourceParentsGood ==
  ASSUME NEW d, Good(d), source \in Sources
  PROVE  /\ Good(WithSourceParents(d))
         /\ TrackedPaths(WithSourceParents(d)) = TrackedPaths(d)
<1> DEFINE e == WithSourceParents(d)
           g == [f \in DOMAIN d.features |->
                   IF f \notin DOMAIN source.features THEN d.features[f]
                   ELSE IF source.features[f] \in DOMAIN d.features
                     THEN source.features[f]
                   ELSE NoParent]
<1>1. d \in Database
  BY DEF Good
<1>2. g \in PartialMaps(Features, Features \cup {NoParent})
  BY <1>1, DatabaseDef, SourceFeatures, PartialMapsDef
<1>3. /\ e \in Database /\ e.files = d.files /\ e.contents = d.contents
      /\ e.features = g
  BY <1>1, <1>2 DEF WithSourceParents, Database
<1>4. Resolves(e)
  BY <1>3 DEF Good, Resolves, TrackedPaths
<1> QED
  BY <1>3, <1>4 DEF Good, TrackedPaths

(* Another installed feature for one file.                                 *)
LEMMA WithFeatureGood ==
  ASSUME NEW d, Good(d), NEW p \in TrackedPaths(d), NEW f \in DOMAIN d.features
  PROVE  /\ Good(WithFeature(d, p, f))
         /\ TrackedPaths(WithFeature(d, p, f)) = TrackedPaths(d)
<1> DEFINE e == WithFeature(d, p, f)
           g == [d.files EXCEPT ![p].feature = f]
<1>1. d \in Database /\ f \in Features
  BY DatabaseDef DEF Good
<1>2. /\ DOMAIN g = DOMAIN d.files
      /\ \A q \in DOMAIN d.files \ {p} : g[q] = d.files[q]
      /\ g[p] = [d.files[p] EXCEPT !.feature = f]
  BY DEF TrackedPaths
<1>3. /\ g[p] \in Row
      /\ g[p].content = d.files[p].content /\ g[p].feature = f
  BY <1>1, <1>2, DatabaseDef DEF Row, TrackedPaths
<1>4. g \in PartialMaps(Paths, Row)
  <2>1. \A q \in DOMAIN g : g[q] \in Row
    BY <1>1, <1>2, <1>3, DatabaseDef
  <2>2. g = [q \in DOMAIN d.files |-> g[q]]
    OBVIOUS
  <2>3. g \in [DOMAIN g -> Row]
    BY <1>2, <2>1, <2>2
  <2> QED
    BY <1>1, <1>2, <2>3, DatabaseDef, PartialMapsDef
<1>5. /\ e \in Database /\ e.files = g /\ e.contents = d.contents
      /\ e.features = d.features
  BY <1>1, <1>4 DEF WithFeature, Database
<1>6. Resolves(e)
  BY <1>2, <1>3, <1>5 DEF Good, Resolves, TrackedPaths
<1> QED
  BY <1>2, <1>5, <1>6 DEF Good, TrackedPaths

(* The row of a file that has been written.                                *)
LEMMA WithRowForGood ==
  ASSUME NEW d, Good(d), source \in Sources, NEW p \in DOMAIN source.files,
         source.files[p].content \in d.contents
  PROVE  /\ Good(WithRowFor(d, p))
         /\ TrackedPaths(WithRowFor(d, p)) \subseteq TrackedPaths(d) \cup {p}
         /\ WithRowFor(d, p).contents = d.contents
<1> DEFINE e == WithRowFor(d, p)
           r == source.files[p]
           g == [q \in DOMAIN d.files \cup {p} |-> IF q = p THEN r ELSE d.files[q]]
<1>1. d \in Database
  BY DEF Good
<1>2. CASE InsertedRows(d, p) = {}
  BY <1>2 DEF WithRowFor
<1>3. CASE InsertedRows(d, p) # {}
  <2>1. /\ InsertedRows(d, p) = {r}
        /\ r.feature \in DOMAIN d.features
    BY <1>3 DEF InsertedRows
  <2>2. (CHOOSE x \in InsertedRows(d, p) : TRUE) = r
    BY <2>1
  <2>3. e = [d EXCEPT !.files = g]
    BY <1>3, <2>2 DEF WithRowFor
  <2>4. g \in PartialMaps(Paths, Row)
    BY <1>1, SourceFiles, DatabaseDef, PartialMapsDef
  <2>5. /\ e \in Database /\ e.files = g /\ e.contents = d.contents
        /\ e.features = d.features
    BY <1>1, <2>3, <2>4 DEF Database
  <2>6. Resolves(e)
    BY <2>1, <2>5 DEF Good, Resolves, TrackedPaths
  <2> QED
    BY <2>5, <2>6 DEF Good, TrackedPaths
<1> QED
  BY <1>2, <1>3

(* Features go when no file belongs to them.                               *)
LEMMA WithPendingFeaturesGood ==
  ASSUME NEW d, Good(d), UnusedPaths(d) = {}
  PROVE  /\ Good(WithPendingFeatures(d))
         /\ TrackedPaths(WithPendingFeatures(d)) = TrackedPaths(d)
<1> DEFINE e == WithPendingFeatures(d)
           D == DOMAIN d.features \cap pending
<1>1. d \in Database
      /\ d.features \in PartialMaps(Features, Features \cup {NoParent})
  BY DatabaseDef DEF Good
<1>2. /\ Restrict(d.features, D) \in PartialMaps(Features, Features \cup {NoParent})
      /\ DOMAIN Restrict(d.features, D) = D
  BY <1>1, RestrictPartial
<1>3. /\ e \in Database /\ e.files = d.files /\ e.contents = d.contents
      /\ DOMAIN e.features = D
  BY <1>1, <1>2 DEF WithPendingFeatures, Database
<1>4. Resolves(e)
  BY <1>3 DEF Good, Resolves, TrackedPaths, UnusedPaths
<1> QED
  BY <1>3, <1>4 DEF Good, TrackedPaths
-----------------------------------------------------------------------------
(* The types and the references                                            *)

(* Rows are written for contents that have their row already, and outside  *)
(* of the loops over paths there is no path left.                          *)
LoopsGood ==
  /\ targets \subseteq DOMAIN source.files
  /\ pc \notin {"removeChanged", "write", "copy"} => targets = {}
  /\ pc = "write" => \A p \in targets : source.files[p].content \in db.contents

OthersTyped ==
  /\ disk \in PartialMaps(Paths, Image)
  /\ source \in Sources
  /\ pending \subseteq Features
  /\ pc \in Labels
  /\ todo \subseteq Contents
  /\ doomed \subseteq Paths
  /\ result \in {"none", "running", "ok", "error", "died"}

IInv == Good(db) /\ Good(saved) /\ LoopsGood /\ OthersTyped

(* The invariant holds at first.                                           *)
LEMMA InitIInv == Init => IInv
<1> SUFFICES ASSUME Init PROVE IInv
  OBVIOUS
<1>1. Good(db) /\ Good(saved)
  BY EmptyGood DEF Init
<1>2. disk \in PartialMaps(Paths, Image)
  BY NothingIsPartial DEF Init
<1> QED
  BY <1>1, <1>2 DEF Init, IInv, LoopsGood, OthersTyped, Labels

(* What a dying process or an exception leaves.                            *)
LEMMA EndKeeps ==
  ASSUME IInv, Die \/ Throw, disk' = disk
  PROVE  IInv'
  BY DEF IInv, Die, Throw, Goto, job, LoopsGood, OthersTyped, Labels

(* A commit of something good.                                             *)
LEMMA AutocommitKeeps ==
  ASSUME NEW new, Good(new), Autocommit(new)
  PROVE  Good(db)' /\ Good(saved)'
  BY DEF Autocommit

(* A file more on disk.                                                    *)
LEMMA WithFileTyped ==
  ASSUME OthersTyped, NEW p \in Paths, NEW image \in Image
  PROVE  WithFile(p, image) \in PartialMaps(Paths, Image)
  BY PartialMapsDef DEF OthersTyped, WithFile

LEMMA WrittenTyped ==
  ASSUME OthersTyped, NEW p \in DOMAIN source.files
  PROVE  Written(p) \in Image
<1>1. source.files[p].content \in Contents
  BY SourceFiles DEF OthersTyped
<1>2. p \in DOMAIN disk => disk[p] \in Image
  BY PartialMapsDef DEF OthersTyped
<1>3. /\ Size[source.files[p].content] \in {Size[c] : c \in Contents}
      /\ p \in DOMAIN disk => disk[p].length \in {Size[c] : c \in Contents}
  BY <1>1, <1>2 DEF Image
<1>4. Size[source.files[p].content] \in Nat
  BY <1>1, DeployedAssumption
<1> QED
  BY <1>1, <1>3, <1>4 DEF Written, Image

(* No step breaks the invariant.                                           *)
LEMMA NextIInv == IInv /\ [Next]_vars => IInv'
<1> SUFFICES ASSUME IInv, [Next]_vars PROVE IInv'
  OBVIOUS
<1> USE DEF IInv
<1>0. source \in Sources /\ Good(db) /\ Good(saved) /\ db \in Database
  BY DEF OthersTyped, Good
<1>1. CASE Start
  <2>1. Good(WithoutUnreferenced(db))
    BY <1>0, WithoutUnreferencedGood
  <2>2. Good(db)' /\ Good(saved)'
    BY <1>1, <2>1, AutocommitKeeps DEF Start
  <2> QED
    BY <1>1, <2>2 DEF Start, Goto, LoopsGood, OthersTyped, Labels
<1>2. CASE Simulate
  <2>1. CASE Die
    BY <1>2, <2>1, EndKeeps DEF Simulate
  <2>2. CASE ~Die
    BY <1>2, <2>2 DEF Simulate, Goto, job, loop, LoopsGood, OthersTyped, Labels
  <2> QED
    BY <2>1, <2>2
<1>3. CASE InsertFeatures
  <2>1. Good(db)' /\ Good(saved)'
    BY <1>0, <1>3, WithSourceFeaturesGood, AutocommitKeeps DEF InsertFeatures
  <2> QED
    BY <1>3, <2>1
    DEF InsertFeatures, Goto, job, loop, LoopsGood, OthersTyped, Labels
<1>4. CASE UpdateParents
  <2>1. Good(db)' /\ Good(saved)'
    BY <1>0, <1>4, WithSourceParentsGood, AutocommitKeeps DEF UpdateParents
  <2> QED
    BY <1>4, <2>1
    DEF UpdateParents, Goto, job, loop, LoopsGood, OthersTyped, Labels
<1>5. CASE UpdateFileFeatures
  <2>1. Good(db)' /\ Good(saved)'
    <3>1. CASE NewFeatureRows = {}
      BY <1>0, <1>5, <3>1 DEF UpdateFileFeatures
    <3>2. CASE NewFeatureRows # {}
      <4>1. PICK p \in NewFeatureRows, q \in NewFeatureRows :
              Autocommit(WithFeature(db, p, source.files[q].feature))
        BY <1>5, <3>2 DEF UpdateFileFeatures
      <4>2. p \in TrackedPaths(db) /\ source.files[q].feature \in DOMAIN db.features
        BY DEF NewFeatureRows
      <4> QED
        BY <1>0, <4>1, <4>2, WithFeatureGood, AutocommitKeeps
    <3> QED
      BY <3>1, <3>2
  <2>2. targets' \subseteq DOMAIN source.files
    BY <1>5 DEF UpdateFileFeatures, ChangedPaths, PendingPaths
  <2> QED
    BY <1>5, <2>1, <2>2
    DEF UpdateFileFeatures, Goto, job, LoopsGood, OthersTyped, Labels
<1>6. CASE DropChangedRow
  <2>1. PICK p \in targets : DropRow(p) /\ targets' = targets \ {p}
    BY <1>6 DEF DropChangedRow
  <2>2. Good(db)' /\ Good(saved)'
    BY <1>0, <2>1, WithoutRowGood, AutocommitKeeps DEF DropRow
  <2>3. p \in Paths
    BY <1>0, SourceFiles DEF LoopsGood
  <2> QED
    BY <1>6, <2>1, <2>2, <2>3
    DEF DropChangedRow, DropRow, job, LoopsGood, OthersTyped, Labels
<1>7. CASE RemoveFile
  <2>1. CASE Throw /\ UNCHANGED disk
    BY <2>1, EndKeeps
  <2>2. CASE ~(Throw /\ UNCHANGED disk)
    <3>1. disk' \in PartialMaps(Paths, Image)
      BY <1>7, <2>2, RestrictPartial DEF RemoveFile, OthersTyped
    <3> QED
      BY <1>7, <2>2, <3>1 DEF RemoveFile, job, LoopsGood, OthersTyped
  <2> QED
    BY <2>1, <2>2
<1>8. CASE ChangedRemoved
  <2>1. Good(db)' /\ Good(saved)'
    BY <1>0, <1>8, WithoutUnreferencedGood, AutocommitKeeps DEF ChangedRemoved
  <2> QED
    BY <1>8, <2>1
    DEF ChangedRemoved, Goto, job, loop, LoopsGood, OthersTyped, Labels
<1>9. CASE CreateDirectories
  <2>1. CASE Throw
    BY <1>9, <2>1, EndKeeps DEF CreateDirectories
  <2>2. CASE ~Throw
    <3>1. RequestedContents(db) \subseteq Contents
      BY <1>0, SourceFiles DEF RequestedContents, PendingPaths
    <3> QED
      BY <1>9, <2>2, <3>1
      DEF CreateDirectories, Goto, job, LoopsGood, OthersTyped, Labels
  <2> QED
    BY <2>1, <2>2
<1>10. CASE ReceiveContent
  <2>1. PICK c \in todo : /\ db' = [db EXCEPT !.contents = @ \cup {c}]
                          /\ todo' = todo \ {c}
                          /\ targets' = TargetPaths(c)
    BY <1>10 DEF ReceiveContent
  <2>2. c \in Contents
    BY DEF OthersTyped
  <2>3. /\ db' \in Database /\ db'.files = db.files /\ c \in db'.contents
        /\ db'.features = db.features /\ db.contents \subseteq db'.contents
    BY <1>0, <2>1, <2>2 DEF Database
  <2>4. Good(db)'
    BY <1>0, <2>3 DEF Good, Resolves, TrackedPaths
  <2> QED
    BY <1>10, <2>1, <2>3, <2>4
    DEF ReceiveContent, Goto, job, TargetPaths, LoopsGood, OthersTyped, Labels
<1>11. CASE WriteTarget
  <2>1. PICK p \in targets : WriteFile(p) /\ (InsertFile(p) \/ InsertConflicts(p))
    BY <1>11 DEF WriteTarget
  <2>2. /\ p \in DOMAIN source.files /\ p \in Paths
        /\ source.files[p].content \in db.contents
    BY <1>0, <1>11, SourceFiles DEF LoopsGood, WriteTarget
  <2>3. disk' \in PartialMaps(Paths, Image)
    <3>1. Written(p) \in Image
      BY <2>2, WrittenTyped
    <3>2. WithFile(p, Written(p)) \in PartialMaps(Paths, Image)
      BY <2>2, <3>1, WithFileTyped
    <3> QED
      BY <2>1, <3>2 DEF WriteFile, OthersTyped
  <2>4. /\ Good(WithRowFor(db, p))
        /\ WithRowFor(db, p).contents = db.contents
    BY <1>0, <2>2, WithRowForGood
  <2>5. CASE InsertFile(p)
    BY <1>0, <1>11, <2>3, <2>4, <2>5
    DEF WriteTarget, InsertFile, job, LoopsGood, OthersTyped, Labels
  <2>6. CASE InsertConflicts(p)
    BY <1>0, <1>11, <2>3, <2>6
    DEF WriteTarget, InsertConflicts, CommitTransaction, Goto, job, LoopsGood,
        OthersTyped, Labels
  <2> QED
    BY <2>1, <2>5, <2>6
<1>12. MissingPaths(db) \subseteq DOMAIN source.files
  BY DEF MissingPaths, PendingPaths
<1>13. CASE WriteThrows \/ TransferEnds
  BY <1>12, <1>13
  DEF WriteThrows, TransferEnds, EndTransfer, CommitTransaction, Goto, job,
      LoopsGood, OthersTyped, Labels
<1>14. CASE ContentDone
  BY <1>14 DEF ContentDone, Goto, job, loop, LoopsGood, OthersTyped, Labels
<1>15. CASE CopyFile
  <2>1. PICK p \in targets : \E q \in Exemplars(db, p) :
          IF p \notin DOMAIN disk /\ q \in DOMAIN disk
            THEN /\ disk' = WithFile(p, disk[q])
                 /\ targets' = targets \ {p}
                 /\ UNCHANGED <<db, saved, job, pc, todo, doomed, result>>
            ELSE Throw /\ UNCHANGED disk
    BY <1>15 DEF CopyFile
  <2>2. CASE Throw /\ UNCHANGED disk
    BY <2>2, EndKeeps
  <2>3. CASE ~(Throw /\ UNCHANGED disk)
    <3>0. PICK q \in DOMAIN disk :
            /\ disk' = WithFile(p, disk[q])
            /\ targets' = targets \ {p}
            /\ UNCHANGED <<db, saved, job, pc, todo, doomed, result>>
      BY <2>1, <2>3
    <3>1. p \in Paths /\ disk[q] \in Image
      BY <1>0, <3>0, SourceFiles, PartialMapsDef DEF LoopsGood, OthersTyped
    <3>2. disk' \in PartialMaps(Paths, Image)
      BY <3>0, <3>1, WithFileTyped
    <3> QED
      BY <1>15, <3>0, <3>2 DEF CopyFile, job, LoopsGood, OthersTyped
  <2> QED
    BY <2>2, <2>3
<1>16. CASE CopyFails
  BY <1>16, EndKeeps DEF CopyFails
<1>17. CASE NoExemplar
  BY <1>17, EndKeeps DEF NoExemplar
<1>18. CASE CopyDone
  BY <1>18
  DEF CopyDone, CommitTransaction, Goto, job, loop, LoopsGood, OthersTyped, Labels
<1>19. CASE DropUnusedRow
  <2>1. PICK p \in UnusedPaths(db) : DropRow(p)
    BY <1>19 DEF DropUnusedRow
  <2>2. Good(db)' /\ Good(saved)'
    BY <1>0, <2>1, WithoutRowGood, AutocommitKeeps DEF DropRow
  <2>3. p \in Paths
    BY <1>0, DatabaseDef DEF UnusedPaths, TrackedPaths
  <2> QED
    BY <1>19, <2>1, <2>2, <2>3
    DEF DropUnusedRow, DropRow, job, LoopsGood, OthersTyped, Labels
<1>20. CASE DropFeatures
  <2>1. Good(db)' /\ Good(saved)'
    BY <1>0, <1>20, WithPendingFeaturesGood, AutocommitKeeps DEF DropFeatures
  <2> QED
    BY <1>20, <2>1
    DEF DropFeatures, Goto, job, loop, LoopsGood, OthersTyped, Labels
<1>21. CASE Finish
  <2>1. Good(db)' /\ Good(saved)'
    BY <1>0, <1>21, WithoutUnreferencedGood, AutocommitKeeps DEF Finish
  <2> QED
    BY <1>21, <2>1 DEF Finish, Goto, job, loop, LoopsGood, OthersTyped, Labels
<1>22. CASE Crash
  BY <1>22, EndKeeps DEF Crash
<1>23. CASE ConfigureAgain
  <2>1. Good(db)' /\ Good(saved)'
    BY <1>0, <1>23, WithoutUnreferencedGood, AutocommitKeeps DEF ConfigureAgain
  <2> QED
    BY <1>23, <2>1 DEF ConfigureAgain, job, loop, LoopsGood, OthersTyped
<1>24. CASE Reopen
  BY <1>24 DEF Reopen, Goto, store, job, loop, LoopsGood, OthersTyped, Labels
<1>25. CASE UNCHANGED vars
  BY <1>25 DEF vars, store, job, loop, LoopsGood, OthersTyped
<1> QED
  BY <1>1, <1>2, <1>3, <1>4, <1>5, <1>6, <1>7, <1>8, <1>9, <1>10, <1>11, <1>13,
     <1>14, <1>15, <1>16, <1>17, <1>18, <1>19, <1>20, <1>21, <1>22, <1>23,
     <1>24, <1>25
  DEF Next, Work

(* The invariant of Configure, crashes and failures included.              *)
THEOREM InductiveInvariant == Spec => []IInv
  BY InitIInv, NextIInv, PTL DEF Spec

(* Every variable keeps its type: no NULL gets into a row.                 *)
THEOREM TypeCorrect == Spec => []TypeOK
<1>1. IInv => TypeOK
  BY DEF IInv, Good, LoopsGood, OthersTyped, TypeOK
<1> QED
  BY <1>1, InductiveInvariant, PTL

(* The database keeps its referential integrity between any two statements *)
(* and after any crash.                                                    *)
THEOREM ReferencesCorrect == Spec => []ReferencesResolve
<1>1. IInv => ReferencesResolve
  BY DEF IInv, Good, ReferencesResolve
<1> QED
  BY <1>1, InductiveInvariant, PTL
-----------------------------------------------------------------------------
(* The files of the rows                                                   *)

FilesInv ==
  /\ TrackedPaths(db) \cup TrackedPaths(saved) \subseteq DOMAIN disk
  /\ doomed \cap (TrackedPaths(db) \cup TrackedPaths(saved)) = {}
  /\ doomed # {} => pc \in {"removeChanged", "cleanup"}

LEMMA InitFilesInv == Init => FilesInv
  BY EmptyGood DEF Init, FilesInv

LEMMA EndKeepsFiles ==
  ASSUME FilesInv, Die \/ Throw, disk' = disk
  PROVE  FilesInv'
  BY DEF FilesInv, Die, Throw, TrackedPaths

(* A commit that tracks no more paths than before.                         *)
LEMMA AutocommitKeepsFiles ==
  ASSUME FilesInv, NEW new, Autocommit(new),
         TrackedPaths(new) = TrackedPaths(db), UNCHANGED <<disk, doomed>>,
         doomed # {} => pc' \in {"removeChanged", "cleanup"}
  PROVE  FilesInv'
  BY DEF FilesInv, Autocommit, TrackedPaths

(* A row goes before its file.                                             *)
LEMMA DropRowKeepsFiles ==
  ASSUME FilesInv, NEW p, Good(db), DropRow(p),
         pc \in {"removeChanged", "cleanup"}
  PROVE  FilesInv'
<1>1. TrackedPaths(WithoutRow(db, p)) = TrackedPaths(db) \ {p}
  BY WithoutRowGood
<1> QED
  BY <1>1 DEF FilesInv, DropRow, Autocommit, TrackedPaths

LEMMA WithFileDomain ==
  ASSUME NEW p, NEW image
  PROVE  DOMAIN WithFile(p, image) = DOMAIN disk \cup {p}
  BY DEF WithFile

(* No step breaks the invariant, if what is written gets written.          *)
LEMMA NextFilesInv ==
  ASSUME ~WritesMayFail
  PROVE  IInv /\ FilesInv /\ [Next]_vars => FilesInv'
<1> SUFFICES ASSUME IInv, FilesInv, [Next]_vars PROVE FilesInv'
  OBVIOUS
<1>0. source \in Sources /\ Good(db) /\ Good(saved)
  BY DEF IInv, OthersTyped
<1>1. CASE Start \/ ChangedRemoved \/ Finish \/ ConfigureAgain
  <2>1. TrackedPaths(WithoutUnreferenced(db)) = TrackedPaths(db)
    BY <1>0, WithoutUnreferencedGood
  <2> QED
    BY <1>1, <2>1, AutocommitKeepsFiles
    DEF Start, ChangedRemoved, Finish, ConfigureAgain, Goto, loop, FilesInv
<1>2. CASE InsertFeatures
  <2>1. TrackedPaths(WithSourceFeatures(db)) = TrackedPaths(db)
    BY <1>0, WithSourceFeaturesGood
  <2> QED
    BY <1>2, <2>1, AutocommitKeepsFiles DEF InsertFeatures, Goto, loop, FilesInv
<1>3. CASE UpdateParents
  <2>1. TrackedPaths(WithSourceParents(db)) = TrackedPaths(db)
    BY <1>0, WithSourceParentsGood
  <2> QED
    BY <1>3, <2>1, AutocommitKeepsFiles DEF UpdateParents, Goto, loop, FilesInv
<1>4. CASE UpdateFileFeatures
  <2>1. CASE NewFeatureRows = {}
    BY <1>4, <2>1 DEF UpdateFileFeatures, Goto, FilesInv, TrackedPaths
  <2>2. CASE NewFeatureRows # {}
    <3>1. PICK p \in NewFeatureRows, q \in NewFeatureRows :
            Autocommit(WithFeature(db, p, source.files[q].feature))
      BY <1>4, <2>2 DEF UpdateFileFeatures
    <3>2. TrackedPaths(WithFeature(db, p, source.files[q].feature))
            = TrackedPaths(db)
      BY <1>0, WithFeatureGood DEF NewFeatureRows
    <3> QED
      BY <1>4, <3>1, <3>2, AutocommitKeepsFiles
      DEF UpdateFileFeatures, Goto, FilesInv
  <2> QED
    BY <2>1, <2>2
<1>5. CASE DropFeatures
  <2>1. TrackedPaths(WithPendingFeatures(db)) = TrackedPaths(db)
    BY <1>0, <1>5, WithPendingFeaturesGood DEF DropFeatures
  <2> QED
    BY <1>5, <2>1, AutocommitKeepsFiles DEF DropFeatures, Goto, loop, FilesInv
<1>6. CASE DropChangedRow \/ DropUnusedRow
  BY <1>0, <1>6, DropRowKeepsFiles DEF DropChangedRow, DropUnusedRow
<1>7. CASE RemoveFile
  <2>1. CASE Throw /\ UNCHANGED disk
    BY <2>1, EndKeepsFiles
  <2>2. CASE ~(Throw /\ UNCHANGED disk)
    <3>1. DOMAIN disk' = DOMAIN disk \ doomed
      BY <1>7, <2>2 DEF RemoveFile, Restrict
    <3> QED
      BY <1>7, <2>2, <3>1 DEF RemoveFile, FilesInv, TrackedPaths
  <2> QED
    BY <2>1, <2>2
<1>8. CASE ReceiveContent
  <2>1. TrackedPaths(db)' = TrackedPaths(db)
    BY <1>0, <1>8 DEF ReceiveContent, TrackedPaths, Good, Database
  <2> QED
    BY <1>8, <2>1 DEF ReceiveContent, FilesInv, TrackedPaths
<1>9. CASE WriteTarget
  <2>1. PICK p \in targets : WriteFile(p) /\ (InsertFile(p) \/ InsertConflicts(p))
    BY <1>9 DEF WriteTarget
  <2>2. DOMAIN disk' = DOMAIN disk \cup {p}
    BY <2>1, WithFileDomain DEF WriteFile
  <2>3. TrackedPaths(WithRowFor(db, p)) \subseteq TrackedPaths(db) \cup {p}
    <3>1. /\ p \in DOMAIN source.files
          /\ source.files[p].content \in db.contents
      BY <1>9 DEF IInv, LoopsGood, WriteTarget
    <3> QED
      BY <1>0, <3>1, WithRowForGood
  <2>4. /\ doomed = {} /\ doomed' = {}
        /\ TrackedPaths(db) \cup TrackedPaths(saved) \subseteq DOMAIN disk
    BY <1>9 DEF WriteTarget, FilesInv
  <2>5. TrackedPaths(db') \cup TrackedPaths(saved') \subseteq DOMAIN disk'
    BY <2>1, <2>2, <2>3, <2>4
    DEF InsertFile, InsertConflicts, CommitTransaction, TrackedPaths
  <2> QED
    BY <2>4, <2>5 DEF FilesInv, TrackedPaths
<1>10. CASE CopyFile
  <2>1. CASE Throw /\ UNCHANGED disk
    BY <2>1, EndKeepsFiles
  <2>2. CASE ~(Throw /\ UNCHANGED disk)
    <3>1. PICK p \in targets, q \in DOMAIN disk :
            /\ disk' = WithFile(p, disk[q])
            /\ UNCHANGED <<db, saved, pc, doomed>>
      BY <1>10, <2>2 DEF CopyFile
    <3>2. DOMAIN disk' = DOMAIN disk \cup {p}
      BY <3>1, WithFileDomain
    <3> QED
      BY <3>1, <3>2 DEF FilesInv, TrackedPaths
  <2> QED
    BY <2>1, <2>2
<1>11. CASE WriteThrows \/ TransferEnds \/ ContentDone \/ CopyDone
  BY <1>11
  DEF WriteThrows, TransferEnds, ContentDone, CopyDone, EndTransfer,
      CommitTransaction, Goto, loop, FilesInv, TrackedPaths
<1>12. CASE Simulate
  <2>1. CASE Die
    BY <1>12, <2>1, EndKeepsFiles DEF Simulate
  <2>2. CASE ~Die
    BY <1>12, <2>2 DEF Simulate, Goto, loop, FilesInv, TrackedPaths
  <2> QED
    BY <2>1, <2>2
<1>13. CASE CreateDirectories
  <2>1. CASE Throw
    BY <1>13, <2>1, EndKeepsFiles DEF CreateDirectories
  <2>2. CASE ~Throw
    BY <1>13, <2>2 DEF CreateDirectories, Goto, FilesInv, TrackedPaths
  <2> QED
    BY <2>1, <2>2
<1>14. CASE CopyFails \/ NoExemplar \/ Crash
  BY <1>14, EndKeepsFiles DEF CopyFails, NoExemplar, Crash
<1>15. CASE Reopen \/ UNCHANGED vars
  BY <1>15 DEF Reopen, Goto, vars, store, loop, FilesInv, TrackedPaths
<1> QED
  BY <1>1, <1>2, <1>3, <1>4, <1>5, <1>6, <1>7, <1>8, <1>9, <1>10, <1>11, <1>12,
     <1>13, <1>14, <1>15
  DEF Next, Work

(* On a host that reports failed writes or has none, a file the database   *)
(* knows of after a crash is there.                                        *)
THEOREM FilesPresent ==
  ASSUME ~WritesMayFail
  PROVE  Spec => []RowsHaveFiles
<1>1. FilesInv => RowsHaveFiles
  BY DEF FilesInv, RowsHaveFiles
<1>2. IInv /\ FilesInv /\ [Next]_vars => FilesInv'
  BY NextFilesInv
<1> QED
  BY <1>1, <1>2, InitFilesInv, InductiveInvariant, PTL DEF Spec
-----------------------------------------------------------------------------
(* The contents of the files                                               *)

(* The files on disk, k, begin with what the rows of d say.                *)
Holds(d, k) == \A p \in TrackedPaths(d) : k[p].content = d.files[p].content

(* The same paths with the same contents.                                  *)
SameContents(d, e) ==
  /\ TrackedPaths(e) = TrackedPaths(d)
  /\ \A p \in TrackedPaths(d) : e.files[p].content = d.files[p].content

HoldInv ==
  /\ Holds(db, disk) /\ Holds(saved, disk)
  /\ pc \notin {"fetch", "write"} => saved = db
  /\ TrackedPaths(saved) \subseteq TrackedPaths(db)
  /\ pc = "removeChanged" => ChangedPaths(db) \subseteq targets
  /\ pc = "directories" => ChangedPaths(db) = {}
  /\ pc \in {"fetch", "write"} =>
       \A c \in todo : TargetPaths(c) \cap TrackedPaths(db) = {}
  /\ pc = "write" => \A p \in targets : source.files[p].content \notin todo
  /\ pc \in {"write", "copy"} => targets \cap TrackedPaths(db) = {}

LEMMA InitHoldInv == Init => HoldInv
  BY EmptyGood DEF Init, HoldInv, Holds

(* The statements that leave paths and contents alone.                     *)
LEMMA SameContentsKept ==
  ASSUME NEW d \in Database
  PROVE  /\ SameContents(d, WithoutUnreferenced(d))
         /\ SameContents(d, WithSourceFeatures(d))
         /\ SameContents(d, WithSourceParents(d))
         /\ SameContents(d, WithPendingFeatures(d))
<1>1. WithoutUnreferenced(d).files = d.files
  BY DEF WithoutUnreferenced, Database
<1>2. WithSourceFeatures(d).files = d.files
  BY DEF WithSourceFeatures, Database
<1>3. WithSourceParents(d).files = d.files
  BY DEF WithSourceParents, Database
<1>4. WithPendingFeatures(d).files = d.files
  <2> DEFINE g == Restrict(d.features, DOMAIN d.features \cap pending)
  <2>1. WithPendingFeatures(d) = [d EXCEPT !.features = g]
    BY DEF WithPendingFeatures
  <2> HIDE DEF g
  <2> QED
    BY <2>1 DEF Database
<1> QED
  BY <1>1, <1>2, <1>3, <1>4 DEF SameContents, TrackedPaths

LEMMA WithFeatureSame ==
  ASSUME NEW d \in Database, NEW p \in TrackedPaths(d), NEW f
  PROVE  SameContents(d, WithFeature(d, p, f))
<1> DEFINE g == [d.files EXCEPT ![p].feature = f]
<1>1. WithFeature(d, p, f).files = g
  BY DEF WithFeature, Database
<1>2. d.files[p] \in Row
  BY DatabaseDef DEF TrackedPaths
<1>3. /\ DOMAIN g = DOMAIN d.files
      /\ \A q \in DOMAIN d.files : g[q].content = d.files[q].content
  BY <1>2 DEF Row
<1> QED
  BY <1>1, <1>3 DEF SameContents, TrackedPaths

LEMMA SameContentsSame ==
  ASSUME NEW d, NEW e, SameContents(d, e)
  PROVE  /\ \A k : Holds(d, k) => Holds(e, k)
         /\ ChangedPaths(e) = ChangedPaths(d)
  BY DEF SameContents, Holds, ChangedPaths

LEMMA EndKeepsHolding ==
  ASSUME HoldInv, Die \/ Throw, disk' = disk
  PROVE  HoldInv'
  BY DEF HoldInv, Die, Throw, Goto, Holds, TrackedPaths

(* A commit outside of the loops that leaves paths and contents alone.     *)
LEMMA AutocommitKeepsHolding ==
  ASSUME HoldInv, NEW new, Autocommit(new), SameContents(db, new),
         disk' = disk,
         pc' \notin {"removeChanged", "directories", "fetch", "write", "copy"}
  PROVE  HoldInv'
<1>1. Holds(new, disk)
  BY SameContentsSame DEF HoldInv
<1> QED
  BY <1>1 DEF HoldInv, Autocommit, Holds, TrackedPaths

(* A row goes, and is not among the changed ones any more.                 *)
LEMMA DropRowKeepsHolding ==
  ASSUME HoldInv, Good(db), NEW p, DropRow(p),
         \/ pc = "removeChanged" /\ targets' = targets \ {p}
         \/ pc = "cleanup"
  PROVE  HoldInv'
<1> DEFINE e == WithoutRow(db, p)
<1>1. db' = e /\ saved' = e /\ UNCHANGED <<disk, pc, source, pending>>
  BY DEF DropRow, Autocommit, job
<1>2. TrackedPaths(e) = TrackedPaths(db) \ {p}
  BY WithoutRowGood
<1>3. \A q \in TrackedPaths(e) : e.files[q] = db.files[q]
  BY <1>2 DEF WithoutRow, Restrict, Good, Database, TrackedPaths
<1>4. Holds(e, disk)
  BY <1>2, <1>3 DEF HoldInv, Holds
<1>5. ChangedPaths(e) \subseteq ChangedPaths(db) \ {p}
  BY <1>2, <1>3 DEF ChangedPaths
<1>6. ChangedPaths(db)' = ChangedPaths(e)
  BY <1>1 DEF ChangedPaths, PendingPaths, TrackedPaths
<1> QED
  BY <1>1, <1>4, <1>5, <1>6 DEF HoldInv, Holds, TrackedPaths

(* The requested contents go to paths that have no row: with nothing       *)
(* shared their features are pending, and a pending path with a row holds  *)
(* its new content already.                                                *)
LEMMA RequestedUntracked ==
  ASSUME \A s \in Sources : SharesNothing(s), source \in Sources, Good(db),
         ChangedPaths(db) = {}, NEW c \in RequestedContents(db)
  PROVE  TargetPaths(c) \cap TrackedPaths(db) = {}
<1> SUFFICES ASSUME NEW p \in TargetPaths(c), p \in TrackedPaths(db)
             PROVE  FALSE
  OBVIOUS
<1>1. PICK q \in PendingPaths : source.files[q].content = c
  BY DEF RequestedContents
<1>2. p \in DOMAIN source.files /\ source.files[p].content = c
  BY DEF TargetPaths
<1>3. q \in DOMAIN source.files /\ source.files[q].feature \in pending
  BY DEF PendingPaths
<1>4. p \in PendingPaths
  BY <1>1, <1>2, <1>3 DEF SharesNothing, PendingPaths
<1>5. db.files[p].content = c
  BY <1>2, <1>4 DEF ChangedPaths
<1>6. c \in db.contents
  BY <1>5 DEF Good, Resolves
<1> QED
  BY <1>6 DEF RequestedContents

(* A file that is written had no row, and gets none but its own.           *)
LEMMA WriteKeepsHolding ==
  ASSUME ~WritesMayFail, IInv, FilesInv, HoldInv, WriteTarget
  PROVE  HoldInv'
<1>1. PICK p \in targets : WriteFile(p) /\ (InsertFile(p) \/ InsertConflicts(p))
  BY DEF WriteTarget
<1> DEFINE c == source.files[p].content
           e == WithRowFor(db, p)
<1>2. /\ pc = "write" /\ p \in DOMAIN source.files
      /\ p \notin TrackedPaths(db) /\ p \notin TrackedPaths(saved)
  BY DEF WriteTarget, HoldInv, IInv, LoopsGood
<1>3. InsertFile(p)
  BY <1>1, <1>2 DEF InsertConflicts, Conflicts
<1>4. UNCHANGED <<pc, saved, todo, source, pending>> /\ targets' = targets \ {p}
      /\ db' = e
  BY <1>3 DEF InsertFile, WriteTarget, job
<1>5. /\ disk'[p].content = c
      /\ \A q \in DOMAIN disk \ {p} : disk'[q] = disk[q]
  BY <1>1 DEF WriteFile, WithFile, Written
<1>6. /\ TrackedPaths(e) \subseteq TrackedPaths(db) \cup {p}
      /\ TrackedPaths(db) \subseteq TrackedPaths(e)
      /\ \A q \in TrackedPaths(db) : e.files[q] = db.files[q]
      /\ p \in TrackedPaths(e) => e.files[p] = source.files[p]
  <2>1. CASE InsertedRows(db, p) = {}
    BY <1>2, <2>1 DEF WithRowFor
  <2>2. CASE InsertedRows(db, p) # {}
    <3> DEFINE r == CHOOSE x \in InsertedRows(db, p) : TRUE
               g == [q \in DOMAIN db.files \cup {p} |->
                       IF q = p THEN r ELSE db.files[q]]
    <3>1. r = source.files[p]
      BY <2>2 DEF InsertedRows
    <3>2. e = [db EXCEPT !.files = g]
      BY <2>2 DEF WithRowFor
    <3> HIDE DEF r
    <3>3. e.files = g
      BY <3>2 DEF IInv, Good, Database
    <3> QED
      BY <1>2, <3>1, <3>3 DEF TrackedPaths
  <2> QED
    BY <2>1, <2>2
<1>7. Holds(e, disk')
  BY <1>2, <1>5, <1>6 DEF HoldInv, FilesInv, Holds
<1>8. Holds(saved, disk')
  BY <1>2, <1>5 DEF HoldInv, FilesInv, Holds
<1>9. \A d \in todo : TargetPaths(d) \cap TrackedPaths(e) = {}
  BY <1>2, <1>6 DEF HoldInv, TargetPaths
<1>10. (targets \ {p}) \cap TrackedPaths(e) = {}
  BY <1>2, <1>6 DEF HoldInv
<1>11. \A d : TargetPaths(d)' = TargetPaths(d)
  BY <1>4 DEF TargetPaths
<1> QED
  BY <1>2, <1>4, <1>6, <1>7, <1>8, <1>9, <1>10, <1>11
  DEF HoldInv, Holds, TrackedPaths

(* No step breaks the invariant.                                           *)
LEMMA NextHoldInv ==
  ASSUME ~WritesMayFail, \A s \in Sources : SharesNothing(s)
  PROVE  IInv /\ FilesInv /\ HoldInv /\ [Next]_vars => HoldInv'
<1> SUFFICES ASSUME IInv, FilesInv, HoldInv, [Next]_vars PROVE HoldInv'
  OBVIOUS
<1>0. source \in Sources /\ Good(db) /\ db \in Database
  BY DEF IInv, OthersTyped, Good
<1>1. CASE \/ Start \/ Finish \/ ConfigureAgain \/ InsertFeatures
           \/ UpdateParents \/ DropFeatures
  <2>1. /\ SameContents(db, WithoutUnreferenced(db))
        /\ SameContents(db, WithSourceFeatures(db))
        /\ SameContents(db, WithSourceParents(db))
        /\ SameContents(db, WithPendingFeatures(db))
    BY <1>0, SameContentsKept
  <2> QED
    BY <1>1, <2>1, AutocommitKeepsHolding
    DEF Start, Finish, ConfigureAgain, InsertFeatures, UpdateParents,
        DropFeatures, Goto
<1>2. CASE UpdateFileFeatures
  <2>1. PICK new : db' = new /\ saved' = new /\ SameContents(db, new)
    <3>1. CASE NewFeatureRows = {}
      BY <1>2, <3>1 DEF UpdateFileFeatures, HoldInv, SameContents
    <3>2. CASE NewFeatureRows # {}
      BY <1>0, <1>2, <3>2, WithFeatureSame
      DEF UpdateFileFeatures, NewFeatureRows, Autocommit
    <3> QED
      BY <3>1, <3>2
  <2>2. Holds(new, disk)
    BY <2>1, SameContentsSame DEF HoldInv
  <2>3. ChangedPaths(db)' = targets'
    BY <1>2 DEF UpdateFileFeatures, job, ChangedPaths, PendingPaths, TrackedPaths
  <2> QED
    BY <1>2, <2>1, <2>2, <2>3
    DEF UpdateFileFeatures, Goto, HoldInv, Holds, TrackedPaths
<1>3. CASE DropChangedRow \/ DropUnusedRow
  BY <1>0, <1>3, DropRowKeepsHolding DEF DropChangedRow, DropUnusedRow
<1>4. CASE RemoveFile
  <2>1. CASE Throw /\ UNCHANGED disk
    BY <2>1, EndKeepsHolding
  <2>2. CASE ~(Throw /\ UNCHANGED disk)
    <3>1. /\ \A q \in DOMAIN disk \ doomed : disk'[q] = disk[q]
          /\ UNCHANGED <<db, saved, source, pending, pc, todo, targets>>
      BY <1>4, <2>2 DEF RemoveFile, Restrict, job
    <3>2. Holds(db, disk') /\ Holds(saved, disk')
      BY <3>1 DEF HoldInv, FilesInv, Holds
    <3>3. /\ ChangedPaths(db)' = ChangedPaths(db)
          /\ \A c : TargetPaths(c)' = TargetPaths(c)
      BY <3>1 DEF ChangedPaths, PendingPaths, TargetPaths, TrackedPaths
    <3> QED
      BY <3>1, <3>2, <3>3 DEF HoldInv, Holds, TrackedPaths
  <2> QED
    BY <2>1, <2>2
<1>5. CASE ChangedRemoved
  <2>1. SameContents(db, WithoutUnreferenced(db))
    BY <1>0, SameContentsKept
  <2>2. /\ Holds(WithoutUnreferenced(db), disk)
        /\ ChangedPaths(WithoutUnreferenced(db)) = {}
    BY <1>5, <2>1, SameContentsSame DEF ChangedRemoved, HoldInv
  <2>3. ChangedPaths(db)' = ChangedPaths(WithoutUnreferenced(db))
    BY <1>5
    DEF ChangedRemoved, Autocommit, job, ChangedPaths, PendingPaths, TrackedPaths
  <2> QED
    BY <1>5, <2>2, <2>3
    DEF ChangedRemoved, Autocommit, Goto, HoldInv, Holds, TrackedPaths
<1>6. CASE CreateDirectories
  <2>1. CASE Throw
    BY <1>6, <2>1, EndKeepsHolding DEF CreateDirectories
  <2>2. CASE ~Throw
    <3>1. \A c \in RequestedContents(db) : TargetPaths(c) \cap TrackedPaths(db) = {}
      BY <1>0, <1>6, RequestedUntracked DEF CreateDirectories, HoldInv
    <3>2. \A c : TargetPaths(c)' = TargetPaths(c)
      BY <1>6, <2>2 DEF CreateDirectories, job, TargetPaths
    <3> QED
      BY <1>6, <2>2, <3>1, <3>2
      DEF CreateDirectories, Goto, HoldInv, Holds, TrackedPaths
  <2> QED
    BY <2>1, <2>2
<1>7. CASE ReceiveContent
  <2>1. db'.files = db.files
    BY <1>0, <1>7 DEF ReceiveContent, Database
  <2>2. \A c : TargetPaths(c)' = TargetPaths(c)
    BY <1>7 DEF ReceiveContent, job, TargetPaths
  <2>3. PICK c \in todo : todo' = todo \ {c} /\ targets' = TargetPaths(c)
    BY <1>7 DEF ReceiveContent
  <2>4. \A p \in targets' : source.files[p].content = c
    BY <2>3 DEF TargetPaths
  <2>5. targets' \cap TrackedPaths(db) = {}
    BY <1>7, <2>3 DEF ReceiveContent, HoldInv
  <2> QED
    BY <1>7, <2>1, <2>2, <2>3, <2>4, <2>5
    DEF ReceiveContent, Goto, job, HoldInv, Holds, TrackedPaths
<1>8. CASE WriteTarget
  BY <1>8, WriteKeepsHolding
<1>9. CASE WriteThrows \/ TransferEnds
  BY <1>9
  DEF WriteThrows, TransferEnds, EndTransfer, CommitTransaction, Goto,
      MissingPaths, HoldInv, Holds, TrackedPaths
<1>10. CASE ContentDone
  <2>1. \A c : TargetPaths(c)' = TargetPaths(c)
    BY <1>10 DEF ContentDone, job, TargetPaths
  <2> QED
    BY <1>10, <2>1 DEF ContentDone, Goto, loop, HoldInv, Holds, TrackedPaths
<1>11. CASE CopyFile
  <2>1. CASE Throw /\ UNCHANGED disk
    BY <2>1, EndKeepsHolding
  <2>2. CASE ~(Throw /\ UNCHANGED disk)
    <3>1. PICK p \in targets, q \in DOMAIN disk :
            /\ disk' = WithFile(p, disk[q])
            /\ targets' = targets \ {p}
            /\ UNCHANGED <<db, saved, pc>>
      BY <1>11, <2>2 DEF CopyFile
    <3>2. \A x \in DOMAIN disk \ {p} : disk'[x] = disk[x]
      BY <3>1 DEF WithFile
    <3>3. p \notin TrackedPaths(db) /\ p \notin TrackedPaths(saved)
      BY <1>11 DEF CopyFile, HoldInv
    <3>4. Holds(db, disk') /\ Holds(saved, disk')
      BY <3>2, <3>3 DEF HoldInv, FilesInv, Holds
    <3> QED
      BY <1>11, <3>1, <3>4 DEF CopyFile, HoldInv, Holds, TrackedPaths
  <2> QED
    BY <2>1, <2>2
<1>12. CASE CopyDone
  BY <1>12 DEF CopyDone, CommitTransaction, Goto, HoldInv, Holds, TrackedPaths
<1>13. CASE Simulate
  <2>1. CASE Die
    BY <1>13, <2>1, EndKeepsHolding DEF Simulate
  <2>2. CASE ~Die
    BY <1>13, <2>2 DEF Simulate, Goto, HoldInv, Holds, TrackedPaths
  <2> QED
    BY <2>1, <2>2
<1>14. CASE CopyFails \/ NoExemplar \/ Crash
  BY <1>14, EndKeepsHolding DEF CopyFails, NoExemplar, Crash
<1>15. CASE Reopen
  BY <1>15 DEF Reopen, Goto, store, HoldInv, Holds, TrackedPaths
<1>16. CASE UNCHANGED vars
  <2>1. /\ ChangedPaths(db)' = ChangedPaths(db)
        /\ \A c : TargetPaths(c)' = TargetPaths(c)
    BY <1>16 DEF vars, store, job, ChangedPaths, PendingPaths, TargetPaths,
                 TrackedPaths
  <2> QED
    BY <1>16, <2>1 DEF vars, store, job, loop, HoldInv, Holds, TrackedPaths
<1> QED
  BY <1>1, <1>2, <1>3, <1>4, <1>5, <1>6, <1>7, <1>8, <1>9, <1>10, <1>11, <1>12,
     <1>13, <1>14, <1>15, <1>16
  DEF Next, Work

(* If features share no contents either, such a file begins with the       *)
(* content of its row: no file in use is written over.                     *)
THEOREM ContentsPresent ==
  ASSUME ~WritesMayFail, \A s \in Sources : SharesNothing(s)
  PROVE  Spec => []RowsHoldContent
<1>1. HoldInv => RowsHoldContent
  BY DEF HoldInv, Holds, RowsHoldContent
<1>2. IInv /\ FilesInv /\ [Next]_vars => FilesInv'
  BY NextFilesInv
<1>3. IInv /\ FilesInv /\ HoldInv /\ [Next]_vars => HoldInv'
  BY NextHoldInv
<1> QED
  BY <1>1, <1>2, <1>3, InitFilesInv, InitHoldInv, InductiveInvariant, PTL DEF Spec

-----------------------------------------------------------------------------
(* What a success is worth                                                 *)

(* No row is left of a changed file when contents arrive; each of them is  *)
(* the content of a wanted file that has no row; and the copies that       *)
(* follow cannot be made for a file whose content has not arrived.         *)
LackInv ==
  /\ pc = "removeChanged" => ChangedPaths(db) \subseteq targets
  /\ pc \in {"directories", "fetch", "write", "copy"} => ChangedPaths(db) = {}
  /\ pc \in {"fetch", "write", "copy"} =>
       \A c \in todo :
         c \notin db.contents /\ \E p \in PendingPaths : source.files[p].content = c
  /\ pc = "copy" => \A c \in todo : \E p \in targets : source.files[p].content = c
  /\ pc \in {"cleanup", "cleanupContents"} \/ result = "ok" => todo = {}
  /\ result = "ok" => pc = "idle"

(* Every other step is outside of the phases this is about, or ends them.  *)
LEMMA EndsElsewhere ==
  ASSUME pc' \notin {"removeChanged", "directories", "fetch", "write", "copy",
                     "cleanup", "cleanupContents"},
         result' # "ok"
  PROVE  LackInv'
  BY DEF LackInv

(* The rows of a database decide what has changed.                         *)
LEMMA ChangedByRows ==
  ASSUME NEW d, NEW e, e.files = d.files
  PROVE  ChangedPaths(e) = ChangedPaths(d)
  BY DEF ChangedPaths, TrackedPaths

LEMMA WithoutRowChanges ==
  ASSUME NEW d, Good(d), NEW p
  PROVE  ChangedPaths(WithoutRow(d, p)) \subseteq ChangedPaths(d) \ {p}
<1> DEFINE D == DOMAIN d.files \ {p}
<1>1. d \in Database /\ d.files \in PartialMaps(Paths, Row)
  BY DatabaseDef DEF Good
<1>2. /\ DOMAIN Restrict(d.files, D) = D
      /\ \A x \in D : Restrict(d.files, D)[x] = d.files[x]
  BY <1>1, RestrictPartial
<1>3. WithoutRow(d, p).files = Restrict(d.files, D)
  BY <1>1 DEF WithoutRow, Database
<1> QED
  BY <1>2, <1>3 DEF ChangedPaths, TrackedPaths

(* A row that is inserted is that of the source.                           *)
LEMMA WithRowForChanges ==
  ASSUME NEW d \in Database, NEW p
  PROVE  ChangedPaths(WithRowFor(d, p)) \subseteq ChangedPaths(d)
<1>1. CASE InsertedRows(d, p) = {}
  BY <1>1 DEF WithRowFor
<1>2. CASE InsertedRows(d, p) # {}
  <2>1. (CHOOSE r \in InsertedRows(d, p) : TRUE) = source.files[p]
    BY <1>2 DEF InsertedRows
  <2>2. WithRowFor(d, p).files =
          [q \in DOMAIN d.files \cup {p} |-> IF q = p THEN source.files[p] ELSE d.files[q]]
    BY <1>2, <2>1 DEF WithRowFor, Database
  <2> QED
    BY <2>2 DEF ChangedPaths, TrackedPaths
<1> QED
  BY <1>1, <1>2

(* The source and what is wanted of it stay through a Configure.           *)
LEMMA WantedKept ==
  ASSUME UNCHANGED job
  PROVE  /\ source' = source /\ PendingPaths' = PendingPaths
         /\ \A d : ChangedPaths(d)' = ChangedPaths(d')
         /\ \A p, d : Exemplars(d, p)' = Exemplars(d', p)
  BY DEF job, PendingPaths, ChangedPaths, TrackedPaths, Exemplars

(* When the transfer ends, a content that is lacking leaves a file of the  *)
(* source without a row.                                                   *)
LEMMA EndTransferLacks ==
  ASSUME IInv, LackInv, pc \in {"fetch", "write"}, EndTransfer, UNCHANGED <<job, todo, result>>
  PROVE  LackInv'
<1>1. db' = db /\ pc' = "copy" /\ targets' = MissingPaths(db) /\ result # "ok"
  BY DEF EndTransfer, CommitTransaction, Goto, LackInv
<1>2. /\ source' = source /\ PendingPaths' = PendingPaths
      /\ ChangedPaths(db)' = ChangedPaths(db)
  BY <1>1, WantedKept DEF ChangedPaths, TrackedPaths, job
<1>3. ASSUME NEW c \in todo PROVE \E p \in MissingPaths(db) : source.files[p].content = c
  <2>1. PICK p \in PendingPaths : source.files[p].content = c
    BY <1>3 DEF LackInv
  <2>2. c \notin db.contents
    BY <1>3 DEF LackInv
  <2>3. p \notin TrackedPaths(db)
    <3>1. SUFFICES ASSUME p \in TrackedPaths(db) PROVE FALSE
      OBVIOUS
    <3>2. db.files[p].content \in db.contents
      BY <3>1 DEF IInv, Good, Resolves
    <3>3. p \in ChangedPaths(db)
      BY <2>1, <2>2, <3>1, <3>2 DEF ChangedPaths
    <3> QED
      BY <3>3 DEF LackInv
  <2> QED
    BY <2>1, <2>3 DEF MissingPaths
<1> QED
  BY <1>1, <1>2, <1>3 DEF LackInv

(* A file that is copied has its content from a row.                       *)
LEMMA CopyFileLacks ==
  ASSUME IInv, LackInv, CopyFile
  PROVE  LackInv'
<1>1. PICK p \in targets :
        \/ /\ Exemplars(db, p) # {} /\ targets' = targets \ {p}
           /\ UNCHANGED <<db, saved, job, pc, todo, doomed, result>>
        \/ Throw
  BY DEF CopyFile
<1>2. CASE Throw
  BY <1>2, EndsElsewhere DEF Throw, Goto
<1>3. CASE /\ Exemplars(db, p) # {} /\ targets' = targets \ {p}
           /\ UNCHANGED <<db, saved, job, pc, todo, doomed, result>>
  <2>1. source.files[p].content \notin todo
    <3>1. source.files[p].content \in db.contents
      BY <1>3 DEF Exemplars, IInv, Good, Resolves
    <3> QED
      BY <3>1 DEF CopyFile, LackInv
  <2>2. /\ source' = source /\ PendingPaths' = PendingPaths
        /\ ChangedPaths(db)' = ChangedPaths(db)
    BY <1>3, WantedKept DEF job, ChangedPaths, TrackedPaths
  <2> QED
    BY <1>3, <2>1, <2>2 DEF CopyFile, LackInv
<1> QED
  BY <1>1, <1>2, <1>3

(* Every step keeps it.                                                    *)
LEMMA NextLackInv == IInv /\ LackInv /\ [Next]_vars => LackInv'
<1> SUFFICES ASSUME IInv, LackInv, [Next]_vars PROVE LackInv'
  OBVIOUS
<1>0. Good(db) /\ db \in Database
  BY DEF IInv, Good
<1>1. CASE Start \/ InsertFeatures \/ UpdateParents
  BY <1>1, EndsElsewhere DEF Start, InsertFeatures, UpdateParents, Goto, LackInv
<1>2. CASE Simulate
  BY <1>2, EndsElsewhere DEF Simulate, Die, Goto, LackInv
<1>3. CASE UpdateFileFeatures
  <2>1. pc' = "removeChanged" /\ targets' = ChangedPaths(db') /\ result' = result /\ result # "ok"
    BY <1>3 DEF UpdateFileFeatures, Goto, LackInv
  <2>2. ChangedPaths(db)' = ChangedPaths(db')
    BY <1>3, WantedKept DEF UpdateFileFeatures
  <2> QED
    BY <2>1, <2>2 DEF LackInv
<1>4. CASE DropChangedRow
  <2>1. PICK p \in targets : DropRow(p) /\ targets' = targets \ {p}
    BY <1>4 DEF DropChangedRow
  <2>2. /\ db' = WithoutRow(db, p) /\ UNCHANGED job
        /\ pc = "removeChanged" /\ pc' = pc /\ result' = result
    BY <1>4, <2>1 DEF DropChangedRow, DropRow, Autocommit
  <2>3. ChangedPaths(db)' = ChangedPaths(WithoutRow(db, p))
    BY <2>2, WantedKept
  <2>4. ChangedPaths(db)' \subseteq targets'
    BY <1>0, <2>1, <2>2, <2>3, WithoutRowChanges DEF LackInv
  <2> QED
    BY <2>2, <2>4 DEF LackInv
<1>5. CASE RemoveFile
  <2>1. CASE Throw
    BY <2>1, EndsElsewhere DEF Throw, Goto
  <2>2. CASE UNCHANGED <<db, saved, job, pc, todo, targets, result>>
    <3>1. /\ source' = source /\ PendingPaths' = PendingPaths
          /\ ChangedPaths(db)' = ChangedPaths(db)
      BY <2>2, WantedKept DEF job, ChangedPaths, TrackedPaths
    <3> QED
      BY <2>2, <3>1 DEF LackInv
  <2> QED
    BY <1>5, <2>1, <2>2 DEF RemoveFile
<1>6. CASE ChangedRemoved
  <2>1. /\ pc = "removeChanged" /\ targets = {} /\ pc' = "directories" /\ result' = result
        /\ db' = WithoutUnreferenced(db) /\ UNCHANGED job
    BY <1>6 DEF ChangedRemoved, Goto, Autocommit
  <2>2. WithoutUnreferenced(db).files = db.files
    BY <1>0 DEF WithoutUnreferenced, Database
  <2>3. ChangedPaths(db)' = ChangedPaths(db)
    BY <2>1, <2>2, WantedKept, ChangedByRows
  <2> QED
    BY <2>1, <2>3 DEF LackInv
<1>7. CASE CreateDirectories
  <2>1. CASE Throw
    BY <2>1, EndsElsewhere DEF Throw, Goto
  <2>2. CASE /\ todo' = RequestedContents(db) /\ Goto("fetch")
             /\ UNCHANGED <<db, job, result>>
    <3>1. /\ source' = source /\ PendingPaths' = PendingPaths
          /\ ChangedPaths(db)' = ChangedPaths(db)
      BY <2>2, WantedKept DEF job, ChangedPaths, TrackedPaths
    <3>2. pc = "directories" /\ pc' = "fetch"
      BY <1>7, <2>2 DEF CreateDirectories, Goto
    <3> QED
      BY <2>2, <3>1, <3>2 DEF RequestedContents, LackInv
  <2> QED
    BY <1>7, <2>1, <2>2 DEF CreateDirectories
<1>8. CASE ReceiveContent
  <2>1. PICK c \in todo : db' = [db EXCEPT !.contents = @ \cup {c}] /\ todo' = todo \ {c}
    BY <1>8 DEF ReceiveContent
  <2>2. pc = "fetch" /\ pc' = "write" /\ UNCHANGED <<job, result>>
    BY <1>8 DEF ReceiveContent, Goto
  <2>3. db'.files = db.files /\ db'.contents = db.contents \cup {c}
    BY <1>0, <2>1 DEF Database
  <2>4. /\ source' = source /\ PendingPaths' = PendingPaths
        /\ ChangedPaths(db)' = ChangedPaths(db)
    BY <2>2, <2>3, WantedKept, ChangedByRows
  <2> QED
    BY <2>1, <2>2, <2>3, <2>4 DEF LackInv
<1>9. CASE WriteTarget
  <2>1. PICK p \in targets : InsertFile(p) \/ InsertConflicts(p)
    BY <1>9 DEF WriteTarget
  <2>2. CASE InsertConflicts(p)
    BY <2>2, EndsElsewhere DEF InsertConflicts, Goto
  <2>3. CASE InsertFile(p)
    <3>1. /\ pc = "write" /\ pc' = pc /\ UNCHANGED <<job, todo, result>>
          /\ db' = WithRowFor(db, p)
      BY <1>9, <2>3 DEF WriteTarget, InsertFile
    <3>2. source \in Sources /\ p \in DOMAIN source.files /\ source.files[p].content \in db.contents
      BY <3>1 DEF IInv, LoopsGood, OthersTyped
    <3>3. db'.contents = db.contents
      BY <1>0, <3>1, <3>2, WithRowForGood
    <3>4. /\ source' = source /\ PendingPaths' = PendingPaths
          /\ ChangedPaths(db)' \subseteq ChangedPaths(db)
      BY <1>0, <3>1, WantedKept, WithRowForChanges
    <3> QED
      BY <3>1, <3>3, <3>4 DEF LackInv
  <2> QED
    BY <2>1, <2>2, <2>3
<1>10. CASE ContentDone
  <2>1. pc = "write" /\ pc' = "fetch" /\ UNCHANGED <<db, job, todo, result>>
    BY <1>10 DEF ContentDone, Goto, loop
  <2>2. /\ source' = source /\ PendingPaths' = PendingPaths
        /\ ChangedPaths(db)' = ChangedPaths(db)
    BY <2>1, WantedKept DEF job, ChangedPaths, TrackedPaths
  <2> QED
    BY <2>1, <2>2 DEF LackInv
<1>11. CASE WriteThrows \/ TransferEnds
  BY <1>11, EndTransferLacks DEF WriteThrows, TransferEnds
<1>12. CASE CopyFile
  BY <1>12, CopyFileLacks
<1>13. CASE CopyFails \/ NoExemplar \/ Crash
  BY <1>13, EndsElsewhere DEF CopyFails, NoExemplar, Crash, Throw, Die, Goto
<1>14. CASE CopyDone
  BY <1>14 DEF CopyDone, Goto, loop, LackInv
<1>15. CASE DropUnusedRow
  BY <1>15 DEF DropUnusedRow, DropRow, LackInv
<1>16. CASE DropFeatures \/ Finish
  BY <1>16 DEF DropFeatures, Finish, Goto, loop, LackInv
<1>17. CASE ConfigureAgain \/ Reopen
  BY <1>17, EndsElsewhere DEF ConfigureAgain, Reopen, Goto, LackInv
<1>18. CASE UNCHANGED vars
  <2>1. /\ UNCHANGED job /\ UNCHANGED <<db, todo, targets, pc, result>>
    BY <1>18 DEF vars, store, loop
  <2>2. /\ source' = source /\ PendingPaths' = PendingPaths
        /\ ChangedPaths(db)' = ChangedPaths(db)
    BY <2>1, WantedKept DEF job, ChangedPaths, TrackedPaths
  <2> QED
    BY <2>1, <2>2 DEF LackInv
<1> QED
  BY <1>1, <1>2, <1>3, <1>4, <1>5, <1>6, <1>7, <1>8, <1>9, <1>10, <1>11, <1>12,
     <1>13, <1>14, <1>15, <1>16, <1>17, <1>18
  DEF Next, Work

(***************************************************************************)
(* Whatever is lost on the way: a Configure that reports success has got   *)
(* every content it asked for, though nothing looks at the result of the   *)
(* transfer.  It is CopyExistingFiles that cannot get past a file whose    *)
(* content is lacking.                                                     *)
(***************************************************************************)
THEOREM NoPartialInstall == Spec => []NoSilentPartialInstall
<1>1. Init => LackInv
  BY DEF Init, LackInv
<1>2. LackInv => NoSilentPartialInstall
  BY DEF LackInv, NoSilentPartialInstall
<1> QED
  BY <1>1, <1>2, NextLackInv, InductiveInvariant, PTL DEF Spec
=============================================================================
