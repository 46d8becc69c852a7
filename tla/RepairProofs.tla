---------------------------- MODULE RepairProofs ----------------------------
(***************************************************************************)
(* Proofs about Repair, for any database, any sizes and any number of      *)
(* calls and changes from outside: what the reports are worth, and what    *)
(* can end the process.                                                    *)
(***************************************************************************)
EXTENDS Repair, SequenceTheorems, FiniteSetTheorems, TLAPS

NumFiles == Cardinality(DOMAIN files)

LooksAtFile == pc \in {"stat", "hash"}

DiskPossible ==
  \A p \in DOMAIN files : disk[p] \in Damaged(p) \cup {Original(p)}

RequiredRecorded ==
  \A i \in DOMAIN requiredContentObjects : requiredContentObjects[i] \in Recorded

(* The report says what is known of the file.                              *)
Truthful(r) ==
  /\ r.result = "Missing" => Absent \in r.seen
  /\ r.result = "Corrupted" => \E image \in r.seen : ~Sound(r.path, image)
  /\ r.result = "Ok" =>
       \/ \E image \in r.seen : Sound(r.path, image)
       \/ Size[files[r.path]] = 0 /\ (restore \/ Absent \in r.seen)

(* The reports of a Verify are about the first files of a listing, and the *)
(* rest of it is to come.                                                  *)
ReportsListed ==
  ~restore /\ calls # 0 =>
    \E order \in Listings :
      /\ Len(reports) + Len(todo) = NumFiles
      /\ \A i \in DOMAIN reports : reports[i].path = order[i]
      /\ \A j \in DOMAIN todo : todo[j] = order[Len(reports) + j]

ReportsExact ==
  ~restore /\ ~disturbed =>
    /\ \A i \in DOMAIN reports :
         reports[i].result = "Ok" <=> Sound(reports[i].path, disk[reports[i].path])
    /\ LooksAtFile => disk[Row] # Absent
    /\ pc = "hash" => disk[Row].size = Size[files[Row]]

ProgressMade ==
  debug /\ (pc # "idle" \/ outcome = "ok") => NumFiles - Len(todo) <= ObjectCount

(* What the types leave open.                                              *)
Possible ==
  /\ todo \in Seq(DOMAIN files)
  /\ seen \subseteq Image \cup {Absent}
  /\ source.contents \in {Recorded, {}}

RepairInv ==
  /\ RepairTypeOK
  /\ Possible
  /\ DiskPossible
  /\ LooksAtFile => disk[Row] \in seen
  /\ RequiredRecorded
  /\ \A i \in DOMAIN reports : Truthful(reports[i])
  /\ ReportsListed
  /\ ReportsExact
  /\ ProgressMade
  /\ pc # "idle" => outcome = "none" /\ calls # 0
  /\ outcome = "ok" => todo = <<>> /\ calls # 0
  /\ DeathsExplained

-----------------------------------------------------------------------------
(* The files of a database, and their contents, can be counted.            *)
LEMMA Counts ==
  ASSUME files \in Databases, objects \subseteq Contents
  PROVE  /\ DOMAIN files \subseteq Paths /\ files \in [DOMAIN files -> Contents]
         /\ IsFiniteSet(DOMAIN files) /\ NumFiles \in Nat
         /\ Recorded \subseteq Contents /\ ObjectCount \in Nat
<1>1. DOMAIN files \subseteq Paths /\ files \in [DOMAIN files -> Contents]
  BY RepairAssumption
<1>2. IsFiniteSet(DOMAIN files) /\ NumFiles \in Nat
  BY <1>1, RepairAssumption, FS_Subset, FS_CardinalityType DEF NumFiles
<1>3. Recorded \subseteq Contents
  BY <1>1 DEF Recorded
<1>4. ObjectCount \in Nat
  BY RepairAssumption, FS_Subset, FS_CardinalityType DEF ObjectCount
<1> QED
  BY <1>1, <1>2, <1>3, <1>4

(* More files than contents: two of them share one.                        *)
LEMMA SharedContent ==
  ASSUME files \in Databases, objects \subseteq Contents, Recorded \subseteq objects,
         NumFiles > ObjectCount
  PROVE  \E p, q \in DOMAIN files : p # q /\ files[p] = files[q]
<1>1. IsFiniteSet(DOMAIN files) /\ IsFiniteSet(objects)
  BY Counts, RepairAssumption, FS_Subset
<1>2. files \in [DOMAIN files -> objects]
  BY Counts DEF Recorded
<1>3. Cardinality(DOMAIN files) > Cardinality(objects)
  BY DEF NumFiles, ObjectCount
<1> QED
  BY <1>1, <1>2, <1>3, FS_PigeonHole

(* What a file on disk may look like.                                      *)
LEMMA Images ==
  ASSUME files \in Databases, objects \subseteq Contents, NEW p \in DOMAIN files,
         NEW image \in Damaged(p) \cup {Original(p)}
  PROVE  /\ image \in Image \cup {Absent}
         /\ Size[files[p]] \in Nat
         /\ image.hash = files[p] /\ image # Absent => image.size = Size[files[p]]
         /\ image.size = Size[files[p]] /\ Size[files[p]] = 0 => Sound(p, image)
         /\ ~Sound(p, Absent)
         /\ ~Absent.readable
<1>1. files[p] \in Contents
  BY Counts
<1>2. Size[files[p]] \in Nat
  BY <1>1, RepairAssumption
<1>3. Size[files[p]] \in {Size[c] : c \in Contents}
  BY <1>1
<1>4. Original(p) = [hash |-> files[p], size |-> Size[files[p]], readable |-> TRUE]
  BY DEF Original
<1>10. Junk # files[p] /\ ~Sound(p, Absent) /\ ~Absent.readable
  BY <1>1, <1>2, RepairAssumption DEF Absent, OtherSize, Sound
<1>5. CASE image = Absent
  BY <1>2, <1>5 DEF Absent, OtherSize, Sound
<1>6. CASE image = Original(p)
  BY <1>1, <1>2, <1>3, <1>4, <1>6 DEF Image, Sound, Absent, OtherSize
<1>7. CASE image = [Original(p) EXCEPT !.readable = FALSE]
  <2>1. image = [hash |-> files[p], size |-> Size[files[p]], readable |-> FALSE]
    BY <1>7 DEF Original
  <2> QED
    BY <1>1, <1>2, <1>3, <2>1 DEF Image, Sound, Absent, OtherSize
<1>8. CASE image = [Original(p) EXCEPT !.hash = Junk, !.size = OtherSize]
  <2>1. image = [hash |-> Junk, size |-> OtherSize, readable |-> TRUE]
    BY <1>8 DEF Original
  <2> QED
    <3>1. image \in Image
      BY <1>3, <2>1 DEF Image
    <3>2. image.hash = Junk /\ image.size = OtherSize
      BY <2>1
    <3> QED
      BY <1>2, <1>10, <3>1, <3>2 DEF OtherSize
<1>9. CASE Size[files[p]] # 0 /\ image = [Original(p) EXCEPT !.hash = Junk]
  <2>1. image = [hash |-> Junk, size |-> Size[files[p]], readable |-> TRUE]
    BY <1>9 DEF Original
  <2> QED
    <3>1. image \in Image
      BY <1>3, <2>1 DEF Image
    <3>2. image.hash = Junk
      BY <2>1
    <3> QED
      BY <1>2, <1>9, <1>10, <3>1, <3>2
<1> QED
  BY <1>5, <1>6, <1>7, <1>8, <1>9 DEF Damaged

-----------------------------------------------------------------------------
(* The end of the turn of a file                                           *)

(* One element less.                                                       *)
LEMMA OneLess ==
  ASSUME NEW S, NEW s \in Seq(S), s # <<>>
  PROVE  /\ Head(s) = s[1] /\ Head(s) \in S
         /\ Tail(s) \in Seq(S) /\ Len(Tail(s)) = Len(s) - 1
         /\ Len(s) \in Nat \ {0} /\ Len(Tail(s)) \in Nat
         /\ 1 \in DOMAIN s
         /\ \A j \in DOMAIN Tail(s) : j + 1 \in DOMAIN s /\ Tail(s)[j] = s[j + 1]
<1>1. Len(s) \in Nat \ {0} /\ DOMAIN s = 1..Len(s)
  OBVIOUS
<1>2. Tail(s) \in Seq(S) /\ Len(Tail(s)) = Len(s) - 1
  OBVIOUS
<1>3. \A j \in DOMAIN Tail(s) : j + 1 \in DOMAIN s /\ Tail(s)[j] = s[j + 1]
  OBVIOUS
<1> QED
  BY <1>1, <1>2, <1>3

(* One element more.                                                       *)
LEMMA OneMore ==
  ASSUME NEW S, NEW s \in Seq(S), NEW e \in S
  PROVE  /\ Append(s, e) \in Seq(S)
         /\ Len(s) \in Nat /\ Len(Append(s, e)) = Len(s) + 1
         /\ DOMAIN Append(s, e) = DOMAIN s \cup {Len(s) + 1}
         /\ \A i \in DOMAIN s : Append(s, e)[i] = s[i]
         /\ Append(s, e)[Len(s) + 1] = e
OBVIOUS

(* What has come is added to one of the lists.                             *)
LEMMA Added ==
  ASSUME RepairInv, todo # <<>>, NEW verdict \in Verdict,
         Report(verdict) \/ (restore /\ Damage(verdict)),
         NEW r, r = [path |-> Row, result |-> verdict, seen |-> seen \cup {disk[Row]}]
  PROVE  /\ Row \in DOMAIN files
         /\ r \in [path : Paths, result : Verdict, seen : SUBSET (Image \cup {Absent})]
         /\ \/ reports' = Append(reports, r) /\ UNCHANGED requiredContentObjects
            \/ /\ restore /\ UNCHANGED reports
               /\ requiredContentObjects' = Append(requiredContentObjects, files[Row])
         /\ files[Row] \in Recorded
<1>1. /\ files \in Databases /\ objects \subseteq Contents
      /\ disk \in [DOMAIN files -> Image \cup {Absent}]
  BY DEF RepairInv, RepairTypeOK
<1>2. Row \in DOMAIN files
  BY OneLess DEF RepairInv, Possible, Row
<1>3. Row \in Paths /\ files[Row] \in Recorded
  BY <1>1, <1>2, Counts DEF Recorded
<1>4. seen \cup {disk[Row]} \subseteq Image \cup {Absent}
  BY <1>1, <1>2 DEF RepairInv, Possible
<1>5. r \in [path : Paths, result : Verdict, seen : SUBSET (Image \cup {Absent})]
  BY <1>3, <1>4
<1>6. \/ reports' = Append(reports, r) /\ UNCHANGED requiredContentObjects
      \/ /\ restore /\ UNCHANGED reports
         /\ requiredContentObjects' = Append(requiredContentObjects, files[Row])
  BY DEF Report, Damage
<1> QED
  BY <1>2, <1>3, <1>5, <1>6

LEMMA TurnEnds ==
  ASSUME RepairInv, pc # "idle", todo # <<>>,
         UNCHANGED <<disk, changes, disturbed, files, objects, debug, restore, source, calls>>,
         NEW verdict \in Verdict,
         Report(verdict) \/ (restore /\ Damage(verdict)),
         Advance,
         Truthful([path |-> Row, result |-> verdict, seen |-> seen \cup {disk[Row]}]),
         ~restore /\ ~disturbed => (verdict = "Ok" <=> Sound(Row, disk[Row]))
  PROVE  RepairInv'
<1> DEFINE r == [path |-> Row, result |-> verdict, seen |-> seen \cup {disk[Row]}]
<1> DEFINE R == [path : Paths, result : Verdict, seen : SUBSET (Image \cup {Absent})]
<1>1. /\ Row \in DOMAIN files /\ r \in R
      /\ \/ reports' = Append(reports, r) /\ UNCHANGED requiredContentObjects
         \/ /\ restore /\ UNCHANGED reports
            /\ requiredContentObjects' = Append(requiredContentObjects, files[Row])
      /\ files[Row] \in Recorded
  BY Added
<1>2. r.path = Row /\ r.result = verdict /\ Truthful(r)
  OBVIOUS
<1> HIDE DEF r, R
<1>3. RepairTypeOK /\ Possible /\ files \in Databases /\ objects \subseteq Contents
  BY DEF RepairInv, RepairTypeOK
<1>4. NumFiles \in Nat /\ ObjectCount \in Nat /\ Recorded \subseteq Contents
  BY <1>3, Counts
<1>5. /\ todo' = Tail(todo) /\ seen' = {}
      /\ IF debug /\ NumFiles - Len(todo) + 1 > ObjectCount
           THEN pc' = "idle" /\ outcome' = "assertion"
           ELSE pc' = "exists" /\ outcome' = outcome
  BY DEF Advance, Stop, Goto, StepsDone, NumFiles
<1>6. outcome = "none" /\ calls # 0
  BY DEF RepairInv
<1>7. /\ reports \in Seq(R) /\ requiredContentObjects \in Seq(Contents) /\ todo \in Seq(Paths)
      /\ todo \in Seq(DOMAIN files)
      /\ Len(todo) + Len(reports) + Len(requiredContentObjects) = NumFiles
  BY <1>3, <1>6 DEF RepairTypeOK, Possible, NumFiles, R
<1>8. /\ Row = todo[1] /\ Tail(todo) \in Seq(DOMAIN files) /\ Tail(todo) \in Seq(Paths)
      /\ Len(Tail(todo)) = Len(todo) - 1 /\ Len(todo) \in Nat \ {0} /\ 1 \in DOMAIN todo
      /\ \A j \in DOMAIN Tail(todo) : j + 1 \in DOMAIN todo /\ Tail(todo)[j] = todo[j + 1]
  BY <1>7, OneLess DEF Row
<1>9. /\ Append(reports, r) \in Seq(R)
      /\ Len(reports) \in Nat /\ Len(Append(reports, r)) = Len(reports) + 1
      /\ DOMAIN Append(reports, r) = DOMAIN reports \cup {Len(reports) + 1}
      /\ \A i \in DOMAIN reports : Append(reports, r)[i] = reports[i]
      /\ Append(reports, r)[Len(reports) + 1] = r
  BY <1>1, <1>7, OneMore
<1>10. /\ Append(requiredContentObjects, files[Row]) \in Seq(Contents)
       /\ Len(requiredContentObjects) \in Nat
       /\ Len(Append(requiredContentObjects, files[Row])) = Len(requiredContentObjects) + 1
       /\ DOMAIN Append(requiredContentObjects, files[Row])
            = DOMAIN requiredContentObjects \cup {Len(requiredContentObjects) + 1}
       /\ \A i \in DOMAIN requiredContentObjects :
            Append(requiredContentObjects, files[Row])[i] = requiredContentObjects[i]
       /\ Append(requiredContentObjects, files[Row])[Len(requiredContentObjects) + 1] = files[Row]
  BY <1>1, <1>4, <1>7, OneMore
<1>11. /\ reports' \in Seq(R) /\ requiredContentObjects' \in Seq(Contents)
       /\ Len(todo') + Len(reports') + Len(requiredContentObjects') = NumFiles
  <2>1. Len(reports') + Len(requiredContentObjects')
          = Len(reports) + Len(requiredContentObjects) + 1
    <3>1. CASE reports' = Append(reports, r) /\ UNCHANGED requiredContentObjects
      BY <1>9, <1>10, <3>1
    <3>2. CASE /\ UNCHANGED reports
               /\ requiredContentObjects' = Append(requiredContentObjects, files[Row])
      BY <1>9, <1>10, <3>2
    <3> QED
      BY <1>1, <3>1, <3>2
  <2>2. Len(reports') \in Nat /\ Len(requiredContentObjects') \in Nat
    BY <1>1, <1>9, <1>10
  <2>3. Len(todo') = Len(todo) - 1
    BY <1>5, <1>8
  <2>4. Len(todo') + Len(reports') + Len(requiredContentObjects') = NumFiles
    <3>1. Len(todo) \in Nat /\ Len(reports) \in Nat /\ Len(requiredContentObjects) \in Nat
          /\ Len(todo) + Len(reports) + Len(requiredContentObjects) = NumFiles
      BY <1>7, <1>8, <1>9, <1>10
    <3>2. ASSUME NEW a \in Nat, NEW b \in Nat, NEW c \in Nat, NEW d \in Nat, NEW e \in Nat,
                 NEW f, d + e = b + c + 1, f = a - 1
          PROVE  f + d + e = a + b + c
      BY <3>2
    <3> QED
      BY <2>1, <2>2, <2>3, <3>1, <3>2
  <2> QED
    BY <1>1, <1>7, <1>9, <1>10, <2>4
<1>12. RepairTypeOK'
  BY <1>3, <1>5, <1>6, <1>8, <1>11 DEF RepairTypeOK, NumFiles, R, Recorded
<1>13. Possible'
  BY <1>3, <1>5, <1>8 DEF Possible, Recorded
<1>14. DiskPossible'
  BY DEF RepairInv, DiskPossible, Damaged, Original
<1>15. RequiredRecorded'
  BY <1>1, <1>10 DEF RepairInv, RequiredRecorded, Recorded
<1>16. (\A i \in DOMAIN reports : Truthful(reports[i]))'
  <2>1. \A i \in DOMAIN reports' : Truthful(reports'[i])
    BY <1>1, <1>2, <1>9 DEF RepairInv
  <2> QED
    BY <2>1 DEF Truthful, Sound
<1>17. ReportsListed'
  <2> SUFFICES ASSUME ~restore
               PROVE  \E order \in Listings :
                        /\ Len(reports') + Len(todo') = NumFiles
                        /\ \A i \in DOMAIN reports' : reports'[i].path = order[i]
                        /\ \A j \in DOMAIN todo' : todo'[j] = order[Len(reports') + j]
    BY DEF ReportsListed, Listings, BySize, NumFiles
  <2>1. PICK order \in Listings :
          /\ Len(reports) + Len(todo) = NumFiles
          /\ \A i \in DOMAIN reports : reports[i].path = order[i]
          /\ \A j \in DOMAIN todo : todo[j] = order[Len(reports) + j]
    BY <1>6 DEF RepairInv, ReportsListed
  <2>2. reports' = Append(reports, r)
    BY <1>1
  <2>3. Len(reports') + Len(todo') = NumFiles
    BY <1>5, <1>8, <1>9, <2>1, <2>2
  <2>4. r.path = order[Len(reports) + 1]
    BY <1>2, <1>8, <2>1
  <2>5. \A i \in DOMAIN reports' : reports'[i].path = order[i]
    BY <1>9, <2>1, <2>2, <2>4
  <2>6. \A j \in DOMAIN todo' : todo'[j] = order[Len(reports') + j]
    <3> SUFFICES ASSUME NEW j \in DOMAIN Tail(todo)
                 PROVE  Tail(todo)[j] = order[Len(reports') + j]
      BY <1>5
    <3>1. j \in Nat
      BY <1>8
    <3>2. Tail(todo)[j] = order[Len(reports) + (j + 1)]
      BY <1>8, <2>1
    <3>3. Len(reports') + j = Len(reports) + (j + 1)
      BY <1>9, <2>2, <3>1
    <3> QED
      BY <3>2, <3>3
  <2> QED
    BY <2>3, <2>5, <2>6
<1>18. ReportsExact'
  <2>1. ~LooksAtFile' /\ pc' # "hash"
    BY <1>5 DEF LooksAtFile
  <2>2. ASSUME ~restore, ~disturbed
        PROVE  \A i \in DOMAIN reports' :
                 reports'[i].result = "Ok" <=> Sound(reports'[i].path, disk[reports'[i].path])
    <3>1. \A i \in DOMAIN reports :
            reports[i].result = "Ok" <=> Sound(reports[i].path, disk[reports[i].path])
      BY <2>2 DEF RepairInv, ReportsExact
    <3>2. r.result = "Ok" <=> Sound(r.path, disk[r.path])
      BY <1>2, <2>2
    <3> QED
      BY <1>1, <1>9, <2>2, <3>1, <3>2
  <2> QED
    BY <2>1, <2>2 DEF ReportsExact, Sound
<1>19. ProgressMade'
  <2>1. Len(todo') = Len(todo) - 1
    BY <1>5, <1>8
  <2>2. NumFiles' = NumFiles /\ ObjectCount' = ObjectCount
    BY DEF NumFiles, ObjectCount, Recorded
  <2> QED
    BY <1>4, <1>5, <1>6, <1>8, <2>1, <2>2 DEF ProgressMade
<1>20. DeathsExplained'
  <2>1. outcome' = "assertion" => debug /\ NumFiles > ObjectCount
    BY <1>4, <1>5, <1>6, <1>8
  <2>2. outcome' = "assertion" => \E p, q \in DOMAIN files : p # q /\ files[p] = files[q]
    BY <1>3, <2>1, SharedContent DEF RepairTypeOK
  <2>3. outcome' \notin {"ok", "died"}
    BY <1>5, <1>6
  <2> QED
    BY <2>1, <2>2, <2>3 DEF DeathsExplained
<1>21. /\ (LooksAtFile => disk[Row] \in seen)'
       /\ (pc # "idle" => outcome = "none" /\ calls # 0)'
       /\ (outcome = "ok" => todo = <<>> /\ calls # 0)'
  BY <1>5, <1>6 DEF LooksAtFile
<1> QED
  BY <1>12, <1>13, <1>14, <1>15, <1>16, <1>17, <1>18, <1>19, <1>20, <1>21 DEF RepairInv

-----------------------------------------------------------------------------
(* The steps of a call                                                     *)

LEMMA InitInv == Init => RepairInv
<1> SUFFICES ASSUME Init PROVE RepairInv
  OBVIOUS
<1>1. files \in Databases /\ objects \subseteq Contents /\ Recorded \subseteq objects
  BY DEF Init
<1>2. /\ \A S : <<>> \in Seq(S)
      /\ DOMAIN <<>> = {} /\ Len(<<>>) = 0
  OBVIOUS
<1>3. \A p \in DOMAIN files : disk[p] = Original(p)
  BY DEF Init
<1>4. DiskPossible
  BY <1>3 DEF DiskPossible
<1>5. disk \in [DOMAIN files -> Image \cup {Absent}]
  BY <1>1, <1>3, Images DEF Init
<1>6. RepairTypeOK
  <2>1. /\ todo \in Seq(Paths) /\ requiredContentObjects \in Seq(Contents)
        /\ reports \in Seq([path : Paths, result : Verdict, seen : SUBSET (Image \cup {Absent})])
    BY <1>2 DEF Init
  <2>2. Len(todo) + Len(reports) + Len(requiredContentObjects) = 0 /\ calls = 0
    BY <1>2 DEF Init
  <2>3. 0 \in 0..MaxCalls /\ 0 \in 0..MaxChanges
    BY RepairAssumption
  <2>4. source.packed \in BOOLEAN /\ source.contents \subseteq Contents
    BY DEF Init
  <2>5. /\ debug \in BOOLEAN /\ restore \in BOOLEAN /\ disturbed \in BOOLEAN
        /\ pc = "idle" /\ outcome = "none" /\ calls = 0 /\ changes = 0
    BY DEF Init
  <2> QED
    BY <1>1, <1>5, <2>1, <2>2, <2>3, <2>4, <2>5 DEF RepairTypeOK
<1>7. Possible
  BY <1>2 DEF Init, Possible
<1>8. RequiredRecorded /\ \A i \in DOMAIN reports : Truthful(reports[i])
  BY <1>2 DEF Init, RequiredRecorded
<1>9. ReportsListed /\ ReportsExact /\ ProgressMade /\ DeathsExplained /\ ~LooksAtFile
  BY <1>2 DEF Init, ReportsListed, ReportsExact, ProgressMade, DeathsExplained, LooksAtFile
<1> QED
  BY <1>4, <1>6, <1>7, <1>8, <1>9 DEF RepairInv, Init

LEMMA RepairImplInv ==
  ASSUME RepairInv, NEW restoring \in BOOLEAN, RepairImpl(restoring)
  PROVE  RepairInv'
<1>1. /\ pc = "idle" /\ outcome \notin {"died", "assertion"} /\ calls < MaxCalls
      /\ calls' = calls + 1
      /\ restore' = restoring
      /\ source' \in [packed : BOOLEAN, contents : {Recorded, {}}]
      /\ requiredContentObjects' = <<>> /\ reports' = <<>> /\ seen' = {}
      /\ disturbed' = FALSE /\ outcome' = "none"
      /\ pc' = "exists"
      /\ UNCHANGED <<files, objects, disk, changes, debug>>
  BY DEF RepairImpl, Goto
<1>2. PICK order \in Listings : todo' = order
  BY DEF RepairImpl
<1>3. RepairTypeOK /\ files \in Databases /\ objects \subseteq Contents
  BY DEF RepairInv, RepairTypeOK
<1>4. /\ NumFiles \in Nat /\ ObjectCount \in Nat /\ Recorded \subseteq Contents
      /\ DOMAIN files \subseteq Paths
  BY <1>3, Counts
<1>5. order \in [1..NumFiles -> DOMAIN files]
  BY DEF Listings, NumFiles
<1>6. order \in Seq(DOMAIN files) /\ order \in Seq(Paths) /\ Len(order) = NumFiles
      /\ DOMAIN order = 1..NumFiles
  BY <1>4, <1>5
<1>7. /\ \A S : <<>> \in Seq(S)
      /\ DOMAIN <<>> = {} /\ Len(<<>>) = 0
  OBVIOUS
<1>8. calls \in Nat /\ calls' \in 1..MaxCalls
  BY <1>1, <1>3, RepairAssumption DEF RepairTypeOK
<1>9. Len(todo') + Len(reports') + Len(requiredContentObjects') = NumFiles
  BY <1>1, <1>2, <1>4, <1>6, <1>7
<1>10. RepairTypeOK'
  <2>1. /\ todo' \in Seq(Paths) /\ requiredContentObjects' \in Seq(Contents)
        /\ reports' \in Seq([path : Paths, result : Verdict, seen : SUBSET (Image \cup {Absent})])
    BY <1>1, <1>2, <1>6, <1>7
  <2>2. source'.packed \in BOOLEAN /\ source'.contents \subseteq Contents
    BY <1>1, <1>4
  <2>3. calls' \in 0..MaxCalls /\ calls' # 0
    BY <1>8
  <2> QED
    BY <1>1, <1>3, <1>9, <2>1, <2>2, <2>3 DEF RepairTypeOK, NumFiles, Recorded
<1>11. Possible'
  BY <1>1, <1>2, <1>6 DEF Possible, Recorded
<1>12. DiskPossible'
  BY <1>1 DEF RepairInv, DiskPossible, Damaged, Original
<1>13. RequiredRecorded' /\ (\A i \in DOMAIN reports : Truthful(reports[i]))'
  BY <1>1, <1>7 DEF RequiredRecorded
<1>14. ReportsListed'
  <2>1. Len(reports') + Len(todo') = NumFiles
    BY <1>1, <1>2, <1>4, <1>6, <1>7
  <2>2. \A j \in DOMAIN todo' : todo'[j] = order[Len(reports') + j]
    BY <1>1, <1>2, <1>6, <1>7
  <2>3. NumFiles' = NumFiles /\ Listings' = Listings
    BY <1>1 DEF NumFiles, Listings, BySize
  <2> QED
    BY <1>1, <1>7, <2>1, <2>2, <2>3 DEF ReportsListed
<1>15. ReportsExact' /\ ~LooksAtFile'
  BY <1>1, <1>7 DEF ReportsExact, LooksAtFile
<1>16. ProgressMade'
  <2>1. NumFiles' = NumFiles /\ ObjectCount' = ObjectCount
    BY <1>1 DEF NumFiles, ObjectCount, Recorded
  <2> QED
    BY <1>2, <1>4, <1>6, <2>1 DEF ProgressMade
<1>17. DeathsExplained'
  BY <1>1 DEF DeathsExplained
<1> QED
  BY <1>1, <1>8, <1>10, <1>11, <1>12, <1>13, <1>14, <1>15, <1>16, <1>17 DEF RepairInv

(* Nothing is lost when a file passes a test, or when the call ends.       *)
LEMMA Stays ==
  ASSUME RepairInv, pc # "idle",
         UNCHANGED <<fileVars, callVars, todo, requiredContentObjects, reports>>,
         pc' \in {"idle", "stat", "hash"}, outcome' \in {"none", "ok", "error", "died"},
         seen' \subseteq Image \cup {Absent},
         pc' # "idle" => todo # <<>> /\ outcome' = "none" /\ disk[Row] \in seen',
         outcome' = "ok" => todo = <<>>,
         ReportsExact', ProgressMade', DeathsExplained'
  PROVE  RepairInv'
<1>1. UNCHANGED <<disk, changes, disturbed, files, objects, debug, restore, source, calls>>
  BY DEF fileVars, callVars
<1>2. RepairTypeOK'
  BY <1>1 DEF RepairInv, RepairTypeOK, Recorded
<1>3. Possible'
  BY <1>1 DEF RepairInv, Possible, Recorded
<1>4. DiskPossible'
  BY <1>1 DEF RepairInv, DiskPossible, Damaged, Original
<1>5. RequiredRecorded'
  BY <1>1 DEF RepairInv, RequiredRecorded, Recorded
<1>6. (\A i \in DOMAIN reports : Truthful(reports[i]))'
  BY <1>1 DEF RepairInv, Truthful, Sound
<1>7. ReportsListed'
  BY <1>1 DEF RepairInv, ReportsListed, NumFiles, Listings, BySize
<1>8. /\ (LooksAtFile => disk[Row] \in seen)'
      /\ (pc # "idle" => outcome = "none" /\ calls # 0)'
      /\ (outcome = "ok" => todo = <<>> /\ calls # 0)'
  BY <1>1 DEF RepairInv, LooksAtFile, Row
<1> QED
  BY <1>2, <1>3, <1>4, <1>5, <1>6, <1>7, <1>8 DEF RepairInv

(* The file of this turn.                                                  *)
LEMMA TurnFacts ==
  ASSUME RepairInv, todo # <<>>
  PROVE  /\ Row \in DOMAIN files /\ files \in Databases
         /\ disk[Row] \in Damaged(Row) \cup {Original(Row)}
         /\ disk[Row] \in Image \cup {Absent} /\ seen \subseteq Image \cup {Absent}
         /\ Size[files[Row]] \in Nat
         /\ ~Sound(Row, Absent) /\ ~Absent.readable
         /\ disk[Row].hash = files[Row] /\ disk[Row] # Absent
              => disk[Row].size = Size[files[Row]]
         /\ disk[Row].size = Size[files[Row]] /\ Size[files[Row]] = 0 => Sound(Row, disk[Row])
<1>1. files \in Databases /\ objects \subseteq Contents
  BY DEF RepairInv, RepairTypeOK
<1>2. Row \in DOMAIN files
  BY OneLess DEF RepairInv, Possible, Row
<1>3. disk[Row] \in Damaged(Row) \cup {Original(Row)}
  BY <1>2 DEF RepairInv, DiskPossible
<1> QED
  BY <1>1, <1>2, <1>3, Images DEF RepairInv, Possible

LEMMA ExistsInv ==
  ASSUME RepairInv, Exists
  PROVE  RepairInv'
<1>1. /\ pc = "exists" /\ todo # <<>>
      /\ UNCHANGED <<fileVars, callVars>>
  BY DEF Exists
<1>2. UNCHANGED <<disk, changes, disturbed, files, objects, debug, restore, source, calls>>
  BY <1>1 DEF fileVars, callVars
<1>3. CASE disk[Row] = Absent
  <2> DEFINE r == [path |-> Row, result |-> "Missing", seen |-> seen \cup {disk[Row]}]
  <2>1. Damage("Missing") /\ Advance
    BY <1>3 DEF Exists
  <2>2. Report("Missing") \/ (restore /\ Damage("Missing"))
    BY <2>1 DEF Damage
  <2>3. r.result = "Missing" /\ Absent \in r.seen
    BY <1>3
  <2>4. Truthful(r)
    BY <2>3 DEF Truthful
  <2>5. ~Sound(Row, disk[Row])
    BY <1>1, <1>3, TurnFacts
  <2>6. "Missing" \in Verdict /\ "Missing" # "Ok"
    BY DEF Verdict
  <2> QED
    BY <1>1, <1>2, <2>1, <2>2, <2>4, <2>5, <2>6, TurnEnds
<1>4. CASE disk[Row] # Absent
  <2>1. pc' = "stat" /\ seen' = {disk[Row]}
        /\ UNCHANGED <<todo, requiredContentObjects, reports, outcome>>
    BY <1>4 DEF Exists, Goto
  <2>2. outcome = "none"
    BY <1>1 DEF RepairInv
  <2>3. ReportsExact'
    BY <1>2, <1>4, <2>1 DEF RepairInv, ReportsExact, LooksAtFile, Row, Sound
  <2>4. ProgressMade'
    BY <1>1, <1>2, <2>1 DEF RepairInv, ProgressMade, NumFiles, ObjectCount, Recorded
  <2>5. DeathsExplained'
    BY <2>1, <2>2 DEF DeathsExplained
  <2>6. seen' \subseteq Image \cup {Absent}
    BY <1>1, <2>1, TurnFacts
  <2> QED
    BY <1>1, <2>1, <2>2, <2>3, <2>4, <2>5, <2>6, Stays
<1> QED
  BY <1>3, <1>4

LEMMA MeasureInv ==
  ASSUME RepairInv, Measure
  PROVE  RepairInv'
<1>1. pc = "stat" /\ UNCHANGED <<fileVars, callVars>> /\ todo # <<>>
  BY DEF Measure, RepairInv, RepairTypeOK
<1>2. UNCHANGED <<disk, changes, disturbed, files, objects, debug, restore, source, calls>>
  BY <1>1 DEF fileVars, callVars
<1>3. PICK n \in Measurable :
        IF SizeDiffers(n)
          THEN Damage("Corrupted") /\ Advance
          ELSE IF Size[files[Row]] = 0
            THEN Report("Ok") /\ Advance
            ELSE /\ pc' = "hash" /\ seen' = seen \cup {disk[Row]}
                 /\ UNCHANGED <<todo, requiredContentObjects, reports, outcome>>
  BY DEF Measure, Goto
<1>4. disk[Row] \in seen /\ (~restore /\ ~disturbed => disk[Row] # Absent)
  BY <1>1 DEF RepairInv, LooksAtFile, ReportsExact
<1>5. disk[Row] # Absent => n = disk[Row].size
  BY DEF Measurable
<1>6. outcome = "none"
  BY <1>1 DEF RepairInv
<1>7. CASE SizeDiffers(n)
  <2> DEFINE r == [path |-> Row, result |-> "Corrupted", seen |-> seen \cup {disk[Row]}]
  <2>1. Damage("Corrupted") /\ Advance
    BY <1>3, <1>7
  <2>2. Report("Corrupted") \/ (restore /\ Damage("Corrupted"))
    BY <2>1 DEF Damage
  <2>3. ~Sound(Row, disk[Row])
    BY <1>1, <1>5, <1>7, TurnFacts DEF SizeDiffers, Sound
  <2>4. r.path = Row /\ r.result = "Corrupted" /\ disk[Row] \in r.seen
    OBVIOUS
  <2>5. Truthful(r)
    BY <2>3, <2>4 DEF Truthful
  <2>6. "Corrupted" \in Verdict /\ "Corrupted" # "Ok"
    BY DEF Verdict
  <2> QED
    BY <1>1, <1>2, <2>1, <2>2, <2>3, <2>5, <2>6, TurnEnds
<1>8. CASE ~SizeDiffers(n) /\ Size[files[Row]] = 0
  <2> DEFINE r == [path |-> Row, result |-> "Ok", seen |-> seen \cup {disk[Row]}]
  <2>1. Report("Ok") /\ Advance
    BY <1>3, <1>8
  <2>2. r.path = Row /\ r.result = "Ok" /\ r.seen = seen \cup {disk[Row]}
    OBVIOUS
  <2>3. ~restore /\ disk[Row] # Absent => Sound(Row, disk[Row])
    BY <1>1, <1>5, <1>8, TurnFacts DEF SizeDiffers
  <2>4. Truthful(r)
    BY <1>4, <1>8, <2>2, <2>3 DEF Truthful
  <2>5. ~restore /\ ~disturbed => Sound(Row, disk[Row])
    BY <1>4, <2>3
  <2>6. "Ok" \in Verdict
    BY DEF Verdict
  <2> QED
    BY <1>1, <1>2, <2>1, <2>4, <2>5, <2>6, TurnEnds
<1>9. CASE ~SizeDiffers(n) /\ Size[files[Row]] # 0
  <2>1. pc' = "hash" /\ seen' = seen \cup {disk[Row]}
        /\ UNCHANGED <<todo, requiredContentObjects, reports, outcome>>
    BY <1>3, <1>9
  <2>2. ~restore /\ ~disturbed => disk[Row].size = Size[files[Row]]
    BY <1>4, <1>5, <1>9 DEF SizeDiffers
  <2>3. ReportsExact'
    BY <1>2, <1>4, <2>1, <2>2 DEF RepairInv, ReportsExact, LooksAtFile, Row, Sound
  <2>4. ProgressMade'
    BY <1>1, <1>2, <2>1 DEF RepairInv, ProgressMade, NumFiles, ObjectCount, Recorded
  <2>5. DeathsExplained'
    BY <1>6, <2>1 DEF DeathsExplained
  <2>6. seen' \subseteq Image \cup {Absent}
    BY <1>1, <2>1, TurnFacts
  <2> QED
    BY <1>1, <1>6, <2>1, <2>3, <2>4, <2>5, <2>6, Stays
<1> QED
  BY <1>7, <1>8, <1>9

LEMMA HashInv ==
  ASSUME RepairInv, Hash
  PROVE  RepairInv'
<1>1. pc = "hash" /\ UNCHANGED <<fileVars, callVars>> /\ todo # <<>> /\ disk[Row].readable
  BY DEF Hash, RepairInv, RepairTypeOK
<1>2. UNCHANGED <<disk, changes, disturbed, files, objects, debug, restore, source, calls>>
  BY <1>1 DEF fileVars, callVars
<1>3. disk[Row] \in seen /\ disk[Row] # Absent
  BY <1>1, TurnFacts DEF RepairInv, LooksAtFile
<1>4. CASE disk[Row].hash # files[Row]
  <2> DEFINE r == [path |-> Row, result |-> "Corrupted", seen |-> seen \cup {disk[Row]}]
  <2>1. Damage("Corrupted") /\ Advance
    BY <1>4 DEF Hash
  <2>2. Report("Corrupted") \/ (restore /\ Damage("Corrupted"))
    BY <2>1 DEF Damage
  <2>3. ~Sound(Row, disk[Row])
    BY <1>4 DEF Sound
  <2>4. r.path = Row /\ r.result = "Corrupted" /\ disk[Row] \in r.seen
    OBVIOUS
  <2>5. Truthful(r)
    BY <2>3, <2>4 DEF Truthful
  <2>6. "Corrupted" \in Verdict /\ "Corrupted" # "Ok"
    BY DEF Verdict
  <2> QED
    BY <1>1, <1>2, <2>1, <2>2, <2>3, <2>5, <2>6, TurnEnds
<1>5. CASE disk[Row].hash = files[Row]
  <2> DEFINE r == [path |-> Row, result |-> "Ok", seen |-> seen \cup {disk[Row]}]
  <2>1. Report("Ok") /\ Advance
    BY <1>5 DEF Hash
  <2>2. Sound(Row, disk[Row])
    BY <1>1, <1>3, <1>5, TurnFacts DEF Sound
  <2>3. r.path = Row /\ r.result = "Ok" /\ disk[Row] \in r.seen
    OBVIOUS
  <2>4. Truthful(r)
    BY <2>2, <2>3 DEF Truthful
  <2>5. "Ok" \in Verdict
    BY DEF Verdict
  <2> QED
    BY <1>1, <1>2, <2>1, <2>2, <2>4, <2>5, TurnEnds
<1> QED
  BY <1>4, <1>5

LEMMA HashFailsInv ==
  ASSUME RepairInv, HashFails
  PROVE  RepairInv'
<1>1. /\ pc = "hash" /\ ~disk[Row].readable /\ todo # <<>>
      /\ pc' = "idle" /\ outcome' = "died"
      /\ UNCHANGED <<fileVars, callVars, todo, requiredContentObjects, reports, seen>>
  BY DEF HashFails, Stop, Goto, RepairInv, RepairTypeOK
<1>2. UNCHANGED <<disk, changes, disturbed, files, objects, debug, restore, source, calls>>
  BY <1>1 DEF fileVars, callVars
<1>3. disk[Row] \in seen
  BY <1>1 DEF RepairInv, LooksAtFile
<1>4. ReportsExact' /\ ProgressMade'
  BY <1>1, <1>2 DEF RepairInv, ReportsExact, LooksAtFile, ProgressMade, Sound
<1>5. DeathsExplained'
  BY <1>1, <1>3 DEF DeathsExplained
<1>6. seen' \subseteq Image \cup {Absent}
  BY <1>1 DEF RepairInv, Possible
<1> QED
  BY <1>1, <1>4, <1>5, <1>6, Stays

(* A call that returns has found no more files than objects, if that is    *)
(* tested.                                                                 *)
LEMMA ReturnsInv ==
  ASSUME RepairInv, pc = "exists", todo = <<>>, pc' = "idle", outcome' = "ok",
         UNCHANGED <<fileVars, callVars, todo, requiredContentObjects, reports, seen>>
  PROVE  RepairInv'
<1>1. UNCHANGED <<disk, changes, disturbed, files, objects, debug, restore, source, calls>>
  BY DEF fileVars, callVars
<1>2. ReportsExact'
  BY <1>1 DEF RepairInv, ReportsExact, LooksAtFile, Sound
<1>3. ProgressMade'
  BY <1>1 DEF RepairInv, ProgressMade, NumFiles, ObjectCount, Recorded
<1>4. debug => NumFiles <= ObjectCount
  <2>1. NumFiles \in Nat /\ Len(todo) = 0
    BY Counts DEF RepairInv, RepairTypeOK
  <2> QED
    BY <2>1 DEF RepairInv, ProgressMade
<1>5. DeathsExplained'
  BY <1>1, <1>4 DEF DeathsExplained, NumFiles, ObjectCount, Recorded
<1>6. seen' \subseteq Image \cup {Absent}
  BY DEF RepairInv, Possible
<1> QED
  BY <1>2, <1>3, <1>5, <1>6, Stays

LEMMA FetchDiesInv ==
  ASSUME RepairInv, FetchDies
  PROVE  RepairInv'
<1>1. /\ pc = "exists" /\ restore
      /\ IF source.packed
           THEN Duplicates
           ELSE \E i \in DOMAIN requiredContentObjects :
                  requiredContentObjects[i] \notin source.contents
      /\ pc' = "idle" /\ outcome' = "died"
      /\ UNCHANGED <<fileVars, callVars, todo, requiredContentObjects, reports, seen>>
  BY DEF FetchDies, Stop, Goto
<1>2. UNCHANGED <<disk, changes, disturbed, files, objects, debug, restore, source, calls>>
  BY <1>1 DEF fileVars, callVars
<1>3. Duplicates \/ source.contents = {}
  BY <1>1 DEF RepairInv, RequiredRecorded, Possible
<1>4. ReportsExact' /\ ProgressMade'
  BY <1>1, <1>2 DEF RepairInv, ReportsExact, LooksAtFile, ProgressMade, Sound
<1>5. DeathsExplained'
  BY <1>1, <1>2, <1>3 DEF DeathsExplained, Duplicates
<1>6. seen' \subseteq Image \cup {Absent}
  BY <1>1 DEF RepairInv, Possible
<1> QED
  BY <1>1, <1>4, <1>5, <1>6, Stays

LEMMA FailInv ==
  ASSUME RepairInv, Fail
  PROVE  RepairInv'
<1>1. /\ pc = "exists" /\ pc' = "idle" /\ outcome' = "error"
      /\ UNCHANGED <<fileVars, callVars, todo, requiredContentObjects, reports, seen>>
  BY DEF Fail, Stop, Goto
<1>2. UNCHANGED <<disk, changes, disturbed, files, objects, debug, restore, source, calls>>
  BY <1>1 DEF fileVars, callVars
<1>3. ReportsExact' /\ ProgressMade' /\ DeathsExplained'
  BY <1>1, <1>2 DEF RepairInv, ReportsExact, LooksAtFile, ProgressMade, DeathsExplained, Sound
<1>4. seen' \subseteq Image \cup {Absent}
  BY <1>1 DEF RepairInv, Possible
<1> QED
  BY <1>1, <1>3, <1>4, Stays

LEMMA ChangeInv ==
  ASSUME RepairInv, Change
  PROVE  RepairInv'
<1>0. PICK p \in DOMAIN files : \E image \in Damaged(p) \cup {Original(p)} :
        /\ disk' = [disk EXCEPT ![p] = image]
        /\ seen' = IF pc \in {"stat", "hash"} /\ p = Row THEN seen \cup {image} ELSE seen
  BY DEF Change
<1>1. PICK image \in Damaged(p) \cup {Original(p)} :
        /\ disk' = [disk EXCEPT ![p] = image]
        /\ seen' = IF pc \in {"stat", "hash"} /\ p = Row THEN seen \cup {image} ELSE seen
  BY <1>0
<1>2. /\ changes < MaxChanges /\ changes' = changes + 1 /\ disturbed' = TRUE
      /\ UNCHANGED <<files, objects, debug, restore, source, calls>>
      /\ UNCHANGED <<pc, todo, measured, requiredContentObjects, reports, outcome>>
  BY DEF Change, callVars
<1>3. RepairTypeOK /\ files \in Databases /\ disk \in [DOMAIN files -> Image \cup {Absent}]
      /\ objects \subseteq Contents /\ changes \in 0..MaxChanges
  BY DEF RepairInv, RepairTypeOK
<1>4. image \in Image \cup {Absent}
  BY <1>3, Images
<1>5. disk' \in [DOMAIN files -> Image \cup {Absent}] /\ changes' \in 0..MaxChanges
  BY <1>1, <1>2, <1>3, <1>4, RepairAssumption
<1>6. RepairTypeOK'
  BY <1>2, <1>3, <1>5 DEF RepairTypeOK, Recorded
<1>7. Possible'
  BY <1>1, <1>2, <1>4 DEF RepairInv, Possible, Recorded
<1>8. DiskPossible'
  <2>1. \A q \in DOMAIN files : disk'[q] \in Damaged(q) \cup {Original(q)}
    BY <1>1, <1>3 DEF RepairInv, DiskPossible
  <2> QED
    BY <1>2, <2>1 DEF DiskPossible, Damaged, Original
<1>9. RequiredRecorded' /\ (\A i \in DOMAIN reports : Truthful(reports[i]))'
  BY <1>2 DEF RepairInv, RequiredRecorded, Recorded, Truthful, Sound
<1>10. ReportsListed'
  BY <1>2 DEF RepairInv, ReportsListed, NumFiles, Listings, BySize
<1>11. ReportsExact'
  BY <1>2 DEF ReportsExact
<1>12. ProgressMade'
  BY <1>2 DEF RepairInv, ProgressMade, NumFiles, ObjectCount, Recorded
<1>13. (LooksAtFile => disk[Row] \in seen)'
  <2>1. ASSUME LooksAtFile
        PROVE  disk'[Row] \in seen'
    <3>1. disk[Row] \in seen /\ todo # <<>>
      BY <2>1 DEF RepairInv, RepairTypeOK, LooksAtFile
    <3>2. Row \in DOMAIN files
      BY <3>1, TurnFacts
    <3> QED
      BY <1>1, <1>3, <2>1, <3>1, <3>2 DEF LooksAtFile
  <2> QED
    BY <1>2, <2>1 DEF LooksAtFile, Row
<1>14. /\ (pc # "idle" => outcome = "none" /\ calls # 0)'
       /\ (outcome = "ok" => todo = <<>> /\ calls # 0)'
  BY <1>2 DEF RepairInv
<1>15. DeathsExplained'
  <2>1. outcome = "died" => seen' = seen
    BY <1>1 DEF RepairInv
  <2> QED
    BY <1>2, <2>1 DEF RepairInv, DeathsExplained, Duplicates, Recorded
<1> QED
  BY <1>6, <1>7, <1>8, <1>9, <1>10, <1>11, <1>12, <1>13, <1>14, <1>15 DEF RepairInv

LEMMA NextInv ==
  ASSUME RepairInv, [Next]_vars
  PROVE  RepairInv'
<1>1. ASSUME NEW restoring \in BOOLEAN, RepairImpl(restoring)
      PROVE  RepairInv'
  BY <1>1, RepairImplInv
<1>2. CASE Exists
  BY <1>2, ExistsInv
<1>3. CASE Measure
  BY <1>3, MeasureInv
<1>4. CASE Hash
  BY <1>4, HashInv
<1>5. CASE HashFails
  BY <1>5, HashFailsInv
<1>6. CASE Verified
  BY <1>6, ReturnsInv DEF Verified, Stop, Goto
<1>7. CASE FetchDies
  BY <1>7, FetchDiesInv
<1>8. CASE Fetch
  BY <1>8, ReturnsInv DEF Fetch, Stop, Goto
<1>9. CASE Fail
  BY <1>9, FailInv
<1>10. CASE Change
  BY <1>10, ChangeInv
<1>11. CASE Finished \/ UNCHANGED vars
  <2>1. UNCHANGED vars
    BY <1>11 DEF Finished
  <2> QED
    <3>1. RepairTypeOK' /\ Possible'
      BY <2>1 DEF vars, fileVars, callVars, RepairInv, RepairTypeOK, Possible, Recorded
    <3>2. DiskPossible' /\ (LooksAtFile => disk[Row] \in seen)' /\ RequiredRecorded'
      BY <2>1 DEF vars, fileVars, callVars, RepairInv, DiskPossible, Damaged, Original,
                  LooksAtFile, Row, RequiredRecorded, Recorded
    <3>3. (\A i \in DOMAIN reports : Truthful(reports[i]))'
      BY <2>1 DEF vars, fileVars, callVars, RepairInv, Truthful, Sound
    <3>4. ReportsListed'
      BY <2>1 DEF vars, fileVars, callVars, RepairInv, ReportsListed, NumFiles, Listings, BySize
    <3>5. ReportsExact' /\ ProgressMade' /\ DeathsExplained'
      BY <2>1 DEF vars, fileVars, callVars, RepairInv, ReportsExact, LooksAtFile, Row, Sound,
                  ProgressMade, NumFiles, ObjectCount, Recorded, DeathsExplained, Duplicates
    <3>6. /\ (pc # "idle" => outcome = "none" /\ calls # 0)'
          /\ (outcome = "ok" => todo = <<>> /\ calls # 0)'
      BY <2>1 DEF vars, fileVars, callVars, RepairInv
    <3> QED
      BY <3>1, <3>2, <3>3, <3>4, <3>5, <3>6 DEF RepairInv
<1> QED
  BY <1>1, <1>2, <1>3, <1>4, <1>5, <1>6, <1>7, <1>8, <1>9, <1>10, <1>11 DEF Next, Step

-----------------------------------------------------------------------------
(* The invariant that carries the proofs.                                  *)
THEOREM RepairCorrect == Spec => []RepairInv
<1>1. Init => RepairInv
  BY InitInv
<1>2. RepairInv /\ [Next]_vars => RepairInv'
  BY NextInv
<1> QED
  BY <1>1, <1>2, PTL DEF Spec

(* Whatever other processes do, the state keeps its types, and a call has  *)
(* put each file on one of the two lists (DeployedRepository.cpp:89-144).  *)
THEOREM TypeCorrect == Spec => []RepairTypeOK
<1>1. RepairInv => RepairTypeOK
  BY DEF RepairInv
<1> QED
  BY <1>1, RepairCorrect, PTL

(* However many processes change however many files, each report was true  *)
(* of its file at a moment of its turn (DeployedRepository.cpp:95-144).    *)
THEOREM ReportsCorrect == Spec => []ReportsTrue
<1>1. RepairInv => ReportsTrue
  BY DEF RepairInv, ReportsTrue, Truthful
<1> QED
  BY <1>1, RepairCorrect, PTL

(* For all databases: the assertion on the progress fails only if two      *)
(* files share a content, always if there are more files than rows of      *)
(* fs_contents, and nothing else ends the process but what is named        *)
(* (DeployedRepository.cpp:78-87, Repository.h:65).                        *)
THEOREM DeathsCorrect == Spec => []DeathsExplained
<1>1. RepairInv => DeathsExplained
  BY DEF RepairInv
<1> QED
  BY <1>1, RepairCorrect, PTL

LEMMA ReportedOnce ==
  ASSUME RepairInv, pc = "idle", outcome = "ok", ~restore, ~disturbed, NEW p \in DOMAIN files
  PROVE  /\ Cardinality({i \in DOMAIN reports : reports[i].path = p}) = 1
         /\ \A i \in DOMAIN reports : reports[i].path = p =>
              (reports[i].result = "Ok" <=> Sound(p, disk[p]))
<1>1. files \in Databases /\ reports \in Seq([path : Paths, result : Verdict,
                                             seen : SUBSET (Image \cup {Absent})])
  BY DEF RepairInv, RepairTypeOK
<1>2. NumFiles \in Nat /\ IsFiniteSet(DOMAIN files)
  BY <1>1, Counts DEF RepairInv, RepairTypeOK
<1>3. calls # 0 /\ todo = <<>>
  BY DEF RepairInv
<1>4. PICK order \in Listings :
        /\ Len(reports) + Len(todo) = NumFiles
        /\ \A i \in DOMAIN reports : reports[i].path = order[i]
  BY <1>3 DEF RepairInv, ReportsListed
<1>5. DOMAIN reports = 1..NumFiles
  BY <1>1, <1>2, <1>3, <1>4
<1>6. order \in Injection(1..NumFiles, DOMAIN files)
  BY <1>4 DEF Listings, NumFiles, Injection, IsInjective
<1>7. order \in Surjection(1..NumFiles, DOMAIN files)
  BY <1>2, <1>6, FS_Injection, FS_Interval DEF NumFiles
<1>8. PICK k \in 1..NumFiles : order[k] = p
  BY <1>7 DEF Surjection
<1>9. {i \in DOMAIN reports : reports[i].path = p} = {k}
  BY <1>4, <1>5, <1>8 DEF Listings, NumFiles
<1>10. Cardinality({k}) = 1
  BY FS_Singleton
<1>11. \A i \in DOMAIN reports : reports[i].path = p =>
         (reports[i].result = "Ok" <=> Sound(p, disk[p]))
  BY DEF RepairInv, ReportsExact
<1> QED
  BY <1>9, <1>10, <1>11

(* For all databases: an undisturbed Verify that returns has reported each *)
(* file once, and as it is (DeployedRepository.cpp:89-144).                *)
THEOREM VerifyCorrect == Spec => []VerifyFindsDamage
<1>1. RepairInv => VerifyFindsDamage
  BY ReportedOnce DEF VerifyFindsDamage
<1> QED
  BY <1>1, RepairCorrect, PTL

=============================================================================
