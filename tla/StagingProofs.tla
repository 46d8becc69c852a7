---------------------------- MODULE StagingProofs ----------------------------
(***************************************************************************)
(* Staging plans its reads as module Batching does, whatever ends its      *)
(* attempts: so what is proved of Batching holds in Staging.  From there   *)
(* the chunks of a content are followed to its files:                      *)
(*   - ComingInv: what is planned so far can be delivered chunk by chunk,  *)
(*     each requested content begins in it or in a package to come;        *)
(*   - ArrivingInv: the same of what is to arrive, where the chunk to come *)
(*     goes on with the open staging file;                                 *)
(*   - LoopInv, RowsInv, BytesInv: files have their bytes before their     *)
(*     rows, and no bytes of another content;                              *)
(*   - CutsInv, HealInv: what an attempt that was cut short leaves.        *)
(***************************************************************************)
EXTENDS Staging, BatchingProofs, SequenceTheorems, WellFoundedInduction

(* The wanted contents are contents.                                       *)
LEMMA WantedContents == Wanted \subseteq Contents
BY DEF Wanted

(* Every step plans, or leaves the plan alone.                             *)
LEMMA StepPlans ==
  ASSUME [Next]_vars
  PROVE  [PlanNext]_planVars
<1>1. CASE Configure
  <2>1. CASE kind = "packed"
    <3>1. Prepare(Wanted \ Referenced)
      BY <1>1, <2>1 DEF Configure
    <3> QED
      BY <3>1, WantedContents DEF PlanNext
  <2>2. CASE kind # "packed"
    BY <1>1, <2>2 DEF Configure
  <2> QED
    BY <2>1, <2>2
<1>2. CASE Plan
  BY <1>2 DEF Plan, PlanNext
<1>3. CASE StartThreads
  BY <1>3 DEF StartThreads
<1>4. CASE Receive
  BY <1>4 DEF Receive
<1>5. CASE ReceiveTwice
  BY <1>5 DEF ReceiveTwice
<1>6. CASE WriteTarget
  BY <1>6 DEF WriteTarget
<1>7. CASE CopyBlocked
  BY <1>7 DEF CopyBlocked
<1>8. CASE CallbackReturns
  BY <1>8 DEF CallbackReturns
<1>9. CASE TransferEnds
  BY <1>9 DEF TransferEnds
<1>10. CASE PlanFails
  BY <1>10 DEF PlanFails
<1>11. CASE TransferFails
  BY <1>11 DEF TransferFails
<1>12. CASE Crash
  BY <1>12 DEF Crash
<1>13. CASE Finished \/ UNCHANGED vars
  BY <1>13 DEF Finished, vars
<1> QED
  BY <1>1, <1>2, <1>3, <1>4, <1>5, <1>6, <1>7, <1>8, <1>9, <1>10, <1>11, <1>12, <1>13
  DEF Next, Work

(* The transfer, with its failures, crashes and second attempts, plans as  *)
(* PlanSpec says (PackedRepositoryBase.cpp:690-875).                       *)
THEOREM StagingPlans == Spec => PlanSpec
<1>1. Init => PlanInit
  BY DEF Init
<1>2. [Next]_vars => [PlanNext]_planVars
  BY StepPlans
<1> QED
  BY <1>1, <1>2, PTL DEF Spec, PlanSpec

(* In the transfer, too, each chunk lies within the bytes of its batch     *)
(* (PackedRepositoryBase.cpp:499-508).                                     *)
THEOREM TransferSlices == Spec => []SlicesInRange
BY StagingPlans, SlicesCorrect, PTL

(* In the transfer, too, reads are bounded (PackedRepositoryBase.cpp:828-866). *)
THEOREM TransferReads == Spec => []ReadsBounded
BY StagingPlans, ReadsCorrect, PTL

-----------------------------------------------------------------------------
(* FlattenSeq joins sequences: its value from the one before               *)

(* A set of numbers has a smallest one.                                    *)
LEMMA SmallestExists ==
  ASSUME NEW T, T \subseteq Nat, T # {}
  PROVE  \E n \in T : \A m \in T : n <= m
<1> DEFINE R == OpToRel(<, Nat)
<1>1. \E n \in T : \A m \in T : ~ (<<m, n>> \in R)
  <2> HIDE DEF R
  <2>1. IsWellFoundedOn(R, Nat)
    BY NatLessThanWellFounded DEF R
  <2> QED
    BY <2>1, WFMin
<1>2. PICK n \in T : \A m \in T : ~ (<<m, n>> \in R)
  BY <1>1
<1>3. ASSUME NEW m \in T PROVE n <= m
  <2>1. m \in Nat /\ n \in Nat
    OBVIOUS
  <2>2. m < n => <<m, n>> \in R
    BY <2>1 DEF OpToRel
  <2> HIDE DEF R
  <2> QED
    BY <1>2, <2>1, <2>2
<1> QED
  BY <1>3

(* The recursion of FlattenSeq, whose value at i joins the first i.        *)
Joins(f, n, seqs) == f = [i \in 1..n |-> IF i = 1 THEN seqs[i] ELSE f[i-1] \o seqs[i]]

(* FlattenSeq is the last value of its recursion,                          *)
LEMMA FlattenIs ==
  ASSUME NEW seqs, Len(seqs) # 0
  PROVE  FlattenSeq(seqs) = (CHOOSE f : Joins(f, Len(seqs), seqs))[Len(seqs)]
BY DEF FlattenSeq, Joins

(* which has a solution,                                                   *)
LEMMA JoinsExists ==
  ASSUME NEW seqs, NEW n \in Nat
  PROVE  \E f : Joins(f, n, seqs)
<1> DEFINE T == {m \in Nat : ~ \E f : Joins(f, m, seqs)}
<1>1. SUFFICES ASSUME T # {} PROVE FALSE
  OBVIOUS
<1>2. PICK m \in T : \A k \in T : m <= k
  <2> HIDE DEF T
  <2>1. T \subseteq Nat
    BY DEF T
  <2> QED  BY <1>1, <2>1, SmallestExists
<1>3. m \in Nat /\ ~ \E f : Joins(f, m, seqs)
  OBVIOUS
<1>4. CASE m = 0
  <2>1. Joins([i \in 1..0 |-> <<>>], 0, seqs)
    BY DEF Joins
  <2> QED  BY <1>3, <1>4, <2>1
<1>5. CASE m # 0
  <2>1. m - 1 \in Nat /\ ~ (m <= m - 1)
    BY <1>3, <1>5
  <2>2. PICK f : Joins(f, m - 1, seqs)
    BY <1>2, <2>1
  <2> DEFINE g == [i \in 1..m |-> IF i = 1 THEN seqs[i] ELSE f[i-1] \o seqs[i]]
  <2>3. ASSUME NEW i \in 1..(m-1) PROVE g[i] = f[i]
    <3>1. i \in 1..m
      BY <1>3
    <3>2. f[i] = IF i = 1 THEN seqs[i] ELSE f[i-1] \o seqs[i]
      BY <2>2 DEF Joins
    <3> QED  BY <3>1, <3>2
  <2>4. ASSUME NEW i \in 1..m, i # 1 PROVE f[i-1] = g[i-1]
    <3>1. i - 1 \in 1..(m-1)
      BY <1>3, <2>4
    <3> QED  BY <2>3, <3>1
  <2>5. g = [i \in 1..m |-> IF i = 1 THEN seqs[i] ELSE g[i-1] \o seqs[i]]
    BY <2>4
  <2>6. Joins(g, m, seqs)
    BY <2>5 DEF Joins
  <2> QED  BY <1>3, <2>6
<1> QED  BY <1>4, <1>5

(* and only one.                                                           *)
LEMMA JoinsUnique ==
  ASSUME NEW S, NEW seqs \in Seq(Seq(S)), NEW more, NEW n \in Nat, n <= Len(seqs),
         \A i \in 1..n : more[i] = seqs[i],
         NEW m \in Nat, n <= m,
         NEW f, Joins(f, n, seqs), NEW g, Joins(g, m, more)
  PROVE  \A i \in 1..n : f[i] = g[i] /\ f[i] \in Seq(S)
<1> DEFINE T == {i \in 1..n : ~ (f[i] = g[i] /\ f[i] \in Seq(S))}
<1>1. SUFFICES ASSUME T # {} PROVE FALSE
  OBVIOUS
<1>2. PICK i \in T : \A k \in T : i <= k
  <2> HIDE DEF T
  <2>1. T \subseteq Nat
    BY DEF T
  <2> QED  BY <1>1, <2>1, SmallestExists
<1>3. i \in 1..n /\ i \in 1..m /\ seqs[i] \in Seq(S) /\ more[i] = seqs[i]
  OBVIOUS
<1>4. /\ f[i] = IF i = 1 THEN seqs[i] ELSE f[i-1] \o seqs[i]
      /\ g[i] = IF i = 1 THEN more[i] ELSE g[i-1] \o more[i]
  BY <1>3 DEF Joins
<1>5. CASE i = 1
  BY <1>3, <1>4, <1>5
<1>6. CASE i # 1
  <2>1. i - 1 \in 1..n /\ ~ (i <= i - 1)
    BY <1>3, <1>6
  <2>2. i - 1 \notin T
    BY <1>2, <2>1
  <2>3. f[i-1] = g[i-1] /\ f[i-1] \in Seq(S)
    BY <2>1, <2>2
  <2>4. f[i-1] \o seqs[i] \in Seq(S)
    BY <1>3, <2>3
  <2> QED  BY <1>3, <1>4, <1>6, <2>3, <2>4
<1> QED  BY <1>5, <1>6

(* Flattening goes element by element.                                     *)
LEMMA FlattenAppend ==
  ASSUME NEW S, NEW seqs \in Seq(Seq(S)), NEW s \in Seq(S)
  PROVE  /\ FlattenSeq(seqs) \in Seq(S)
         /\ FlattenSeq(Append(seqs, s)) = FlattenSeq(seqs) \o s
<1> DEFINE n == Len(seqs)
           more == Append(seqs, s)
           f == CHOOSE f : Joins(f, n, seqs)
           g == CHOOSE g : Joins(g, n + 1, more)
<1>1. n \in Nat /\ Len(more) = n + 1 /\ n + 1 \in Nat
  OBVIOUS
<1>2. /\ \A i \in 1..n : more[i] = seqs[i]
      /\ more[n + 1] = s
  OBVIOUS
<1>3. Joins(f, n, seqs) /\ Joins(g, n + 1, more)
  BY <1>1, JoinsExists
<1>4. FlattenSeq(more) = g[n + 1]
  <2>1. Len(more) # 0
    BY <1>1
  <2>2. FlattenSeq(more) = (CHOOSE h : Joins(h, Len(more), more))[Len(more)]
    BY <2>1, FlattenIs
  <2> QED  BY <1>1, <2>2
<1>5. CASE n = 0
  <2>1. FlattenSeq(seqs) = <<>>
    BY <1>5 DEF FlattenSeq
  <2>2. g[n + 1] = s
    <3> HIDE DEF g, more, n
    <3> QED  BY <1>2, <1>3, <1>5 DEF Joins
  <2> QED  BY <1>4, <2>1, <2>2
<1>6. CASE n # 0
  <2>1. FlattenSeq(seqs) = f[n]
    BY <1>6, FlattenIs
  <2> HIDE DEF f, g, more, n
  <2>2. \A i \in 1..n : f[i] = g[i] /\ f[i] \in Seq(S)
    <3>1. n <= Len(seqs) /\ n <= n + 1
      BY <1>1 DEF n
    <3> QED  BY <1>1, <1>2, <1>3, <3>1, JoinsUnique
  <2>3. n \in 1..n /\ n + 1 \in 1..(n + 1) /\ (n + 1) - 1 = n /\ n + 1 # 1
    BY <1>1, <1>6
  <2>4. g[n + 1] = g[n] \o more[n + 1]
    BY <1>3, <2>3 DEF Joins
  <2> QED  BY <1>2, <1>4, <2>1, <2>2, <2>3, <2>4 DEF more
<1> QED  BY <1>5, <1>6

-----------------------------------------------------------------------------
(* The invariant                                                           *)

Sized(chunk) ==
  /\ chunk.sourceOffset + chunk.sourceSize <= TotalSize[chunk.content]
  /\ chunk.sourceSize = 0 => TotalSize[chunk.content] = 0

Starts(chunks) == chunks # <<>> => chunks[1].sourceOffset = 0

(* A content that has begun goes on until it is complete.                  *)
Linked(chunks) ==
  \A i \in DOMAIN chunks :
    IF Completes(chunks[i])
      THEN i + 1 \in DOMAIN chunks => chunks[i + 1].sourceOffset = 0
      ELSE i + 1 \in DOMAIN chunks /\ Continues(chunks[i], chunks[i + 1])

(* What may be delivered twice.                                            *)
Repeated == {c \in Wanted : kind = "packed" /\ InTwoPackages(c)}

BeginsOnce(chunks, twice) ==
  \A i, j \in DOMAIN chunks :
    (/\ chunks[i].sourceOffset = 0 /\ chunks[j].sourceOffset = 0
     /\ chunks[i].content = chunks[j].content)
    => i = j \/ chunks[i].content \in twice

(* Chunks that can be delivered one after the other.                       *)
InPieces(chunks, twice) ==
  /\ chunks \in Seq(Chunk)
  /\ Linked(chunks) /\ BeginsOnce(chunks, twice)
  /\ \A i \in DOMAIN chunks : Sized(chunks[i]) /\ chunks[i].content \in Wanted

BeginsIn(chunks, c) == \E i \in DOMAIN chunks : Begins(chunks[i], c)

(* What the threads will be given of the packages visited so far.          *)
Requests == [k \in DOMAIN batchReadRequests |-> batchReadRequests[k].requests]
Rest == SubSeq(readRequests, index, Len(readRequests))
Coming == (FlattenSeq(Requests) \o batch.requests) \o Rest

ComingInv ==
  pc = "plan" =>
    /\ kind = "packed" /\ stagingFile = NoContent /\ saved = db
    /\ requested = Wanted \ db.contents
    /\ InPieces(Coming, Repeated) /\ Starts(Coming)
    /\ \A i \in DOMAIN Coming :
         /\ Coming[i].content \in requested
         /\ \E p \in Packages \ toVisit : Holds(p, {Coming[i].content}) # {}
    /\ \A c \in requested :
         BeginsIn(Coming, c) \/ \E p \in toVisit : BeginsIn(stored[p], c)

Database == [contents : SUBSET Contents, files : UNION {[D -> Contents] : D \in SUBSET Paths}]
Image == [content : Contents \cup {NoContent}, bytes : SUBSET Nat]

StagingTypeOK ==
  /\ stored \in Layouts
  /\ kind \in {"packed", "deployed"}
  /\ db \in Database /\ saved \in Database
  /\ disk \in [Paths -> Image] /\ temporary \in [Contents -> Image]
  /\ stagingFile \in Contents \cup {NoContent}
  /\ pc \in {"idle", "plan", "transfer", "targets"}
  /\ arriving \in Seq(Chunk) /\ current \in Chunk \cup {NoChunk}
  /\ staged \in BOOLEAN /\ targets \in Seq(Paths)
  /\ lost \subseteq Contents

(* What is known of the chunks whose callback is to come.                  *)
ArrivingInv ==
  pc \in {"transfer", "targets"} =>
    /\ InPieces(arriving, Repeated)
    /\ kind = "deployed" => \A i \in DOMAIN arriving : Whole(arriving[i])
    /\ IF stagingFile = NoContent
         THEN Starts(arriving)
         ELSE /\ arriving # <<>>
              /\ arriving[1].content = stagingFile /\ arriving[1].sourceOffset # 0
              /\ \/ stagingFile \in lost
                 \/ /\ temporary[stagingFile].content = stagingFile
                    /\ 0 .. (arriving[1].sourceOffset - 1) \subseteq temporary[stagingFile].bytes
              /\ stagingFile \in db.contents => stagingFile \in Repeated
    /\ \A i \in DOMAIN arriving :
         arriving[i].sourceOffset = 0 /\ arriving[i].content \in db.contents \cup {stagingFile}
           => arriving[i].content \in Repeated
    /\ \A c \in Wanted \ (db.contents \cup {stagingFile}) : BeginsIn(arriving, c)

(* No file has a byte beyond its content.                                  *)
BytesInv ==
  /\ \A c \in Contents : temporary[c].bytes \subseteq 0 .. (TotalSize[c] - 1)
  /\ \A c \in Contents : \A i \in DOMAIN Targets[c] :
       disk[Targets[c][i]].bytes \subseteq 0 .. (TotalSize[c] - 1)

Rows(d) ==
  \A p \in DOMAIN d.files :
    /\ d.files[p] \in d.contents
    /\ \E i \in DOMAIN Targets[d.files[p]] : p = Targets[d.files[p]][i]
    /\ d.files[p] \in lost \/ disk[p] = AllOf(d.files[p])

RowsInv ==
  /\ Rows(db) /\ Rows(saved)
  /\ saved.contents \subseteq db.contents
  /\ pc = "idle" => saved = db /\ stagingFile = NoContent

Done == Len(Targets[current.content]) - Len(targets)

(* The loop over the files of a content.                                   *)
LoopInv ==
  pc = "targets" =>
    /\ stagingFile = NoContent
    /\ current \in Chunk /\ current.content \in Wanted
    /\ current.content \in db.contents /\ current.content \notin saved.contents
    /\ staged <=> ~Whole(current)
    /\ kind = "deployed" => ~staged
    /\ Done \in Nat
    /\ \A i \in DOMAIN targets :
         targets[i] = Targets[current.content][Done + i] /\ targets[i] \notin DOMAIN db.files
    /\ \A i \in 1 .. Done : Targets[current.content][i] \in DOMAIN db.files
    /\ staged /\ First /\ current.content \notin lost
         => temporary[current.content] = AllOf(current.content)

(* Files without a row are left by what went wrong.                        *)
CutsInv ==
  /\ kind = "packed" /\ cuts \cap {"crash", "failure"} = {} =>
       \A p \in Paths : disk[p] # Absent => p \in DOMAIN db.files
  /\ CutsExplained

Full(d, contents) ==
  \A c \in contents : \A i \in DOMAIN Targets[c] : Targets[c][i] \in DOMAIN d.files

(* Only an error that got lost leaves a content with some of its files.    *)
HealInv ==
  /\ (kind = "packed" => cuts \cap {"failure", "blocked"} = {}) =>
       /\ Full(saved, saved.contents)
       /\ Full(db, IF pc = "targets" THEN db.contents \ {current.content} ELSE db.contents)
  /\ pc = "idle" /\ ending = "ok" => Wanted \subseteq saved.contents

TransferInv ==
  /\ StagingTypeOK /\ ComingInv /\ ArrivingInv /\ BytesInv /\ RowsInv /\ LoopInv
  /\ CutsInv /\ HealInv

-----------------------------------------------------------------------------
(* Chunks that go on until their content is complete                       *)

LEMMA WrittenIsLinked ==
  ASSUME NEW s, WrittenInOrder(s)
  PROVE  /\ Starts(s) /\ Linked(s)
         /\ \A i \in DOMAIN s : Sized(s[i])
  BY DEF WrittenInOrder, Starts, Linked, Sized

(* What follows a chunk in a sequence follows it in a longer one.          *)
LEMMA JoinLinked ==
  ASSUME NEW a \in Seq(Chunk), NEW b \in Seq(Chunk),
         Starts(a), Linked(a), Starts(b), Linked(b)
  PROVE  Starts(a \o b) /\ Linked(a \o b)
<1> DEFINE ab == a \o b
<1>1. /\ Len(a) \in Nat /\ Len(b) \in Nat
      /\ DOMAIN a = 1..Len(a) /\ DOMAIN b = 1..Len(b)
      /\ DOMAIN ab = 1..(Len(a) + Len(b))
      /\ \A i \in 1..Len(a) : ab[i] = a[i]
      /\ \A i \in 1..Len(b) : ab[Len(a) + i] = b[i]
      /\ a = <<>> <=> Len(a) = 0
      /\ b = <<>> <=> Len(b) = 0
      /\ ab = <<>> <=> Len(a) + Len(b) = 0
  OBVIOUS
<1> HIDE DEF ab
<1>2. Starts(ab)
  <2>1. CASE Len(a) = 0
    <3>1. ab # <<>> => b # <<>> /\ ab[1] = b[1]
      BY <1>1, <2>1
    <3> QED  BY <3>1 DEF Starts
  <2>2. CASE Len(a) # 0
    <3>1. a # <<>> /\ ab[1] = a[1]
      BY <1>1, <2>2
    <3> QED  BY <3>1 DEF Starts
  <2> QED  BY <2>1, <2>2
<1>3. Linked(ab)
  <2>1. SUFFICES ASSUME NEW i \in 1..(Len(a) + Len(b))
                 PROVE  IF Completes(ab[i])
                          THEN i + 1 \in DOMAIN ab => ab[i + 1].sourceOffset = 0
                          ELSE i + 1 \in DOMAIN ab /\ Continues(ab[i], ab[i + 1])
    BY <1>1 DEF Linked
  <2>2. CASE i < Len(a)
    <3>1. i \in DOMAIN a /\ i + 1 \in DOMAIN a /\ i + 1 \in DOMAIN ab
          /\ ab[i] = a[i] /\ ab[i + 1] = a[i + 1]
      BY <1>1, <2>1, <2>2
    <3> QED  BY <3>1 DEF Linked
  <2>3. CASE i = Len(a)
    <3>1. i \in DOMAIN a /\ i + 1 \notin DOMAIN a /\ ab[i] = a[i]
      BY <1>1, <2>1, <2>3
    <3>2. Completes(ab[i])
      BY <3>1 DEF Linked
    <3>3. i + 1 \in DOMAIN ab => b # <<>> /\ ab[i + 1] = b[1]
      BY <1>1, <2>1, <2>3
    <3> QED  BY <3>2, <3>3 DEF Starts
  <2>4. CASE i > Len(a)
    <3> DEFINE k == i - Len(a)
    <3>1. k \in 1..Len(b) /\ i = Len(a) + k /\ i + 1 = Len(a) + (k + 1)
      BY <1>1, <2>1, <2>4
    <3>2. k \in DOMAIN b /\ ab[i] = b[k]
      BY <1>1, <3>1
    <3>3. /\ i + 1 \in DOMAIN ab <=> k + 1 \in DOMAIN b
          /\ k + 1 \in DOMAIN b => ab[i + 1] = b[k + 1]
      BY <1>1, <3>1
    <3> HIDE DEF k, ab
    <3>4. IF Completes(b[k])
            THEN k + 1 \in DOMAIN b => b[k + 1].sourceOffset = 0
            ELSE k + 1 \in DOMAIN b /\ Continues(b[k], b[k + 1])
      BY <3>2 DEF Linked
    <3>5. CASE Completes(b[k])
      <4>1. Completes(ab[i])
        BY <3>2, <3>5
      <4>2. i + 1 \in DOMAIN ab => ab[i + 1].sourceOffset = 0
        BY <3>3, <3>4, <3>5
      <4> QED  BY <4>1, <4>2
    <3>6. CASE ~Completes(b[k])
      <4>1. ~Completes(ab[i])
        BY <3>2, <3>6
      <4>2. i + 1 \in DOMAIN ab /\ Continues(ab[i], ab[i + 1])
        <5>1. k + 1 \in DOMAIN b /\ Continues(b[k], b[k + 1])
          BY <3>4, <3>6
        <5>2. ab[i] = b[k] /\ ab[i + 1] = b[k + 1] /\ i + 1 \in DOMAIN ab
          BY <3>2, <3>3, <5>1
        <5> QED  BY <5>1, <5>2
      <4> QED  BY <4>1, <4>2
    <3> QED  BY <3>5, <3>6
  <2>5. i < Len(a) \/ i = Len(a) \/ i > Len(a)
    <3>1. Len(a) \in Int /\ i \in Int
      <4>1. Len(a) \in Nat /\ Len(b) \in Nat
        BY <1>1
      <4> QED  BY <4>1
    <3> QED  BY <3>1
  <2> QED  BY <2>2, <2>3, <2>4, <2>5
<1> QED  BY <1>2, <1>3 DEF ab

(* The listing of a package has every chunk of what is requested.          *)
LEMMA OrderIsOnto ==
  ASSUME PlanTypeOK, NEW p \in Packages, NEW order \in InOrder(p)
  PROVE  /\ \E n \in Nat : DOMAIN order = 1..n
         /\ \A i \in DOMAIN order : order[i] \in Holds(p, requested)
         /\ \A i, j \in DOMAIN order : i < j => order[i] < order[j]
         /\ \A k \in Holds(p, requested) : \E i \in DOMAIN order : order[i] = k
<1> DEFINE H == Holds(p, requested)
           n == Cardinality(H)
<1>1. stored[p] \in Seq(Chunk)
  BY DEF PlanTypeOK
<1>2. H \subseteq 1..Len(stored[p]) /\ Len(stored[p]) \in Nat
  BY <1>1 DEF Holds
<1>3. IsFiniteSet(H) /\ n \in Nat
  <2>1. IsFiniteSet(1..Len(stored[p]))
    BY <1>2, FS_Interval
  <2> QED  BY <1>2, <2>1, FS_Subset, FS_CardinalityType
<1>4. /\ order \in [1..n -> H]
      /\ \A i, j \in DOMAIN order : i < j => order[i] < order[j]
  BY DEF InOrder
<1>5. order \in Injection(1..n, H)
  <2>1. ASSUME NEW i \in 1..n, NEW j \in 1..n, i # j PROVE order[i] # order[j]
    <3>1. order[i] \in Nat /\ order[j] \in Nat
      BY <1>2, <1>4
    <3>2. i < j \/ j < i
      BY <2>1
    <3> QED  BY <1>4, <3>1, <3>2
  <2> HIDE DEF n, H
  <2> QED  BY <1>4, <2>1 DEF Injection, IsInjective
<1>6. order \in Surjection(1..n, H)
  <2>1. Cardinality(1..n) = n
    BY <1>3, FS_Interval
  <2> HIDE DEF H
  <2> QED  BY <1>3, <1>5, <2>1, FS_Injection
<1>7. \A k \in H : \E i \in 1..n : order[i] = k
  <2> HIDE DEF n, H
  <2> QED  BY <1>6 DEF Surjection
<1> HIDE DEF n
<1> QED  BY <1>3, <1>4, <1>7

-----------------------------------------------------------------------------
(* Lists of such chunks: one after the other, and without the first        *)

LEMMA EmptyIff ==
  ASSUME NEW S, NEW s \in Seq(S)
  PROVE  s = <<>> <=> Len(s) = 0
  OBVIOUS

(* A listing keeps contents in one piece: the chunk before one that is     *)
(* listed is listed too, unless it ends a content nobody asked for.        *)
Lists(l, s, order, n, R) ==
  /\ \A i \in 1..n : order[i] \in DOMAIN s /\ s[order[i]].content \in R
  /\ \A i, j \in 1..n : i < j => order[i] < order[j]
  /\ \A k \in DOMAIN s : s[k].content \in R => \E i \in 1..n : order[i] = k
  /\ DOMAIN l = 1..n /\ \A i \in 1..n : l[i] = s[order[i]]

(* A listing in the order of the package leaves no content unfinished.     *)
LEMMA ListingLinked ==
  ASSUME NEW s \in Seq(Chunk), WrittenInOrder(s), NEW R, NEW n \in Nat, NEW order,
         NEW l \in Seq(Chunk), Lists(l, s, order, n, R)
  PROVE  Starts(l) /\ Linked(l)
<1> USE DEF Lists
<1>1. /\ Len(s) \in Nat /\ DOMAIN s = 1..Len(s)
      /\ DOMAIN l = 1..n
      /\ \A i \in 1..n : l[i] = s[order[i]] /\ order[i] \in 1..Len(s) /\ order[i] \in Int
  OBVIOUS
<1>2. ASSUME NEW k \in DOMAIN s
      PROVE  IF Completes(s[k])
               THEN k + 1 \in DOMAIN s => s[k + 1].sourceOffset = 0
               ELSE k + 1 \in DOMAIN s /\ Continues(s[k], s[k + 1])
  BY DEF WrittenInOrder
<1>3. ASSUME NEW i \in 1..n, s[order[i]].sourceOffset # 0
      PROVE  i - 1 \in 1..n /\ order[i - 1] = order[i] - 1 /\ ~Completes(s[order[i - 1]])
  <2> DEFINE k == order[i] - 1
  <2>1. order[i] # 1
    <3>1. s # <<>>
      BY <1>1
    <3> QED  BY <3>1, <1>3 DEF WrittenInOrder
  <2>2. k \in DOMAIN s /\ k + 1 = order[i] /\ k < order[i] /\ k \in Int
    BY <1>1, <2>1
  <2>3. ~Completes(s[k])
    BY <1>1, <1>2, <1>3, <2>2
  <2>4. Continues(s[k], s[k + 1])
    BY <1>2, <2>2, <2>3
  <2>5. s[k].content \in R
    <3>1. s[order[i]].content \in R
      OBVIOUS
    <3> HIDE DEF k
    <3> QED  BY <2>2, <2>4, <3>1 DEF Continues
  <2>6. PICK j \in 1..n : order[j] = k
    <3> HIDE DEF k
    <3> QED  BY <2>2, <2>5
  <2>7. j < i
    <3>1. CASE j = i
      BY <2>2, <2>6, <3>1
    <3>2. CASE i < j
      <4>1. order[i] < order[j]
        BY <3>2
      <4> QED  BY <1>1, <2>2, <2>6, <4>1
    <3> QED  BY <3>1, <3>2
  <2>8. j = i - 1
    <3> SUFFICES ASSUME j # i - 1 PROVE FALSE
      OBVIOUS
    <3>1. j < i - 1
      <4>1. i \in Int /\ j \in Int
        OBVIOUS
      <4> QED  BY <2>7, <4>1
    <3>2. i - 1 \in 1..n /\ i - 1 < i
      BY <3>1
    <3>3. order[j] < order[i - 1] /\ order[i - 1] < order[i]
      BY <3>1, <3>2
    <3>4. order[i - 1] \in Int /\ order[i] \in Int
      BY <1>1, <3>2
    <3> QED  BY <2>6, <3>3, <3>4
  <2> QED  BY <2>3, <2>6, <2>8
<1>4. Starts(l)
  <2>1. SUFFICES ASSUME l # <<>>, l[1].sourceOffset # 0 PROVE FALSE
    BY DEF Starts
  <2>2. 1 \in 1..n
    <3>1. CASE n = 0
      <4>1. l = <<>>
        BY <3>1
      <4> QED  BY <2>1, <4>1
    <3> QED  BY <3>1
  <2>3. s[order[1]].sourceOffset # 0
    BY <1>1, <2>1, <2>2
  <2> QED  BY <1>3, <2>2, <2>3
<1>5. ASSUME NEW i \in 1..n
      PROVE  IF Completes(l[i])
               THEN i + 1 \in 1..n => l[i + 1].sourceOffset = 0
               ELSE i + 1 \in 1..n /\ Continues(l[i], l[i + 1])
  <2>1. CASE Completes(l[i])
    <3>1. SUFFICES ASSUME i + 1 \in 1..n, l[i + 1].sourceOffset # 0 PROVE FALSE
      BY <2>1
    <3>2. s[order[i + 1]].sourceOffset # 0
      BY <1>1, <3>1
    <3>3. (i + 1) - 1 = i
      OBVIOUS
    <3>4. ~Completes(s[order[i]])
      BY <1>3, <3>1, <3>2, <3>3
    <3> QED  BY <1>1, <2>1, <3>4
  <2>2. CASE ~Completes(l[i])
    <3> DEFINE k == order[i]
    <3>1. k \in DOMAIN s /\ l[i] = s[k] /\ k \in Int
      BY <1>1
    <3>2. k + 1 \in DOMAIN s /\ Continues(s[k], s[k + 1])
      BY <1>2, <2>2, <3>1
    <3>3. s[k + 1].content \in R
      <4>1. s[k].content \in R
        OBVIOUS
      <4> HIDE DEF k
      <4> QED  BY <3>2, <4>1 DEF Continues
    <3>4. PICK j \in 1..n : order[j] = k + 1
      <4> HIDE DEF k
      <4> QED  BY <3>2, <3>3
    <3>5. j > i
      <4>1. CASE j = i
        BY <3>1, <3>4, <4>1
      <4>2. CASE j < i
        <5>1. order[j] < order[i]
          BY <4>2
        <5> QED  BY <3>1, <3>4, <5>1
      <4> QED  BY <4>1, <4>2
    <3>6. j = i + 1
      <4>1. SUFFICES ASSUME i + 1 < j PROVE FALSE
        BY <3>5
      <4>2. i + 1 \in 1..n /\ i < i + 1
        BY <4>1
      <4>3. order[i] < order[i + 1] /\ order[i + 1] < order[j]
        BY <4>1, <4>2
      <4>4. order[i + 1] \in Int
        BY <1>1, <4>2
      <4> QED  BY <3>1, <3>4, <4>3, <4>4
    <3>7. i + 1 \in 1..n /\ l[i + 1] = s[k + 1]
      BY <1>1, <3>4, <3>6
    <3> QED  BY <2>2, <3>1, <3>2, <3>7 DEF Continues
  <2> QED  BY <2>1, <2>2
<1>6. Linked(l)
  BY <1>1, <1>5 DEF Linked
<1> QED  BY <1>4, <1>6

(* Sequences whose contents differ, but for those that may come twice.     *)
LEMMA JoinPieces ==
  ASSUME NEW twice, NEW a, NEW b, InPieces(a, twice), Starts(a), InPieces(b, twice), Starts(b),
         \A i \in DOMAIN a, j \in DOMAIN b :
           a[i].content = b[j].content => a[i].content \in twice
  PROVE  InPieces(a \o b, twice) /\ Starts(a \o b)
<1> DEFINE ab == a \o b
<1>1. a \in Seq(Chunk) /\ b \in Seq(Chunk)
  BY DEF InPieces
<1>2. /\ ab \in Seq(Chunk)
      /\ Len(a) \in Nat /\ Len(b) \in Nat
      /\ DOMAIN a = 1..Len(a) /\ DOMAIN b = 1..Len(b)
      /\ DOMAIN ab = 1..(Len(a) + Len(b))
      /\ \A i \in 1..Len(a) : ab[i] = a[i]
      /\ \A i \in 1..Len(b) : ab[Len(a) + i] = b[i]
  BY <1>1
<1>3. Starts(ab) /\ Linked(ab)
  BY <1>1, JoinLinked DEF InPieces
<1> HIDE DEF ab
<1>4. ASSUME NEW i \in DOMAIN ab
      PROVE  \/ i \in DOMAIN a /\ ab[i] = a[i]
             \/ i - Len(a) \in DOMAIN b /\ ab[i] = b[i - Len(a)]
  <2>1. i \in Int /\ Len(a) \in Int
    BY <1>2
  <2>2. CASE i <= Len(a)
    BY <1>2, <2>2
  <2>3. CASE i > Len(a)
    <3>1. i - Len(a) \in 1..Len(b) /\ Len(a) + (i - Len(a)) = i
      BY <1>2, <2>3
    <3>2. ab[Len(a) + (i - Len(a))] = b[i - Len(a)]
      BY <1>2, <3>1
    <3> QED  BY <1>2, <3>1, <3>2
  <2> QED  BY <2>1, <2>2, <2>3
<1>5. ASSUME NEW i \in DOMAIN ab
      PROVE  Sized(ab[i]) /\ ab[i].content \in Wanted
  BY <1>4 DEF InPieces
<1>6. BeginsOnce(ab, twice)
  <2>1. SUFFICES ASSUME NEW i \in DOMAIN ab, NEW j \in DOMAIN ab,
                        ab[i].sourceOffset = 0, ab[j].sourceOffset = 0,
                        ab[i].content = ab[j].content, ab[i].content \notin twice
                 PROVE  i = j
    BY DEF BeginsOnce
  <2>2. CASE i \in DOMAIN a /\ ab[i] = a[i] /\ j \in DOMAIN a /\ ab[j] = a[j]
    BY <2>1, <2>2 DEF InPieces, BeginsOnce
  <2>3. CASE i \in DOMAIN a /\ ab[i] = a[i] /\ j - Len(a) \in DOMAIN b /\ ab[j] = b[j - Len(a)]
    BY <2>1, <2>3
  <2>4. CASE i - Len(a) \in DOMAIN b /\ ab[i] = b[i - Len(a)] /\ j \in DOMAIN a /\ ab[j] = a[j]
    BY <2>1, <2>4
  <2>5. CASE i - Len(a) \in DOMAIN b /\ ab[i] = b[i - Len(a)]
             /\ j - Len(a) \in DOMAIN b /\ ab[j] = b[j - Len(a)]
    <3>1. i - Len(a) = j - Len(a)
      BY <2>1, <2>5 DEF InPieces, BeginsOnce
    <3>2. i \in Int /\ j \in Int /\ Len(a) \in Int
      BY <1>2
    <3> QED  BY <3>1, <3>2
  <2> QED  BY <1>4, <2>2, <2>3, <2>4, <2>5
<1> QED  BY <1>2, <1>3, <1>5, <1>6 DEF InPieces, ab

(* After the first chunk comes the rest of its content, or a new one.      *)
LEMMA TailPieces ==
  ASSUME NEW twice, NEW s, InPieces(s, twice), s # <<>>
  PROVE  /\ Head(s) = s[1] /\ Head(s) \in Chunk
         /\ InPieces(Tail(s), twice)
         /\ \A i \in DOMAIN Tail(s) : i + 1 \in DOMAIN s /\ i + 1 # 1 /\ Tail(s)[i] = s[i + 1]
         /\ \A i \in DOMAIN s : i # 1 => i - 1 \in DOMAIN Tail(s) /\ Tail(s)[i - 1] = s[i]
         /\ Completes(s[1]) => Starts(Tail(s))
         /\ ~Completes(s[1]) => Tail(s) # <<>> /\ Continues(s[1], Tail(s)[1])
<1> DEFINE t == Tail(s)
<1>1. s \in Seq(Chunk)
  BY DEF InPieces
<1>2. /\ t \in Seq(Chunk) /\ Len(s) \in Nat /\ Len(s) >= 1
      /\ DOMAIN s = 1..Len(s) /\ DOMAIN t = 1..(Len(s) - 1)
      /\ \A i \in 1..(Len(s) - 1) : t[i] = s[i + 1]
      /\ Head(s) = s[1] /\ Head(s) \in Chunk
      /\ t # <<>> <=> Len(s) > 1
  <2>1. /\ t \in Seq(Chunk) /\ Len(s) \in Nat /\ Len(s) # 0 /\ Len(t) = Len(s) - 1
        /\ DOMAIN s = 1..Len(s)
    BY <1>1
  <2>2. DOMAIN t = 1..(Len(s) - 1)
    BY <2>1
  <2>3. \A i \in 1..(Len(s) - 1) : t[i] = s[i + 1]
    BY <1>1, <2>1
  <2>4. Head(s) = s[1] /\ Head(s) \in Chunk
    BY <1>1, <2>1
  <2>5. t = <<>> <=> Len(t) = 0
    <3>1. t \in Seq(Chunk)
      BY <2>1
    <3> HIDE DEF t
    <3> QED  BY <3>1, EmptyIff
  <2> HIDE DEF t
  <2>6. Len(s) >= 1 /\ (t # <<>> <=> Len(s) > 1)
    <3>1. Len(s) \in Nat /\ Len(s) # 0 /\ Len(t) = Len(s) - 1
      BY <2>1
    <3>2. Len(s) >= 1 /\ (Len(t) # 0 <=> Len(s) > 1)
      BY <3>1
    <3> QED  BY <2>5, <3>2
  <2>7. t \in Seq(Chunk) /\ Len(s) \in Nat /\ DOMAIN s = 1..Len(s)
    BY <2>1
  <2> QED  BY <2>2, <2>3, <2>4, <2>6, <2>7
<1> HIDE DEF t
<1>3. ASSUME NEW i \in DOMAIN t
      PROVE  i + 1 \in DOMAIN s /\ i + 1 # 1 /\ t[i] = s[i + 1]
  BY <1>2
<1>4. ASSUME NEW i \in DOMAIN s, i # 1
      PROVE  i - 1 \in DOMAIN t /\ t[i - 1] = s[i]
  <2>1. i - 1 \in 1..(Len(s) - 1) /\ (i - 1) + 1 = i
    BY <1>2, <1>4
  <2>2. t[i - 1] = s[(i - 1) + 1]
    BY <1>2, <2>1
  <2> QED  BY <1>2, <2>1, <2>2
<1>5. ASSUME NEW i \in DOMAIN s
      PROVE  IF Completes(s[i])
               THEN i + 1 \in DOMAIN s => s[i + 1].sourceOffset = 0
               ELSE i + 1 \in DOMAIN s /\ Continues(s[i], s[i + 1])
  BY DEF InPieces, Linked
<1>6. Linked(t)
  <2>1. SUFFICES ASSUME NEW i \in DOMAIN t
                 PROVE  IF Completes(t[i])
                          THEN i + 1 \in DOMAIN t => t[i + 1].sourceOffset = 0
                          ELSE i + 1 \in DOMAIN t /\ Continues(t[i], t[i + 1])
    BY DEF Linked
  <2>2. i + 1 \in DOMAIN s /\ t[i] = s[i + 1]
    BY <1>3
  <2>3. (i + 1) + 1 \in DOMAIN s <=> i + 1 \in DOMAIN t
    BY <1>2
  <2>4. i + 1 \in DOMAIN t => t[i + 1] = s[(i + 1) + 1]
    BY <1>3
  <2>5. CASE Completes(t[i])
    BY <1>5, <2>2, <2>3, <2>4, <2>5
  <2>6. CASE ~Completes(t[i])
    <3>1. (i + 1) + 1 \in DOMAIN s /\ Continues(s[i + 1], s[(i + 1) + 1])
      BY <1>5, <2>2, <2>6
    <3>2. i + 1 \in DOMAIN t /\ Continues(t[i], t[i + 1])
      BY <2>2, <2>3, <2>4, <3>1 DEF Continues
    <3> QED  BY <2>6, <3>2
  <2> QED  BY <2>5, <2>6
<1>7. BeginsOnce(t, twice)
  <2>1. SUFFICES ASSUME NEW i \in DOMAIN t, NEW j \in DOMAIN t,
                        t[i].sourceOffset = 0, t[j].sourceOffset = 0,
                        t[i].content = t[j].content, t[i].content \notin twice
                 PROVE  i = j
    BY DEF BeginsOnce
  <2>2. i + 1 \in DOMAIN s /\ t[i] = s[i + 1] /\ j + 1 \in DOMAIN s /\ t[j] = s[j + 1]
    BY <1>3
  <2>3. i + 1 = j + 1
    BY <2>1, <2>2 DEF InPieces, BeginsOnce
  <2>4. i \in Int /\ j \in Int
    BY <1>2
  <2> QED  BY <2>3, <2>4
<1>8. \A i \in DOMAIN t : Sized(t[i]) /\ t[i].content \in Wanted
  BY <1>3 DEF InPieces
<1>9. InPieces(t, twice)
  BY <1>2, <1>6, <1>7, <1>8 DEF InPieces
<1>10. 1 \in DOMAIN s /\ (1 + 1 \in DOMAIN s <=> t # <<>>) /\ (t # <<>> => t[1] = s[1 + 1])
  BY <1>2
<1>11. Completes(s[1]) => Starts(t)
  BY <1>5, <1>10 DEF Starts
<1>12. ~Completes(s[1]) => t # <<>> /\ Continues(s[1], t[1])
  BY <1>5, <1>10 DEF Continues
<1> QED  BY <1>2, <1>3, <1>4, <1>9, <1>11, <1>12 DEF t

-----------------------------------------------------------------------------
(* What the planner has so far, and what is to come                        *)

LEMMA FunctionIsSeq ==
  ASSUME NEW S, NEW n \in Nat, NEW s \in [1..n -> S]
  PROVE  s \in Seq(S) /\ Len(s) = n
  OBVIOUS

(* A sequence is a function on the numbers up to its length.               *)
LEMMA SeqIsFunction ==
  ASSUME NEW S, NEW s \in Seq(S)
  PROVE  Len(s) \in Nat /\ DOMAIN s = 1..Len(s) /\ s = [k \in 1..Len(s) |-> s[k]]
  OBVIOUS

(* The parts of Coming are sequences of chunks.                            *)
LEMMA ComingParts ==
  ASSUME PlanInv
  PROVE  /\ Requests \in Seq(Seq(Chunk)) /\ FlattenSeq(Requests) \in Seq(Chunk)
         /\ batch.requests \in Seq(Chunk) /\ Rest \in Seq(Chunk)
         /\ readRequests \in Seq(Chunk) /\ index \in Nat \ {0}
         /\ stored \in [Packages -> Seq(Chunk)]
<1>1. /\ batchReadRequests \in Seq(Batch) /\ batch \in Batch
      /\ readRequests \in Seq(Chunk) /\ index \in Nat \ {0}
      /\ stored \in [Packages -> Seq(Chunk)]
  BY DEF PlanInv, PlanTypeOK
<1>2. \A b \in Batch : b.requests \in Seq(Chunk)
  BY DEF Batch
<1>3. Requests \in Seq(Seq(Chunk))
  <2> DEFINE n == Len(batchReadRequests)
  <2>1. n \in Nat /\ DOMAIN batchReadRequests = 1..n
        /\ \A k \in 1..n : batchReadRequests[k] \in Batch
    BY <1>1
  <2>2. Requests \in [1..n -> Seq(Chunk)]
    BY <1>2, <2>1 DEF Requests
  <2> HIDE DEF n
  <2> QED  BY <2>1, <2>2, FunctionIsSeq
<1>4. <<>> \in Seq(Chunk)
  OBVIOUS
<1>5. FlattenSeq(Requests) \in Seq(Chunk)
  BY <1>3, <1>4, FlattenAppend
<1>6. Rest \in Seq(Chunk)
  <2>1. Len(readRequests) \in Nat
    BY <1>1
  <2>2. \A i \in index .. Len(readRequests) : readRequests[i] \in Chunk
    BY <1>1
  <2>3. index \in Int /\ Len(readRequests) \in Int
    BY <1>1, <2>1
  <2> QED  BY <2>2, <2>3, SubSeqProperties DEF Rest
<1> QED  BY <1>1, <1>2, <1>3, <1>5, <1>6

(* There are no chunks in a batch that has not begun.                      *)
LEMMA NoBatchEmpty == NoBatch.requests = <<>>
  BY DEF NoBatch

(* The next request is the first of the rest.                              *)
LEMMA RestFirst ==
  ASSUME PlanInv, ~Exhausted
  PROVE  /\ readRequests[index] \in Chunk
         /\ Rest = <<readRequests[index]>> \o SubSeq(readRequests, index + 1, Len(readRequests))
         /\ SubSeq(readRequests, index + 1, Len(readRequests)) \in Seq(Chunk)
<1>1. readRequests \in Seq(Chunk) /\ index \in Nat \ {0} /\ Len(readRequests) \in Nat
  <2>1. readRequests \in Seq(Chunk) /\ index \in Nat \ {0}
    BY ComingParts
  <2> QED  BY <2>1
<1>2. index \in 1 .. Len(readRequests) /\ Len(readRequests) \in index .. Len(readRequests)
  BY <1>1 DEF Exhausted
<1>3. Rest = <<readRequests[index]>> \o SubSeq(readRequests, index + 1, Len(readRequests))
  BY <1>1, <1>2, SubSeqRecursiveFirst DEF Rest
<1>4. SubSeq(readRequests, index + 1, Len(readRequests)) \in Seq(Chunk)
  <2>1. \A i \in (index + 1) .. Len(readRequests) : readRequests[i] \in Chunk
    BY <1>1
  <2>2. index + 1 \in Int /\ Len(readRequests) \in Int
    BY <1>1
  <2> QED  BY <2>1, <2>2, SubSeqProperties
<1>5. readRequests[index] \in Chunk
  BY <1>1, <1>2
<1> QED  BY <1>3, <1>4, <1>5

(* Forming batches changes nothing of what will come, nor its order.       *)
LEMMA FirstOfBatchComing ==
  ASSUME PlanInv, FirstOfBatch
  PROVE  Coming' = Coming
<1> DEFINE r == readRequests[index]
           rest == SubSeq(readRequests, index + 1, Len(readRequests))
           f == FlattenSeq(Requests)
<1>1. /\ batch = NoBatch /\ ~Exhausted
      /\ batch'.requests = <<r>> /\ index' = index + 1
      /\ readRequests' = readRequests /\ batchReadRequests' = batchReadRequests
  BY DEF FirstOfBatch
<1>2. Requests' = Requests /\ Rest' = rest
  BY <1>1 DEF Requests, Rest
<1>3. f \in Seq(Chunk)
  BY ComingParts
<1>4. r \in Chunk /\ Rest = <<r>> \o rest /\ rest \in Seq(Chunk)
  BY <1>1, RestFirst
<1>5. Coming' = (FlattenSeq(Requests)' \o batch'.requests) \o Rest'
  BY DEF Coming
<1>6. Coming' = (f \o <<r>>) \o rest
  BY <1>1, <1>2, <1>5
<1>7. Coming = (f \o <<>>) \o Rest
  BY <1>1, NoBatchEmpty DEF Coming
<1> HIDE DEF r, rest, f
<1>8. f \o <<>> = f
  BY <1>3, ConcatEmptySeq
<1>9. <<r>> \in Seq(Chunk)
  BY <1>4
<1>10. (f \o <<r>>) \o rest = f \o (<<r>> \o rest)
  BY <1>3, <1>4, <1>9, ConcatAssociative
<1> QED  BY <1>4, <1>6, <1>7, <1>8, <1>10

(* A chunk that joins the batch is the next one of the rest.               *)
LEMMA JoinComing ==
  ASSUME PlanInv, Join
  PROVE  Coming' = Coming
<1> DEFINE r == readRequests[index]
           rest == SubSeq(readRequests, index + 1, Len(readRequests))
           f == FlattenSeq(Requests)
           b == batch.requests
<1>1. /\ ~Exhausted
      /\ index' = index + 1 /\ batch' = WithRequest(r)
      /\ readRequests' = readRequests /\ batchReadRequests' = batchReadRequests
  BY DEF Join, Fits
<1>2. batch'.requests = Append(b, r)
  <2>1. batch \in Batch
    BY DEF PlanInv, PlanTypeOK
  <2>2. batch = [package |-> batch.package, requests |-> batch.requests,
                 packageOffset |-> batch.packageOffset, readSize |-> batch.readSize]
    BY <2>1 DEF Batch
  <2>3. batch' = [batch EXCEPT !.requests = Append(@, r), !.readSize = @ + (Slack + r.packageSize)]
    BY <1>1 DEF WithRequest
  <2>4. batch' = [package |-> batch.package, requests |-> Append(batch.requests, r),
                  packageOffset |-> batch.packageOffset,
                  readSize |-> batch.readSize + (Slack + r.packageSize)]
    BY <2>2, <2>3
  <2> QED  BY <2>4
<1>3. Requests' = Requests /\ Rest' = rest
  BY <1>1 DEF Requests, Rest
<1>4. f \in Seq(Chunk) /\ b \in Seq(Chunk)
  BY ComingParts
<1>5. r \in Chunk /\ Rest = <<r>> \o rest /\ rest \in Seq(Chunk)
  BY <1>1, RestFirst
<1>6. Coming' = (FlattenSeq(Requests)' \o batch'.requests) \o Rest'
  BY DEF Coming
<1>7. Coming' = (f \o Append(b, r)) \o rest
  BY <1>2, <1>3, <1>6
<1>8. Coming = (f \o b) \o Rest
  BY DEF Coming
<1> HIDE DEF r, rest, f, b
<1>9. Append(b, r) = b \o <<r>>
  BY <1>4, <1>5, AppendIsConcat
<1>10. <<r>> \in Seq(Chunk) /\ f \o b \in Seq(Chunk)
  BY <1>4, <1>5
<1>11. f \o (b \o <<r>>) = (f \o b) \o <<r>>
  BY <1>4, <1>10, ConcatAssociative
<1>12. ((f \o b) \o <<r>>) \o rest = (f \o b) \o (<<r>> \o rest)
  <2> DEFINE fb == f \o b
             one == <<r>>
  <2>1. fb \in Seq(Chunk) /\ one \in Seq(Chunk) /\ rest \in Seq(Chunk)
    BY <1>5, <1>10
  <2> HIDE DEF fb, one
  <2>2. (fb \o one) \o rest = fb \o (one \o rest)
    BY <2>1, ConcatAssociative
  <2> QED  BY <2>2 DEF fb, one
<1> QED  BY <1>5, <1>7, <1>8, <1>9, <1>11, <1>12

(* The batch goes to the list with the chunks it has.                      *)
LEMMA CloseBatchComing ==
  ASSUME PlanInv, CloseBatch
  PROVE  Coming' = Coming
<1> DEFINE f == FlattenSeq(Requests)
           b == batch.requests
<1>1. /\ batchReadRequests' = Append(batchReadRequests, batch)
      /\ batch' = NoBatch
      /\ readRequests' = readRequests /\ index' = index
  BY DEF CloseBatch
<1>2. f \in Seq(Chunk) /\ b \in Seq(Chunk) /\ Requests \in Seq(Seq(Chunk))
  BY ComingParts
<1>3. Requests' = Append(Requests, b)
  <2>1. batchReadRequests \in Seq(Batch) /\ batch \in Batch
    BY DEF PlanInv, PlanTypeOK
  <2> DEFINE n == Len(batchReadRequests)
             more == Append(batchReadRequests, batch)
  <2>2. /\ n \in Nat /\ Len(more) = n + 1 /\ DOMAIN more = 1..(n + 1)
        /\ \A k \in 1..n : more[k] = batchReadRequests[k]
        /\ more[n + 1] = batch
        /\ DOMAIN batchReadRequests = 1..n
    BY <2>1
  <2>3. Requests' = [k \in 1..(n + 1) |-> more[k].requests]
    BY <1>1, <2>2 DEF Requests
  <2>4. Requests = [k \in 1..n |-> batchReadRequests[k].requests] /\ Len(Requests) = n
    <3>1. Requests = [k \in 1..n |-> batchReadRequests[k].requests]
      BY <2>2 DEF Requests
    <3>2. \A k \in 1..n : batchReadRequests[k].requests \in Seq(Chunk)
      <4>1. \A c \in Batch : c.requests \in Seq(Chunk)
        BY DEF Batch
      <4> QED  BY <2>1, <4>1
    <3>3. Requests \in [1..n -> Seq(Chunk)]
      BY <3>1, <3>2
    <3> HIDE DEF n
    <3> QED  BY <2>2, <3>1, <3>3, FunctionIsSeq
  <2>5. /\ Append(Requests, b) \in Seq(Seq(Chunk)) /\ Len(Append(Requests, b)) = n + 1
        /\ \A k \in 1..n : Append(Requests, b)[k] = Requests[k]
        /\ Append(Requests, b)[n + 1] = b
    <3> HIDE DEF n, b
    <3>1. b \in Seq(Chunk) /\ Requests \in Seq(Seq(Chunk)) /\ Len(Requests) = n
      BY <1>2, <2>4
    <3>2. /\ Append(Requests, b) \in Seq(Seq(Chunk)) /\ Len(Append(Requests, b)) = Len(Requests) + 1
          /\ \A k \in 1..Len(Requests) : Append(Requests, b)[k] = Requests[k]
          /\ Append(Requests, b)[Len(Requests) + 1] = b
      BY <3>1, AppendProperties
    <3> QED  BY <3>1, <3>2
  <2>6. Append(Requests, b) = [k \in 1..(n + 1) |-> Append(Requests, b)[k]]
    <3> HIDE DEF n, b
    <3> DEFINE a == Append(Requests, b)
    <3>1. a = [k \in 1..Len(a) |-> a[k]]
      <4>1. a \in Seq(Seq(Chunk))
        BY <2>5
      <4> HIDE DEF a
      <4> QED  BY <4>1, SeqIsFunction
    <3> QED  BY <2>5, <3>1
  <2>7. ASSUME NEW k \in 1..(n + 1)
        PROVE  Append(Requests, b)[k] = more[k].requests
    <3>1. CASE k \in 1..n
      <4>1. Requests[k] = batchReadRequests[k].requests
        BY <2>2, <3>1 DEF Requests
      <4> QED  BY <2>2, <2>5, <3>1, <4>1
    <3>2. CASE k = n + 1
      BY <2>2, <2>5, <3>2
    <3>3. k \in 1..n \/ k = n + 1
      <4> HIDE DEF n
      <4> QED  BY <2>2
    <3> QED  BY <3>1, <3>2, <3>3
  <2> HIDE DEF n, b, more
  <2> QED  BY <2>3, <2>6, <2>7
<1>4. FlattenSeq(Append(Requests, b)) = f \o b
  <2> HIDE DEF b
  <2> QED  BY <1>2, FlattenAppend
<1>5. Coming' = (FlattenSeq(Requests') \o batch'.requests) \o Rest'
  BY DEF Coming
<1>6. Rest' = Rest
  BY <1>1 DEF Rest
<1>7. Coming' = ((f \o b) \o <<>>) \o Rest
  BY <1>1, <1>3, <1>4, <1>5, <1>6, NoBatchEmpty
<1>8. Coming = (f \o b) \o Rest
  BY DEF Coming
<1> HIDE DEF f, b
<1>9. (f \o b) \o <<>> = f \o b
  <2>1. f \o b \in Seq(Chunk)
    BY <1>2
  <2> QED  BY <2>1, ConcatEmptySeq
<1> QED  BY <1>7, <1>8, <1>9

(* A package adds its listing.                                             *)
LEMMA NextPackageComing ==
  ASSUME PlanInv, NextPackage, PlanInv'
  PROVE  Coming' = Coming \o readRequests'
<1> DEFINE f == FlattenSeq(Requests)
           l == readRequests'
<1>1. /\ Exhausted /\ batch = NoBatch /\ index' = 1
      /\ batch' = batch /\ batchReadRequests' = batchReadRequests
  BY DEF NextPackage
<1>2. f \in Seq(Chunk) /\ readRequests \in Seq(Chunk) /\ index \in Nat \ {0}
  BY ComingParts
<1>3. l \in Seq(Chunk)
  BY DEF PlanInv, PlanTypeOK
<1>4. Rest = <<>>
  <2>1. index \in Int /\ Len(readRequests) \in Int /\ Len(readRequests) < index
    BY <1>1, <1>2 DEF Exhausted
  <2> QED  BY <2>1, SubSeqEmpty DEF Rest
<1>5. Rest' = l
  <2>1. Rest' = SubSeq(l, 1, Len(l))
    BY <1>1 DEF Rest
  <2> HIDE DEF l
  <2> QED  BY <1>3, <2>1, SubSeqFull
<1>6. Coming = (f \o <<>>) \o <<>>
  BY <1>1, <1>4, NoBatchEmpty DEF Coming
<1>7. Coming' = (FlattenSeq(Requests') \o batch'.requests) \o Rest'
  BY DEF Coming
<1>8. Requests' = Requests
  BY <1>1 DEF Requests
<1>9. Coming' = (f \o <<>>) \o l
  BY <1>1, <1>5, <1>7, <1>8, NoBatchEmpty
<1> HIDE DEF f, l
<1>10. f \o <<>> = f
  BY <1>2, ConcatEmptySeq
<1> QED  BY <1>6, <1>9, <1>10 DEF l

-----------------------------------------------------------------------------
(* The planner delivers each requested content in its order                *)

(* What a package adds.                                                    *)
LEMMA ListingPieces ==
  ASSUME PlanInv, TransferInv, pc = "plan", NextPackage
  PROVE  \E p \in toVisit :
           /\ toVisit' = toVisit \ {p}
           /\ InPieces(readRequests', Repeated) /\ Starts(readRequests')
           /\ \A i \in DOMAIN readRequests' :
                /\ readRequests'[i].content \in requested
                /\ Holds(p, {readRequests'[i].content}) # {}
           /\ \A c \in requested : BeginsIn(stored[p], c) => BeginsIn(readRequests', c)
<1>1. PICK p \in toVisit :
        /\ toVisit' = toVisit \ {p}
        /\ \E order \in InOrder(p) :
             readRequests' = [i \in DOMAIN order |-> stored[p][order[i]]]
  BY DEF NextPackage
<1>2. PICK order \in InOrder(p) :
        readRequests' = [i \in DOMAIN order |-> stored[p][order[i]]]
  BY <1>1
<1>3. PlanTypeOK
  BY DEF PlanInv
<1>4. p \in Packages /\ stored \in [Packages -> Seq(Chunk)] /\ stored[p] \in Seq(Chunk)
      /\ stored \in Layouts
  BY <1>3 DEF PlanTypeOK, TransferInv, StagingTypeOK
<1>5. WrittenInOrder(stored[p]) /\ StoredOnce(stored[p])
  BY <1>4, StagingAssumption
<1>6. requested = Wanted \ db.contents
  BY DEF TransferInv, ComingInv
<1> DEFINE s == stored[p]
           l == readRequests'
           H == Holds(p, requested)
<1>7. H = {k \in DOMAIN s : s[k].content \in requested}
  BY DEF Holds
<1>8. /\ \E n \in Nat : DOMAIN order = 1..n
      /\ \A i \in DOMAIN order : order[i] \in H
      /\ \A i, j \in DOMAIN order : i < j => order[i] < order[j]
      /\ \A k \in H : \E i \in DOMAIN order : order[i] = k
  BY <1>3, <1>4, OrderIsOnto
<1>9. PICK n \in Nat : DOMAIN order = 1..n
  BY <1>8
<1>10. order \in [1..n -> H]
  <2>1. order \in [1..Cardinality(H) -> H]
    BY DEF InOrder
  <2> HIDE DEF H
  <2> QED  BY <1>9, <2>1
<1>11. l = [i \in 1..n |-> s[order[i]]]
  BY <1>2, <1>9
<1>12. \A i \in 1..n : order[i] \in DOMAIN s /\ s[order[i]].content \in requested /\ l[i] = s[order[i]]
  <2> HIDE DEF H, l, s
  <2> QED  BY <1>7, <1>10, <1>11
<1>13. WrittenInOrder(s) /\ StoredOnce(s) /\ s \in Seq(Chunk)
  BY <1>4, <1>5
<1> HIDE DEF s, l, H
<1>14. l \in Seq(Chunk) /\ DOMAIN l = 1..n
  <2>1. \A i \in 1..n : s[order[i]] \in Chunk
    BY <1>12, <1>13
  <2>2. l \in [1..n -> Chunk]
    BY <1>11, <2>1
  <2> QED  BY <2>2, FunctionIsSeq
<1>15. Starts(l) /\ Linked(l)
  <2>1. \A i \in 1..n : order[i] \in DOMAIN s /\ s[order[i]].content \in requested
    BY <1>12
  <2>2. \A i, j \in 1..n : i < j => order[i] < order[j]
    BY <1>8, <1>9
  <2>3. \A k \in DOMAIN s : s[k].content \in requested => \E i \in 1..n : order[i] = k
    BY <1>7, <1>8, <1>9
  <2>4. \A i \in 1..n : l[i] = s[order[i]]
    BY <1>12
  <2>5. Lists(l, s, order, n, requested)
    BY <1>14, <2>1, <2>2, <2>3, <2>4 DEF Lists
  <2> QED  BY <1>13, <1>14, <2>5, ListingLinked
<1>16. BeginsOnce(l, Repeated)
  <2>1. SUFFICES ASSUME NEW i \in 1..n, NEW j \in 1..n,
                        l[i].sourceOffset = 0, l[j].sourceOffset = 0,
                        l[i].content = l[j].content
                 PROVE  i = j
    BY <1>14 DEF BeginsOnce
  <2>2. order[i] = order[j]
    <3>1. order[i] \in DOMAIN s /\ order[j] \in DOMAIN s /\ l[i] = s[order[i]] /\ l[j] = s[order[j]]
      BY <1>12
    <3> QED  BY <1>13, <2>1, <3>1 DEF StoredOnce
  <2>3. SUFFICES ASSUME i # j PROVE FALSE
    OBVIOUS
  <2>4. DOMAIN s \subseteq Int
    BY <1>13
  <2>5. order[i] \in Int /\ order[j] \in Int
    BY <1>12, <2>4
  <2>6. i < j \/ j < i
    BY <2>3
  <2>7. order[i] < order[j] \/ order[j] < order[i]
    BY <1>8, <1>9, <2>6
  <2> QED  BY <2>2, <2>5, <2>7
<1>17. \A i \in 1..n : Sized(l[i]) /\ l[i].content \in requested
  <2>1. \A k \in DOMAIN s : Sized(s[k])
    BY <1>13, WrittenIsLinked
  <2> QED  BY <1>12, <2>1
<1>18. InPieces(l, Repeated)
  BY <1>6, <1>15, <1>14, <1>16, <1>17 DEF InPieces
<1>19. ASSUME NEW i \in 1..n
       PROVE  Holds(p, {l[i].content}) # {}
  <2>1. order[i] \in DOMAIN s /\ l[i] = s[order[i]]
    BY <1>12
  <2>2. order[i] \in Holds(p, {l[i].content})
    BY <2>1 DEF Holds, s
  <2> QED  BY <2>2
<1>20. ASSUME NEW c \in requested, BeginsIn(s, c)
       PROVE  BeginsIn(l, c)
  <2>1. PICK k \in DOMAIN s : Begins(s[k], c)
    BY <1>20 DEF BeginsIn
  <2>2. k \in H
    BY <1>7, <2>1 DEF Begins
  <2>3. PICK i \in 1..n : order[i] = k
    BY <1>8, <1>9, <2>2
  <2>4. Begins(l[i], c)
    BY <1>12, <2>1, <2>3
  <2> QED  BY <1>14, <2>4 DEF BeginsIn
<1> QED
  <2>1. toVisit' = toVisit \ {p}
    BY <1>1
  <2>2. \A c \in requested : BeginsIn(stored[p], c) => BeginsIn(l, c)
    BY <1>20 DEF s
  <2> QED  BY <1>15, <1>14, <1>17, <1>18, <1>19, <2>1, <2>2 DEF l

(* Beginnings are found in each part of a sequence.                        *)
LEMMA JoinBegins ==
  ASSUME NEW a \in Seq(Chunk), NEW b \in Seq(Chunk), NEW c
  PROVE  /\ BeginsIn(a, c) => BeginsIn(a \o b, c)
         /\ BeginsIn(b, c) => BeginsIn(a \o b, c)
         /\ \A i \in DOMAIN (a \o b) :
              \/ \E j \in DOMAIN a : (a \o b)[i] = a[j]
              \/ \E j \in DOMAIN b : (a \o b)[i] = b[j]
<1> DEFINE ab == a \o b
<1>1. /\ Len(a) \in Nat /\ Len(b) \in Nat
      /\ DOMAIN a = 1..Len(a) /\ DOMAIN b = 1..Len(b)
      /\ DOMAIN ab = 1..(Len(a) + Len(b))
      /\ \A i \in 1..Len(a) : ab[i] = a[i]
      /\ \A i \in 1..Len(b) : ab[Len(a) + i] = b[i]
  OBVIOUS
<1> HIDE DEF ab
<1>2. ASSUME NEW i \in DOMAIN a
      PROVE  i \in DOMAIN ab /\ ab[i] = a[i]
  BY <1>1
<1>3. ASSUME NEW i \in DOMAIN b
      PROVE  Len(a) + i \in DOMAIN ab /\ ab[Len(a) + i] = b[i]
  BY <1>1
<1>4. BeginsIn(a, c) => BeginsIn(ab, c)
  <2>1. SUFFICES ASSUME NEW i \in DOMAIN a, Begins(a[i], c) PROVE BeginsIn(ab, c)
    BY DEF BeginsIn
  <2>2. i \in DOMAIN ab /\ ab[i] = a[i]
    BY <1>2
  <2>3. Begins(ab[i], c)
    BY <2>1, <2>2
  <2> QED  BY <2>2, <2>3 DEF BeginsIn
<1>5. BeginsIn(b, c) => BeginsIn(ab, c)
  <2>1. SUFFICES ASSUME NEW i \in DOMAIN b, Begins(b[i], c) PROVE BeginsIn(ab, c)
    BY DEF BeginsIn
  <2>2. Len(a) + i \in DOMAIN ab /\ ab[Len(a) + i] = b[i]
    BY <1>3
  <2>3. Begins(ab[Len(a) + i], c)
    BY <2>1, <2>2
  <2> QED  BY <2>2, <2>3 DEF BeginsIn
<1>6. ASSUME NEW i \in DOMAIN ab
      PROVE  \/ \E j \in DOMAIN a : ab[i] = a[j]
             \/ \E j \in DOMAIN b : ab[i] = b[j]
  <2>1. i \in Int /\ Len(a) \in Int
    BY <1>1
  <2>2. CASE i <= Len(a)
    BY <1>1, <2>2
  <2>3. CASE i > Len(a)
    <3>1. i - Len(a) \in 1..Len(b) /\ Len(a) + (i - Len(a)) = i
      BY <1>1, <2>3
    <3>2. ab[Len(a) + (i - Len(a))] = b[i - Len(a)]
      BY <1>1, <3>1
    <3> QED  BY <1>1, <3>1, <3>2
  <2> QED  BY <2>1, <2>2, <2>3
<1> QED  BY <1>4, <1>5, <1>6 DEF ab

(* Nobody changes the source.                                              *)
LEMMA RepeatedStable ==
  ASSUME kind' = kind, stored' = stored
  PROVE  Repeated' = Repeated /\ \A p, C : Holds(p, C)' = Holds(p, C)
  BY DEF Repeated, InTwoPackages, Holds

(* No step of the planner loses, repeats or reorders a chunk.              *)
LEMMA PlanComing ==
  ASSUME PlanInv, TransferInv, Plan, PlanInv'
  PROVE  ComingInv'
<1>1. /\ pc = "plan" /\ PlanStep
      /\ UNCHANGED <<fileVars, dbVars, callVars, historyVars, pc, arriving, ending, cuts>>
  BY DEF Plan
<1>2. kind' = kind /\ stagingFile' = stagingFile /\ db' = db /\ saved' = saved
  BY <1>1 DEF fileVars, dbVars, historyVars
<1>3. /\ kind = "packed" /\ stagingFile = NoContent /\ saved = db
      /\ requested = Wanted \ db.contents
      /\ InPieces(Coming, Repeated) /\ Starts(Coming)
      /\ \A i \in DOMAIN Coming :
           /\ Coming[i].content \in requested
           /\ \E p \in Packages \ toVisit : Holds(p, {Coming[i].content}) # {}
      /\ \A c \in requested :
           BeginsIn(Coming, c) \/ \E p \in toVisit : BeginsIn(stored[p], c)
  BY <1>1 DEF TransferInv, ComingInv
<1>4. CASE FirstOfBatch \/ Join \/ CloseBatch
  <2>1. Coming' = Coming
    BY <1>4, FirstOfBatchComing, JoinComing, CloseBatchComing
  <2>2. stored' = stored /\ requested' = requested /\ toVisit' = toVisit
    BY <1>4 DEF FirstOfBatch, Join, CloseBatch
  <2>3. Repeated' = Repeated
    BY <1>2, <2>2, RepeatedStable
  <2> HIDE DEF Coming
  <2> QED  BY <1>2, <1>3, <2>1, <2>2, <2>3 DEF ComingInv, Holds
<1>5. CASE NextPackage
  <2> DEFINE l == readRequests'
  <2>1. PICK p \in toVisit :
          /\ toVisit' = toVisit \ {p}
          /\ InPieces(l, Repeated) /\ Starts(l)
          /\ \A i \in DOMAIN l : l[i].content \in requested /\ Holds(p, {l[i].content}) # {}
          /\ \A c \in requested : BeginsIn(stored[p], c) => BeginsIn(l, c)
    BY <1>1, <1>5, ListingPieces
  <2>2. stored' = stored /\ requested' = requested
    BY <1>5 DEF NextPackage
  <2>3. Repeated' = Repeated
    BY <1>2, <2>2, RepeatedStable
  <2>4. Coming' = Coming \o l
    BY <1>5, NextPackageComing
  <2>5. p \in Packages /\ toVisit \subseteq Packages
    BY DEF PlanInv, PlanTypeOK
  <2> HIDE DEF l
  <2>6. ASSUME NEW i \in DOMAIN Coming, NEW j \in DOMAIN l, Coming[i].content = l[j].content
        PROVE  Coming[i].content \in Repeated
    <3>1. PICK q \in Packages \ toVisit : Holds(q, {Coming[i].content}) # {}
      BY <1>3
    <3>2. Holds(p, {Coming[i].content}) # {} /\ p # q
      BY <2>1, <2>6
    <3>3. Coming[i].content \in Wanted
      BY <1>3
    <3> QED  BY <1>3, <2>5, <3>1, <3>2, <3>3 DEF Repeated, InTwoPackages
  <2>7. InPieces(Coming', Repeated') /\ Starts(Coming')
    <3>1. InPieces(Coming \o l, Repeated) /\ Starts(Coming \o l)
      <4> HIDE DEF Coming
      <4> QED  BY <1>3, <2>1, <2>6, JoinPieces
    <3> QED  BY <2>3, <2>4, <3>1
  <2>8. Coming \in Seq(Chunk) /\ l \in Seq(Chunk)
    BY <1>3, <2>1 DEF InPieces
  <2> DEFINE more == Coming'
  <2>9. more = Coming \o l
    BY <2>4
  <2> HIDE DEF Coming, more
  <2>10. /\ \A c : BeginsIn(Coming, c) => BeginsIn(more, c)
         /\ \A c : BeginsIn(l, c) => BeginsIn(more, c)
    BY <2>8, <2>9, JoinBegins
  <2>11. \A i \in DOMAIN more :
           \/ \E j \in DOMAIN Coming : more[i] = Coming[j]
           \/ \E j \in DOMAIN l : more[i] = l[j]
    BY <2>8, <2>9, JoinBegins
  <2>12. ASSUME NEW i \in DOMAIN more
         PROVE  /\ more[i].content \in requested
                /\ \E q \in Packages \ toVisit' : Holds(q, {more[i].content}) # {}
    <3>1. CASE \E j \in DOMAIN Coming : more[i] = Coming[j]
      BY <1>3, <2>1, <3>1
    <3>2. CASE \E j \in DOMAIN l : more[i] = l[j]
      BY <2>1, <2>5, <3>2
    <3> QED  BY <2>11, <3>1, <3>2
  <2>13. ASSUME NEW c \in requested
         PROVE  BeginsIn(more, c) \/ \E q \in toVisit' : BeginsIn(stored[q], c)
    <3>1. CASE BeginsIn(Coming, c)
      BY <2>10, <3>1
    <3>2. CASE \E q \in toVisit : BeginsIn(stored[q], c)
      BY <2>1, <2>10, <3>2
    <3> QED  BY <1>3, <3>1, <3>2
  <2>14. \A c : \A q : Holds(q, {c})' = Holds(q, {c})
    BY <2>2 DEF Holds
  <2> QED  BY <1>2, <1>3, <2>2, <2>7, <2>12, <2>13, <2>14 DEF ComingInv, more, Holds
<1> QED  BY <1>1, <1>4, <1>5 DEF PlanStep

(* A phase that begins has nothing planned.                                *)
LEMMA ConfigureComing ==
  ASSUME PlanInv, TransferInv, Configure, PlanInv'
  PROVE  ComingInv'
<1>1. SUFFICES ASSUME pc' = "plan" PROVE ComingInv'
  BY DEF ComingInv
<1>2. /\ pc = "idle" /\ kind = "packed" /\ kind' = kind
      /\ Prepare(Wanted \ Referenced)
      /\ db' = [db EXCEPT !.contents = Referenced] /\ saved' = db'
      /\ stagingFile' = stagingFile
  BY <1>1 DEF Configure, Goto, fileVars
<1>3. stagingFile = NoContent /\ db \in Database /\ stored \in Layouts
  BY <1>2 DEF TransferInv, RowsInv, StagingTypeOK
<1>4. db'.contents = Referenced
  BY <1>2, <1>3 DEF Database
<1>5. /\ requested' = Wanted \ Referenced /\ stored' = stored
      /\ toVisit' = {p \in Packages : Holds(p, Wanted \ Referenced) # {}}
      /\ readRequests' = <<>> /\ index' = 1
      /\ batch' = NoBatch /\ batchReadRequests' = <<>>
  BY <1>2 DEF Prepare
<1>6. Coming' = <<>>
  <2>1. Requests' = <<>>
    BY <1>5 DEF Requests
  <2>2. FlattenSeq(<<>>) = <<>>
    BY DEF FlattenSeq
  <2>3. Rest' = <<>>
    <3>1. Rest' = SubSeq(<<>>, 1, 0)
      BY <1>5 DEF Rest
    <3> QED  BY <3>1, SubSeqEmpty
  <2>4. Coming' = (FlattenSeq(Requests') \o batch'.requests) \o Rest'
    BY DEF Coming
  <2>5. <<>> \o <<>> = <<>>
    OBVIOUS
  <2> QED  BY <1>5, <2>1, <2>2, <2>3, <2>4, <2>5, NoBatchEmpty
<1>7. InPieces(<<>>, Repeated') /\ Starts(<<>>) /\ DOMAIN <<>> = {}
  <2>1. <<>> \in Seq(Chunk) /\ DOMAIN <<>> = {}
    OBVIOUS
  <2> QED  BY <2>1 DEF InPieces, Linked, BeginsOnce, Starts
<1>8. ASSUME NEW c \in Wanted \ Referenced
      PROVE  \E p \in toVisit' : BeginsIn(stored[p], c)
  <2>1. PICK p \in Packages : \E i \in DOMAIN stored[p] : Begins(stored[p][i], c)
    BY <1>3, StagingAssumption
  <2>2. PICK i \in DOMAIN stored[p] : Begins(stored[p][i], c)
    BY <2>1
  <2>3. i \in Holds(p, Wanted \ Referenced)
    BY <1>8, <2>2 DEF Holds, Begins
  <2>4. p \in toVisit'
    BY <1>5, <2>3
  <2> QED  BY <2>2, <2>4 DEF BeginsIn
<1> HIDE DEF Coming
<1> QED  BY <1>2, <1>3, <1>4, <1>5, <1>6, <1>7, <1>8 DEF ComingInv

-----------------------------------------------------------------------------
(* What an attempt leaves behind                                           *)

LEMMA Constants ==
  /\ TotalSize \in [Contents -> Nat] /\ Targets \in [Contents -> Seq(Paths)]
  /\ NoContent \notin Contents /\ Wanted \subseteq Contents
  /\ \A c, d \in Contents : \A i \in DOMAIN Targets[c], j \in DOMAIN Targets[d] :
       Targets[c][i] = Targets[d][j] => c = d /\ i = j
  BY StagingAssumption DEF Wanted

(* The fields of a file.                                                   *)
LEMMA ImageFields ==
  /\ \A c \in Contents \cup {NoContent}, b \in SUBSET Nat :
       [content |-> c, bytes |-> b] \in Image
  /\ Absent \in Image /\ Absent.bytes = {}
  BY DEF Image, Absent

(* What a database is made of.                                             *)
LEMMA DatabaseFields ==
  ASSUME NEW d \in Database
  PROVE  /\ d = [contents |-> d.contents, files |-> d.files]
         /\ d.contents \subseteq Contents
         /\ DOMAIN d.files \subseteq Paths
         /\ d.files \in [DOMAIN d.files -> Contents]
<1>1. /\ d = [contents |-> d.contents, files |-> d.files]
      /\ d.contents \subseteq Contents
      /\ d.files \in UNION {[D -> Contents] : D \in SUBSET Paths}
  BY DEF Database
<1>2. PICK D \in SUBSET Paths : d.files \in [D -> Contents]
  BY <1>1
<1>3. DOMAIN d.files = D
  BY <1>2
<1> QED  BY <1>1, <1>2, <1>3

(* A database from its two tables.                                         *)
LEMMA DatabaseMade ==
  ASSUME NEW C \in SUBSET Contents, NEW D \in SUBSET Paths, NEW f \in [D -> Contents]
  PROVE  [contents |-> C, files |-> f] \in Database
<1>1. f \in UNION {[E -> Contents] : E \in SUBSET Paths}
  OBVIOUS
<1> QED  BY <1>1 DEF Database

(* A path has one content.                                                 *)
LEMMA RowOfTarget ==
  ASSUME NEW d \in Database, Rows(d), NEW c \in Contents, NEW i \in DOMAIN Targets[c],
         Targets[c][i] \in DOMAIN d.files
  PROVE  d.files[Targets[c][i]] = c /\ c \in d.contents
<1> DEFINE p == Targets[c][i]
           e == d.files[p]
<1>1. e \in d.contents /\ \E j \in DOMAIN Targets[e] : p = Targets[e][j]
  BY DEF Rows
<1>2. PICK j \in DOMAIN Targets[e] : p = Targets[e][j]
  BY <1>1
<1>3. e \in Contents
  BY <1>1, DatabaseFields
<1> HIDE DEF e
<1>4. c = e
  BY <1>2, <1>3, Constants
<1> QED  BY <1>1, <1>4 DEF e

-----------------------------------------------------------------------------
(* The ends of an attempt                                                  *)

(* In the loop, what is still to be written has no row in either state.    *)
LEMMA PendingTarget ==
  ASSUME TransferInv, pc = "targets", targets # <<>>
  PROVE  /\ current.content \in Contents /\ Done \in Nat
         /\ Done + 1 \in DOMAIN Targets[current.content]
         /\ Head(targets) = Targets[current.content][Done + 1]
         /\ Head(targets) \in Paths
         /\ Head(targets) \notin DOMAIN db.files
         /\ Head(targets) \notin DOMAIN saved.files
<1> DEFINE c == current.content
           p == Head(targets)
<1>1. /\ current.content \in Wanted /\ c \notin saved.contents /\ Done \in Nat
      /\ \A i \in DOMAIN targets :
           targets[i] = Targets[c][Done + i] /\ targets[i] \notin DOMAIN db.files
  BY DEF TransferInv, LoopInv
<1>2. targets \in Seq(Paths) /\ saved \in Database /\ Rows(saved)
  BY DEF TransferInv, StagingTypeOK, RowsInv
<1>3. c \in Contents /\ Targets[c] \in Seq(Paths)
  BY <1>1, Constants
<1>4. Len(targets) \in Nat /\ Len(targets) >= 1 /\ 1 \in DOMAIN targets /\ p = targets[1] /\ p \in Paths
  BY <1>2
<1>5. Len(Targets[c]) \in Nat /\ DOMAIN Targets[c] = 1..Len(Targets[c])
      /\ Done = Len(Targets[c]) - Len(targets)
  BY <1>3 DEF Done
<1>6. Done + 1 \in DOMAIN Targets[c]
  BY <1>1, <1>4, <1>5
<1>7. p = Targets[c][Done + 1] /\ p \notin DOMAIN db.files
  BY <1>1, <1>4
<1>8. p \notin DOMAIN saved.files
  BY <1>1, <1>2, <1>3, <1>6, <1>7, RowOfTarget
<1> QED  BY <1>1, <1>3, <1>4, <1>6, <1>7, <1>8

(* What a cut leaves on disk.                                              *)
LEMMA PartWritten ==
  ASSUME TransferInv, WrittenInPart
  PROVE  /\ disk' \in [Paths -> Image]
         /\ \A p \in DOMAIN db.files \cup DOMAIN saved.files : disk'[p] = disk[p]
         /\ \A p \in Paths : disk'[p].bytes \subseteq disk[p].bytes
<1>1. /\ disk \in [Paths -> Image] /\ DOMAIN db.files \subseteq Paths
      /\ DOMAIN saved.files \subseteq Paths
  BY DatabaseFields DEF TransferInv, StagingTypeOK
<1>2. CASE disk' = disk
  BY <1>1, <1>2
<1>3. CASE /\ pc = "targets" /\ targets # <<>>
           /\ disk' = [disk EXCEPT ![Head(targets)] =
                         [content |-> current.content, bytes |-> {}]]
  <2> DEFINE p == Head(targets)
             part == [content |-> current.content, bytes |-> {}]
  <2>1. p \in Paths /\ p \notin DOMAIN db.files /\ p \notin DOMAIN saved.files
        /\ current.content \in Contents
    BY <1>3, PendingTarget
  <2>2. part \in Image /\ part.bytes = {}
    BY <2>1 DEF Image
  <2> HIDE DEF p, part
  <2>3. disk' = [disk EXCEPT ![p] = part]
    BY <1>3 DEF p, part
  <2> QED  BY <1>1, <2>1, <2>2, <2>3
<1> QED  BY <1>2, <1>3 DEF WrittenInPart

(* What holds however an attempt ends.                                     *)
LEMMA EndsSound ==
  ASSUME TransferInv, NEW how, Ends(how),
         Commit \/ Rollback,
         UNCHANGED planVars, UNCHANGED temporary, UNCHANGED current, UNCHANGED historyVars,
         UNCHANGED lost,
         disk' \in [Paths -> Image],
         \A p \in DOMAIN db.files \cup DOMAIN saved.files : disk'[p] = disk[p],
         \A p \in Paths : disk'[p].bytes \subseteq disk[p].bytes
  PROVE  /\ StagingTypeOK' /\ ComingInv' /\ ArrivingInv' /\ BytesInv' /\ RowsInv' /\ LoopInv'
         /\ cuts' = cuts \cup ({how} \ {"ok"}) /\ ending' = how /\ pc' = "idle"
         /\ kind' = kind /\ stored' = stored
<1>1. /\ pc' = "idle" /\ stagingFile' = NoContent /\ arriving' = <<>>
      /\ targets' = <<>> /\ staged' = FALSE
      /\ cuts' = cuts \cup ({how} \ {"ok"}) /\ ending' = how
  BY DEF Ends, Goto
<1>2. kind' = kind /\ stored' = stored
  BY DEF historyVars, planVars
<1>3. db' = saved' /\ saved' \in {db, saved}
  BY DEF Commit, Rollback
<1>4. StagingTypeOK'
  <2>1. StagingTypeOK
    BY DEF TransferInv
  <2>2. <<>> \in Seq(Chunk) /\ <<>> \in Seq(Paths)
    OBVIOUS
  <2> QED  BY <1>1, <1>2, <1>3, <2>1, <2>2 DEF StagingTypeOK
<1>5. ComingInv' /\ ArrivingInv' /\ LoopInv'
  BY <1>1 DEF ComingInv, ArrivingInv, LoopInv
<1>6. BytesInv'
  <2>1. BytesInv
    BY DEF TransferInv
  <2>2. ASSUME NEW c \in Contents, NEW i \in DOMAIN Targets[c]
        PROVE  disk'[Targets[c][i]].bytes \subseteq 0 .. (TotalSize[c] - 1)
    <3>1. Targets[c][i] \in Paths
      BY Constants
    <3>2. disk[Targets[c][i]].bytes \subseteq 0 .. (TotalSize[c] - 1)
      BY <2>1 DEF BytesInv
    <3> QED  BY <3>1, <3>2
  <2> QED  BY <2>1, <2>2 DEF BytesInv
<1>7. RowsInv'
  <2>1. Rows(db) /\ Rows(saved)
    BY DEF TransferInv, RowsInv
  <2>2. Rows(saved)'
    <3>1. CASE saved' = db
      BY <2>1, <3>1 DEF Rows
    <3>2. CASE saved' = saved
      BY <2>1, <3>2 DEF Rows
    <3> QED  BY <1>3, <3>1, <3>2
  <2>3. Rows(db)'
    BY <1>3, <2>2 DEF Rows
  <2> QED  BY <1>1, <1>3, <2>2, <2>3 DEF RowsInv
<1> QED  BY <1>1, <1>2, <1>4, <1>5, <1>6, <1>7

(* Files without a row appear only when an attempt is cut.                 *)
LEMMA DiskAsBefore ==
  ASSUME TransferInv, UNCHANGED disk
  PROVE  /\ disk' \in [Paths -> Image]
         /\ \A p \in DOMAIN db.files \cup DOMAIN saved.files : disk'[p] = disk[p]
         /\ \A p \in Paths : disk'[p].bytes \subseteq disk[p].bytes
  BY DEF TransferInv, StagingTypeOK

(* The transaction is committed or it is not.                              *)
LEMMA CommitOrRollbackEither == CommitOrRollback => Commit \/ Rollback
  BY DEF CommitOrRollback

(* The planner throws.                                                     *)
LEMMA PlanFailsSound ==
  ASSUME TransferInv, PlanFails
  PROVE  TransferInv'
<1>1. /\ StagingTypeOK' /\ ComingInv' /\ ArrivingInv' /\ BytesInv' /\ RowsInv' /\ LoopInv'
      /\ cuts' = cuts \cup {"failure"} /\ ending' = "failure" /\ pc' = "idle"
      /\ kind' = kind /\ stored' = stored
  BY DiskAsBefore, EndsSound DEF PlanFails
<1>2. kind = "packed"
  BY DEF PlanFails, TransferInv, ComingInv
<1>3. CutsInv'
  <2>1. CutsInv
    BY DEF TransferInv
  <2> QED  BY <1>1, <1>2, <2>1 DEF CutsInv, CutsExplained, InTwoPackages, Holds
<1>4. HealInv'
  BY <1>1, <1>2 DEF HealInv
<1> QED  BY <1>1, <1>3, <1>4 DEF TransferInv

(* The transfer throws.                                                    *)
LEMMA TransferFailsSound ==
  ASSUME TransferInv, TransferFails
  PROVE  TransferInv'
<1>1. /\ StagingTypeOK' /\ ComingInv' /\ ArrivingInv' /\ BytesInv' /\ RowsInv' /\ LoopInv'
      /\ cuts' = cuts \cup {"failure"} /\ ending' = "failure" /\ pc' = "idle"
      /\ kind' = kind /\ stored' = stored
  BY PartWritten, CommitOrRollbackEither, EndsSound DEF TransferFails
<1>2. CutsInv'
  <2>1. CutsInv
    BY DEF TransferInv
  <2> QED  BY <1>1, <2>1 DEF CutsInv, CutsExplained, InTwoPackages, Holds
<1>3. HealInv'
  <2>1. CASE kind = "packed"
    BY <1>1, <2>1 DEF HealInv
  <2>2. CASE kind # "packed"
    <3>1. db' = saved /\ saved' = saved
      BY <2>2 DEF TransferFails, CommitOrRollback, Rollback
    <3>2. Full(saved, saved.contents)
      BY <2>2 DEF TransferInv, HealInv
    <3> QED  BY <1>1, <3>1, <3>2 DEF HealInv
  <2> QED  BY <2>1, <2>2
<1> QED  BY <1>1, <1>2, <1>3 DEF TransferInv

(* The process ends.                                                       *)
LEMMA CrashSound ==
  ASSUME TransferInv, Crash
  PROVE  TransferInv'
<1>1. /\ StagingTypeOK' /\ ComingInv' /\ ArrivingInv' /\ BytesInv' /\ RowsInv' /\ LoopInv'
      /\ cuts' = cuts \cup {"crash"} /\ ending' = "crash" /\ pc' = "idle"
      /\ kind' = kind /\ stored' = stored
  BY PartWritten, EndsSound DEF Crash
<1>2. CutsInv'
  <2>1. CutsInv
    BY DEF TransferInv
  <2> QED  BY <1>1, <2>1 DEF CutsInv, CutsExplained, InTwoPackages, Holds
<1>3. HealInv'
  <2>1. db' = saved /\ saved' = saved
    BY DEF Crash, Rollback
  <2>2. (kind = "packed" => cuts \cap {"failure", "blocked"} = {}) => Full(saved, saved.contents)
    BY DEF TransferInv, HealInv
  <2> QED  BY <1>1, <2>1, <2>2 DEF HealInv
<1> QED  BY <1>1, <1>2, <1>3 DEF TransferInv

(* The transfer ends with all files in the database.                       *)
LEMMA TransferEndsSound ==
  ASSUME TransferInv, TransferEnds
  PROVE  TransferInv'
<1>1. /\ StagingTypeOK' /\ ComingInv' /\ ArrivingInv' /\ BytesInv' /\ RowsInv' /\ LoopInv'
      /\ cuts' = cuts /\ ending' = "ok" /\ pc' = "idle"
      /\ kind' = kind /\ stored' = stored
  <2>1. cuts' = cuts \cup ({"ok"} \ {"ok"})
    BY DEF TransferEnds, Ends
  <2> QED  BY <2>1, DiskAsBefore, EndsSound DEF TransferEnds
<1>2. pc = "transfer" /\ arriving = <<>> /\ disk' = disk /\ saved' = db /\ db' = db
  BY DEF TransferEnds, Commit
<1>3. CutsInv'
  <2>1. CutsInv
    BY DEF TransferInv
  <2> QED  BY <1>1, <1>2, <2>1 DEF CutsInv, CutsExplained, InTwoPackages, Holds
<1>4. HealInv'
  <2>1. (kind = "packed" => cuts \cap {"failure", "blocked"} = {}) => Full(db, db.contents)
    BY <1>2 DEF TransferInv, HealInv
  <2>2. Wanted \subseteq db.contents
    <3>1. stagingFile = NoContent
      BY <1>2 DEF TransferInv, ArrivingInv
    <3>2. \A c \in Wanted \ (db.contents \cup {stagingFile}) : BeginsIn(arriving, c)
      BY <1>2 DEF TransferInv, ArrivingInv
    <3>3. \A c : ~BeginsIn(<<>>, c)
      BY DEF BeginsIn
    <3> QED  BY <1>2, <3>1, <3>2, <3>3, Constants
  <2> QED  BY <1>1, <1>2, <2>1, <2>2 DEF HealInv
<1> QED  BY <1>1, <1>3, <1>4 DEF TransferInv

(* A content arrives again: the source has it in two packages.             *)
LEMMA ReceiveTwiceSound ==
  ASSUME TransferInv, ReceiveTwice
  PROVE  TransferInv'
<1> DEFINE chunk == Head(arriving)
<1>1. /\ StagingTypeOK' /\ ComingInv' /\ ArrivingInv' /\ BytesInv' /\ RowsInv' /\ LoopInv'
      /\ cuts' = cuts \cup {"duplicate"} /\ ending' = "duplicate" /\ pc' = "idle"
      /\ kind' = kind /\ stored' = stored
  BY DiskAsBefore, CommitOrRollbackEither, EndsSound DEF ReceiveTwice
<1>2. /\ pc = "transfer" /\ arriving # <<>> /\ ~Stray(chunk)
      /\ chunk.content \in db.contents /\ CommitOrRollback /\ disk' = disk
  BY DEF ReceiveTwice
<1>3. chunk = arriving[1] /\ 1 \in DOMAIN arriving
  <2>1. arriving \in Seq(Chunk)
    BY DEF TransferInv, StagingTypeOK
  <2> QED  BY <1>2, <2>1
<1>4. chunk.content \in Repeated
  <2> HIDE DEF chunk
  <2>1. CASE chunk.sourceOffset = 0
    BY <1>2, <1>3, <2>1 DEF TransferInv, ArrivingInv
  <2>2. CASE chunk.sourceOffset # 0
    <3>1. stagingFile = chunk.content
      BY <1>2, <2>2 DEF Stray
    <3>2. stagingFile \in db.contents /\ stagingFile # NoContent
      <4>1. db.contents \subseteq Contents
        BY DatabaseFields DEF TransferInv, StagingTypeOK
      <4> QED  BY <1>2, <3>1, <4>1, Constants
    <3> QED  BY <1>2, <3>1, <3>2 DEF TransferInv, ArrivingInv
  <2> QED  BY <2>1, <2>2
<1>5. kind = "packed" /\ \E c \in Wanted : InTwoPackages(c)
  BY <1>4 DEF Repeated
<1>6. saved' = db /\ db' = db
  BY <1>2, <1>5 DEF CommitOrRollback, Commit
<1>7. CutsInv'
  <2>1. CutsInv
    BY DEF TransferInv
  <2> QED  BY <1>1, <1>2, <1>5, <1>6, <2>1 DEF CutsInv, CutsExplained, InTwoPackages, Holds
<1>8. HealInv'
  <2>1. (kind = "packed" => cuts \cap {"failure", "blocked"} = {}) => Full(db, db.contents)
    BY <1>2 DEF TransferInv, HealInv
  <2> QED  BY <1>1, <1>6, <2>1 DEF HealInv
<1> QED  BY <1>1, <1>7, <1>8 DEF TransferInv

(* A file is in the way: an attempt has left it.                           *)
LEMMA CopyBlockedSound ==
  ASSUME TransferInv, CopyBlocked
  PROVE  TransferInv'
<1>1. /\ StagingTypeOK' /\ ComingInv' /\ ArrivingInv' /\ BytesInv' /\ RowsInv' /\ LoopInv'
      /\ cuts' = cuts \cup {"blocked"} /\ ending' = "blocked" /\ pc' = "idle"
      /\ kind' = kind /\ stored' = stored
  BY DiskAsBefore, CommitOrRollbackEither, EndsSound DEF CopyBlocked
<1>2. /\ pc = "targets" /\ targets # <<>> /\ CommitOrRollback /\ disk' = disk
      /\ staged /\ disk[Head(targets)] # Absent
  BY DEF CopyBlocked, InTheWay
<1>3. kind = "packed"
  BY <1>2 DEF TransferInv, LoopInv, StagingTypeOK
<1>4. saved' = db /\ db' = db
  BY <1>2, <1>3 DEF CommitOrRollback, Commit
<1>5. cuts \cap {"crash", "failure"} # {}
  <2>1. Head(targets) \in Paths /\ Head(targets) \notin DOMAIN db.files
    BY <1>2, PendingTarget
  <2> QED  BY <1>2, <1>3, <2>1 DEF TransferInv, CutsInv
<1>6. CutsInv'
  <2>1. CutsInv
    BY DEF TransferInv
  <2> QED  BY <1>1, <1>2, <1>3, <1>4, <1>5, <2>1 DEF CutsInv, CutsExplained, InTwoPackages, Holds
<1>7. HealInv'
  BY <1>1, <1>3 DEF HealInv
<1> QED  BY <1>1, <1>6, <1>7 DEF TransferInv

-----------------------------------------------------------------------------
(* Configure, Plan and StartThreads                                        *)

LEMMA PlanSound ==
  ASSUME PlanInv, TransferInv, Plan, PlanInv'
  PROVE  TransferInv'
<1>1. /\ pc = "plan" /\ PlanStep
      /\ UNCHANGED <<fileVars, dbVars, callVars, historyVars, pc, arriving, ending, cuts,
                     lost>>
  BY DEF Plan
<1>2. stored' = stored
  BY <1>1 DEF PlanStep, NextPackage, FirstOfBatch, Join, CloseBatch
<1>3. UNCHANGED <<kind, db, saved, disk, temporary, stagingFile, pc, arriving, current,
                  staged, targets, ending, cuts, lost>>
  BY <1>1 DEF fileVars, dbVars, callVars, historyVars
<1>4. ComingInv'
  BY PlanComing
<1>5. StagingTypeOK' /\ BytesInv' /\ CutsInv' /\ HealInv'
  BY <1>2, <1>3 DEF TransferInv, StagingTypeOK, BytesInv, CutsInv, CutsExplained, InTwoPackages,
     Holds, HealInv
<1>6. ArrivingInv' /\ LoopInv'
  BY <1>1, <1>3 DEF ArrivingInv, LoopInv
<1>7. RowsInv'
  BY <1>3 DEF TransferInv, RowsInv, Rows
<1> QED  BY <1>4, <1>5, <1>6, <1>7 DEF TransferInv

(* What was planned is what will arrive.                                   *)
LEMMA StartThreadsSound ==
  ASSUME PlanInv, TransferInv, StartThreads
  PROVE  TransferInv'
<1>1. /\ pc = "plan" /\ Planned /\ pc' = "transfer"
      /\ UNCHANGED <<planVars, fileVars, dbVars, callVars, historyVars, ending, cuts, lost>>
  BY DEF StartThreads, Goto
<1>2. UNCHANGED <<stored, kind, db, saved, disk, temporary, stagingFile, current,
                  staged, targets, ending, cuts, lost>>
  BY <1>1 DEF planVars, fileVars, dbVars, callVars, historyVars
<1>3. /\ kind = "packed" /\ stagingFile = NoContent /\ saved = db
      /\ requested = Wanted \ db.contents
      /\ InPieces(Coming, Repeated) /\ Starts(Coming)
      /\ \A i \in DOMAIN Coming : Coming[i].content \in requested
      /\ \A c \in requested :
           BeginsIn(Coming, c) \/ \E p \in toVisit : BeginsIn(stored[p], c)
  BY <1>1 DEF TransferInv, ComingInv
<1>4. arriving' = Coming
  <2> DEFINE f == FlattenSeq(Requests)
  <2>1. arriving' = f
    BY DEF StartThreads, Requests
  <2>2. batch.requests = <<>>
    BY <1>1, NoBatchEmpty DEF Planned
  <2>3. Rest = <<>>
    <3>1. readRequests \in Seq(Chunk) /\ index \in Nat \ {0}
      BY ComingParts
    <3>2. index \in Int /\ Len(readRequests) \in Int /\ Len(readRequests) < index
      BY <1>1, <3>1 DEF Planned, Exhausted
    <3> QED  BY <3>2, SubSeqEmpty DEF Rest
  <2>4. Coming = (f \o <<>>) \o <<>>
    BY <2>2, <2>3 DEF Coming
  <2>5. f \in Seq(Chunk)
    BY ComingParts
  <2> HIDE DEF f
  <2>6. f \o <<>> = f
    BY <2>5, ConcatEmptySeq
  <2> QED  BY <2>1, <2>4, <2>6
<1>5. toVisit = {}
  BY <1>1 DEF Planned
<1>6. Repeated' = Repeated
  BY <1>2, RepeatedStable
<1> HIDE DEF Coming
<1>7. ArrivingInv'
  <2>1. \A i \in DOMAIN arriving' : arriving'[i].content \notin db.contents \cup {stagingFile}
    BY <1>3, <1>4, Constants
  <2> QED  BY <1>1, <1>2, <1>3, <1>4, <1>5, <1>6, <2>1 DEF ArrivingInv
<1>8. StagingTypeOK'
  <2>1. arriving' \in Seq(Chunk)
    BY <1>3, <1>4 DEF InPieces
  <2> QED  BY <1>1, <1>2, <2>1 DEF TransferInv, StagingTypeOK
<1>9. BytesInv' /\ CutsInv'
  BY <1>2 DEF TransferInv, BytesInv, CutsInv, CutsExplained, InTwoPackages, Holds
<1>10. ComingInv' /\ LoopInv'
  BY <1>1 DEF ComingInv, LoopInv
<1>11. RowsInv' /\ HealInv'
  BY <1>1, <1>2 DEF TransferInv, RowsInv, Rows, HealInv
<1> QED  BY <1>7, <1>8, <1>9, <1>10, <1>11 DEF TransferInv

(* The contents a deployed source is asked for, one after the other.       *)
LEMMA WholeFilesArrive ==
  ASSUME NEW W \in SUBSET Wanted, NEW order \in SetToSeqs(W), NEW twice,
         NEW l, l = [i \in DOMAIN order |-> WholeFile(order[i])]
  PROVE  /\ InPieces(l, twice) /\ Starts(l)
         /\ \A i \in DOMAIN l : Whole(l[i]) /\ l[i].content \in W
         /\ \A c \in W : BeginsIn(l, c)
<1> DEFINE n == Cardinality(W)
<1>1. IsFiniteSet(W) /\ n \in Nat
  <2>1. IsFiniteSet(Contents) /\ W \subseteq Contents
    BY BatchingAssumption, Constants
  <2> QED  BY <2>1, FS_Subset, FS_CardinalityType
<1>2. order \in [1..n -> W] /\ \A i, j \in 1..n : i # j => order[i] # order[j]
  BY DEF SetToSeqs
<1> HIDE DEF n
<1>3. order \in Injection(1..n, W)
  BY <1>2 DEF Injection, IsInjective
<1>4. order \in Surjection(1..n, W)
  <2>1. Cardinality(1..n) = Cardinality(W)
    BY <1>1, FS_Interval DEF n
  <2> QED  BY <1>1, <1>3, <2>1, FS_Injection
<1>5. \A c \in W : \E i \in 1..n : order[i] = c
  BY <1>4 DEF Surjection
<1>6. DOMAIN l = 1..n /\ \A i \in 1..n : l[i] = WholeFile(order[i])
  BY <1>2
<1>7. ASSUME NEW i \in 1..n
      PROVE  /\ l[i] \in Chunk /\ l[i].content = order[i] /\ order[i] \in W
             /\ l[i].sourceOffset = 0 /\ l[i].sourceSize = TotalSize[order[i]]
             /\ TotalSize[order[i]] \in Nat
  <2>1. order[i] \in W /\ order[i] \in Contents /\ TotalSize[order[i]] \in Nat
    BY <1>2, Constants
  <2>2. WholeFile(order[i]) \in Chunk
    BY <2>1 DEF WholeFile, Chunk
  <2>3. l[i] = WholeFile(order[i])
    BY <1>6
  <2> QED  BY <2>1, <2>2, <2>3 DEF WholeFile
<1>8. l \in Seq(Chunk)
  <2>1. l = [i \in 1..n |-> WholeFile(order[i])]
    BY <1>2
  <2>2. \A i \in 1..n : WholeFile(order[i]) \in Chunk
    BY <1>6, <1>7
  <2>3. l \in [1..n -> Chunk]
    BY <2>1, <2>2
  <2> QED  BY <1>1, <2>3, FunctionIsSeq
<1>9. \A i \in 1..n : Whole(l[i]) /\ Completes(l[i]) /\ Sized(l[i]) /\ l[i].content \in W
  BY <1>7 DEF Whole, Completes, Sized
<1>10. Linked(l)
  BY <1>6, <1>7, <1>9 DEF Linked
<1>11. BeginsOnce(l, twice)
  BY <1>2, <1>6, <1>7 DEF BeginsOnce
<1>12. Starts(l)
  <2>1. l # <<>> => 1 \in DOMAIN l
    BY <1>8
  <2> QED  BY <1>6, <1>7, <2>1 DEF Starts
<1>13. \A c \in W : BeginsIn(l, c)
  BY <1>5, <1>6, <1>7 DEF BeginsIn, Begins
<1>14. InPieces(l, twice)
  BY <1>6, <1>8, <1>9, <1>10, <1>11 DEF InPieces
<1> QED  BY <1>6, <1>9, <1>12, <1>13, <1>14

(* Configure plans for a packed source, else takes whole files.            *)
LEMMA ConfigureSound ==
  ASSUME PlanInv, TransferInv, Configure, PlanInv'
  PROVE  TransferInv'
<1>1. /\ pc = "idle" /\ kind' = kind
      /\ db' = [db EXCEPT !.contents = Referenced] /\ saved' = db'
      /\ UNCHANGED <<disk, temporary, stagingFile, current, staged, targets, ending, cuts,
                     lost>>
      /\ pc' = IF kind = "packed" THEN "plan" ELSE "transfer"
  BY DEF Configure, Goto, fileVars, callVars
<1>2. /\ db \in Database /\ stored \in Layouts /\ kind \in {"packed", "deployed"}
      /\ Rows(db) /\ saved = db /\ stagingFile = NoContent
  BY <1>1 DEF TransferInv, StagingTypeOK, RowsInv
<1>3. stored' = stored
  BY DEF Configure, Prepare, planVars
<1>4. /\ Referenced \subseteq db.contents
      /\ \A p \in DOMAIN db.files : db.files[p] \in Referenced
  BY <1>2 DEF Referenced, Rows
<1>5. /\ db' = [contents |-> Referenced, files |-> db.files]
      /\ db'.contents = Referenced /\ db'.files = db.files
  <2>1. db = [contents |-> db.contents, files |-> db.files]
    BY <1>2, DatabaseFields
  <2>2. db' = [contents |-> Referenced, files |-> db.files]
    BY <1>1, <2>1
  <2> QED  BY <2>2
<1>6. db' \in Database
  <2>1. /\ Referenced \subseteq Contents /\ DOMAIN db.files \subseteq Paths
        /\ db.files \in [DOMAIN db.files -> Contents]
    BY <1>2, <1>4, DatabaseFields
  <2> QED  BY <1>5, <2>1, DatabaseMade
<1>7. RowsInv'
  <2>1. Rows(db)'
    BY <1>1, <1>2, <1>4, <1>5 DEF Rows
  <2>2. Rows(saved)'
    BY <1>1, <2>1 DEF Rows
  <2> QED  BY <1>1, <1>2, <2>1, <2>2 DEF RowsInv
<1>8. BytesInv' /\ LoopInv'
  BY <1>1 DEF TransferInv, BytesInv, LoopInv
<1>9. CutsInv'
  <2>1. CutsInv
    BY DEF TransferInv
  <2> QED  BY <1>1, <1>3, <1>5, <2>1 DEF CutsInv, CutsExplained, InTwoPackages, Holds
<1>10. HealInv'
  <2>1. (kind = "packed" => cuts \cap {"failure", "blocked"} = {}) => Full(db, db.contents)
    BY <1>1 DEF TransferInv, HealInv
  <2>2. Full(db, db.contents) => Full(db', Referenced)
    BY <1>4, <1>5 DEF Full
  <2>3. pc' # "targets" /\ pc' # "idle"
    BY <1>1
  <2> QED  BY <1>1, <1>5, <2>1, <2>2, <2>3 DEF HealInv
<1>11. ComingInv'
  BY ConfigureComing
<1>12. ArrivingInv' /\ arriving' \in Seq(Chunk)
  <2>1. CASE kind = "packed"
    <3>1. arriving' = <<>>
      BY <2>1 DEF Configure
    <3>2. <<>> \in Seq(Chunk)
      OBVIOUS
    <3> QED  BY <1>1, <2>1, <3>1, <3>2 DEF ArrivingInv
  <2>2. CASE kind # "packed"
    <3> DEFINE W == Wanted \ Referenced
    <3>1. PICK order \in SetToSeqs(W) :
            arriving' = [i \in DOMAIN order |-> WholeFile(order[i])]
      BY <2>2 DEF Configure
    <3>2. W \in SUBSET Wanted
      OBVIOUS
    <3> HIDE DEF W
    <3>3. /\ InPieces(arriving', Repeated') /\ Starts(arriving')
          /\ \A i \in DOMAIN arriving' : Whole(arriving'[i]) /\ arriving'[i].content \in W
          /\ \A c \in W : BeginsIn(arriving', c)
      BY <3>1, <3>2, WholeFilesArrive
    <3>4. \A i \in DOMAIN arriving' : arriving'[i].content \notin db'.contents \cup {stagingFile'}
      BY <1>1, <1>2, <1>5, <3>2, <3>3, Constants DEF W
    <3>5. \A c \in Wanted \ (db'.contents \cup {stagingFile'}) : c \in W
      BY <1>5 DEF W
    <3>6. stagingFile' = NoContent
      BY <1>1, <1>2
    <3>7. arriving' \in Seq(Chunk)
      BY <3>3 DEF InPieces
    <3> QED  BY <3>3, <3>4, <3>5, <3>6, <3>7 DEF ArrivingInv
  <2> QED  BY <2>1, <2>2
<1>13. StagingTypeOK'
  <2>1. StagingTypeOK /\ pc' \in {"idle", "plan", "transfer", "targets"}
    BY <1>1 DEF TransferInv
  <2> QED  BY <1>1, <1>3, <1>6, <1>12, <2>1 DEF StagingTypeOK
<1> QED  BY <1>7, <1>8, <1>9, <1>10, <1>11, <1>12, <1>13 DEF TransferInv

-----------------------------------------------------------------------------
(* The loop over the files of a content                                    *)

(* What the loop is about.                                                 *)
LEMMA LoopFacts ==
  ASSUME TransferInv, pc = "targets"
  PROVE  /\ current \in Chunk /\ current.content \in Contents /\ current.content \in Wanted
         /\ Targets[current.content] \in Seq(Paths)
         /\ Len(Targets[current.content]) \in Nat
         /\ DOMAIN Targets[current.content] = 1..Len(Targets[current.content])
         /\ targets \in Seq(Paths) /\ Len(targets) \in Nat /\ DOMAIN targets = 1..Len(targets)
         /\ Done \in Nat /\ Done + Len(targets) = Len(Targets[current.content])
<1>1. /\ current \in Chunk /\ current.content \in Wanted /\ Done \in Nat
  BY DEF TransferInv, LoopInv
<1>2. targets \in Seq(Paths)
  BY DEF TransferInv, StagingTypeOK
<1>3. current.content \in Contents /\ Targets[current.content] \in Seq(Paths)
  BY <1>1, Constants
<1>4. Len(targets) \in Nat /\ DOMAIN targets = 1..Len(targets)
  BY <1>2
<1>5. /\ Len(Targets[current.content]) \in Nat
      /\ DOMAIN Targets[current.content] = 1..Len(Targets[current.content])
  BY <1>3
<1>6. Done + Len(targets) = Len(Targets[current.content])
  BY <1>4, <1>5 DEF Done
<1> QED  BY <1>1, <1>2, <1>3, <1>4, <1>5, <1>6

(* A file with all of its bytes.                                           *)
LEMMA AllOfImage ==
  ASSUME NEW c \in Contents
  PROVE  AllOf(c) \in Image /\ AllOf(c).bytes = 0 .. (TotalSize[c] - 1) /\ AllOf(c) # Absent
<1>1. TotalSize[c] \in Nat
  BY Constants
<1>2. 0 .. (TotalSize[c] - 1) \in SUBSET Nat
  BY <1>1
<1>3. AllOf(c).content = c /\ AllOf(c).bytes = 0 .. (TotalSize[c] - 1)
  BY DEF AllOf
<1>4. AllOf(c) \in Image
  BY <1>2 DEF AllOf, Image
<1>5. AllOf(c) # Absent
  BY <1>3, Constants DEF Absent
<1> QED  BY <1>3, <1>4, <1>5

(* A write adds its bytes.                                                 *)
LEMMA WrittenImage ==
  ASSUME NEW c \in Contents, NEW file \in Image, NEW n \in Nat, NEW bytes,
         file.bytes \subseteq 0 .. (n - 1), bytes \subseteq 0 .. (n - 1)
  PROVE  /\ Written(file, c, bytes) \in Image
         /\ Written(file, c, bytes).content = c
         /\ Written(file, c, bytes).bytes = file.bytes \cup bytes
         /\ Written(file, c, bytes).bytes \subseteq 0 .. (n - 1)
<1> DEFINE all == file.bytes \cup bytes
<1>1. all \subseteq 0 .. (n - 1)
  OBVIOUS
<1>2. all \in SUBSET Nat
  BY <1>1
<1> HIDE DEF all
<1>3. [content |-> c, bytes |-> all] \in Image
  BY <1>2, ImageFields
<1>4. Written(file, c, bytes) = [content |-> c, bytes |-> all]
  BY DEF Written, all
<1> QED  BY <1>1, <1>3, <1>4 DEF all

(* What is renamed or copied is whole, unless a write got lost.            *)
LEMMA StagedFileWhole ==
  ASSUME TransferInv, pc = "targets", targets # <<>>, staged
  PROVE  /\ StagedFile \in Image
         /\ StagedFile.bytes \subseteq 0 .. (TotalSize[current.content] - 1)
         /\ current.content \in lost \/ StagedFile = AllOf(current.content)
<1> DEFINE c == current.content
<1>1. c \in Contents /\ Done + 1 \in DOMAIN Targets[c]
  BY PendingTarget
<1>2. /\ \A i \in 1 .. Done : Targets[c][i] \in DOMAIN db.files
      /\ First /\ c \notin lost => temporary[c] = AllOf(c)
  BY DEF TransferInv, LoopInv
<1>3. /\ temporary \in [Contents -> Image] /\ disk \in [Paths -> Image]
      /\ temporary[c].bytes \subseteq 0 .. (TotalSize[c] - 1)
      /\ \A i \in DOMAIN Targets[c] : disk[Targets[c][i]].bytes \subseteq 0 .. (TotalSize[c] - 1)
  BY <1>1 DEF TransferInv, StagingTypeOK, BytesInv
<1>4. CASE First
  <2>1. StagedFile = temporary[c]
    BY <1>4 DEF StagedFile
  <2> QED  BY <1>1, <1>2, <1>3, <1>4, <2>1
<1>5. CASE ~First
  <2>1. Done # 0
    BY <1>5, LoopFacts DEF First
  <2>2. Done \in 1 .. Done /\ Done \in DOMAIN Targets[c]
    BY <2>1, LoopFacts
  <2>3. Targets[c][Done] \in DOMAIN db.files /\ Targets[c][Done] \in Paths
    BY <1>1, <1>2, <2>2, Constants
  <2>4. db \in Database /\ Rows(db)
    BY DEF TransferInv, StagingTypeOK, RowsInv
  <2>5. db.files[Targets[c][Done]] = c
    BY <1>1, <2>2, <2>3, <2>4, RowOfTarget
  <2>6. c \in lost \/ disk[Targets[c][Done]] = AllOf(c)
    BY <2>3, <2>4, <2>5 DEF Rows
  <2>7. StagedFile = disk[Targets[c][Done]]
    BY <1>5 DEF StagedFile, Done
  <2>8. disk[Targets[c][Done]] \in Image
    BY <1>3, <2>3
  <2>9. disk[Targets[c][Done]].bytes \subseteq 0 .. (TotalSize[c] - 1)
    BY <1>3, <2>2
  <2> QED  BY <2>6, <2>7, <2>8, <2>9
<1> QED  BY <1>4, <1>5

(* Every target becomes the whole content, renamed, copied or written,     *)
(* unless a write gets lost.                                               *)
LEMMA TargetMade ==
  ASSUME TransferInv, pc = "targets", targets # <<>>,
         PlaceStaged(Head(targets)) \/ WriteFile(Head(targets))
  PROVE  /\ \E file \in Image :
              /\ disk' = [disk EXCEPT ![Head(targets)] = file]
              /\ file.bytes \subseteq 0 .. (TotalSize[current.content] - 1)
              /\ current.content \in lost' \/ file = AllOf(current.content)
         /\ \/ temporary' = [temporary EXCEPT ![current.content] = Absent]
            \/ temporary' = temporary
         /\ lost \subseteq lost' /\ lost' \subseteq lost \cup {current.content}
<1> DEFINE p == Head(targets)
           c == current.content
           n == TotalSize[c]
<1>1. /\ c \in Contents /\ Done + 1 \in DOMAIN Targets[c] /\ p = Targets[c][Done + 1]
      /\ p \in Paths
  BY PendingTarget
<1>2. n \in Nat
  BY <1>1, Constants
<1>3. CASE PlaceStaged(p)
  <2>1. /\ staged /\ disk' = [disk EXCEPT ![p] = StagedFile]
        /\ temporary' = IF First THEN [temporary EXCEPT ![c] = Absent] ELSE temporary
        /\ lost' = lost
    BY <1>3 DEF PlaceStaged
  <2>2. /\ StagedFile \in Image /\ StagedFile.bytes \subseteq 0 .. (n - 1)
        /\ c \in lost \/ StagedFile = AllOf(c)
    BY <2>1, StagedFileWhole
  <2> HIDE DEF p, c, n
  <2>3. \/ temporary' = [temporary EXCEPT ![c] = Absent]
        \/ temporary' = temporary
    BY <2>1
  <2> QED  BY <2>1, <2>2, <2>3 DEF p, c, n
<1>4. CASE WriteFile(p)
  <2> DEFINE whole == Written(disk[p], c, Bytes(current))
             none == Written(disk[p], c, {})
  <2>1. /\ ~staged /\ temporary' = temporary
        /\ \/ disk' = [disk EXCEPT ![p] = whole] /\ lost' = lost
           \/ disk' = [disk EXCEPT ![p] = none] /\ lost' = lost \cup {c}
           \/ disk' = disk /\ lost' = lost \cup {c}
    BY <1>4 DEF WriteFile, Losing
  <2>2. current.sourceOffset = 0 /\ current.sourceSize = n
    BY <2>1 DEF TransferInv, LoopInv, Whole
  <2>3. Bytes(current) = 0 .. (n - 1)
    <3>1. 0 + n - 1 = n - 1
      BY <1>2
    <3> QED  BY <2>2, <3>1 DEF Bytes
  <2>4. disk[p].bytes \subseteq 0 .. (n - 1) /\ disk[p] \in Image
    BY <1>1 DEF TransferInv, BytesInv, StagingTypeOK
  <2>5. disk = [disk EXCEPT ![p] = disk[p]]
    BY <1>1 DEF TransferInv, StagingTypeOK
  <2>6. /\ whole \in Image /\ whole.bytes \subseteq 0 .. (n - 1)
        /\ none \in Image /\ none.bytes \subseteq 0 .. (n - 1)
    <3>1. {} \subseteq 0 .. (n - 1)
      OBVIOUS
    <3> HIDE DEF n
    <3> QED  BY <1>1, <1>2, <2>3, <2>4, <3>1, WrittenImage
  <2>7. whole = AllOf(c)
    <3>1. disk[p].bytes \cup Bytes(current) = 0 .. (n - 1)
      BY <2>3, <2>4
    <3> QED  BY <3>1 DEF Written, AllOf
  <2> HIDE DEF p, c, n, whole, none
  <2>8. CASE disk' = [disk EXCEPT ![p] = whole] /\ lost' = lost
    BY <2>1, <2>6, <2>7, <2>8 DEF p, c, n
  <2>9. CASE disk' = [disk EXCEPT ![p] = none] /\ lost' = lost \cup {c}
    BY <2>1, <2>6, <2>9 DEF p, c, n
  <2>10. CASE disk' = disk /\ lost' = lost \cup {c}
    BY <2>1, <2>4, <2>5, <2>10 DEF p, c, n
  <2> QED  BY <2>1, <2>8, <2>9, <2>10
<1> QED  BY <1>3, <1>4

(* A target gets the bytes of the content, and its row.                    *)
LEMMA WriteTargetSound ==
  ASSUME TransferInv, WriteTarget
  PROVE  TransferInv'
<1> DEFINE p == Head(targets)
           c == current.content
           f == [q \in DOMAIN db.files \cup {p} |-> IF q = p THEN c ELSE db.files[q]]
<1>1. /\ pc = "targets" /\ targets # <<>>
      /\ PlaceStaged(p) \/ WriteFile(p)
      /\ db' = [db EXCEPT !.files = f]
      /\ targets' = Tail(targets)
      /\ UNCHANGED <<planVars, saved, deployedSize, stagingFile, current, staged,
                     historyVars, pc, arriving, ending, cuts>>
  BY DEF WriteTarget
<1>2. stored' = stored /\ kind' = kind
  BY <1>1 DEF planVars, historyVars
<1>3. /\ c \in Contents /\ Done + 1 \in DOMAIN Targets[c] /\ p = Targets[c][Done + 1]
      /\ p \in Paths /\ p \notin DOMAIN db.files /\ p \notin DOMAIN saved.files /\ Done \in Nat
  BY <1>1, PendingTarget
<1>4. /\ \E file \in Image :
           /\ disk' = [disk EXCEPT ![p] = file]
           /\ file.bytes \subseteq 0 .. (TotalSize[c] - 1)
           /\ c \in lost' \/ file = AllOf(c)
      /\ temporary' = [temporary EXCEPT ![c] = Absent] \/ temporary' = temporary
      /\ lost \subseteq lost' /\ lost' \subseteq lost \cup {c}
  BY <1>1, TargetMade
<1>5. StagingTypeOK /\ BytesInv /\ RowsInv /\ ArrivingInv /\ CutsInv /\ HealInv
  BY DEF TransferInv
<1>6. /\ db \in Database /\ saved \in Database /\ disk \in [Paths -> Image]
      /\ temporary \in [Contents -> Image]
  BY <1>5 DEF StagingTypeOK
<1>7. /\ db' = [contents |-> db.contents, files |-> f]
      /\ db'.contents = db.contents /\ db'.files = f
      /\ DOMAIN f = DOMAIN db.files \cup {p}
  <2>1. db = [contents |-> db.contents, files |-> db.files]
    BY <1>6, DatabaseFields
  <2> HIDE DEF f
  <2>2. db' = [contents |-> db.contents, files |-> f]
    BY <1>1, <2>1
  <2>3. db'.contents = db.contents /\ db'.files = f
    BY <2>2
  <2> QED  BY <2>2, <2>3 DEF f
<1>8. f[p] = c /\ \A q \in DOMAIN db.files : f[q] = db.files[q]
  BY <1>3
<1> HIDE DEF p, c, f
<1>9. /\ disk' \in [Paths -> Image] /\ \A q \in Paths : q # p => disk'[q] = disk[q]
      /\ disk'[p].bytes \subseteq 0 .. (TotalSize[c] - 1)
      /\ c \in lost' \/ disk'[p] = AllOf(c)
  <2>1. PICK file \in Image :
          /\ disk' = [disk EXCEPT ![p] = file]
          /\ file.bytes \subseteq 0 .. (TotalSize[c] - 1)
          /\ c \in lost' \/ file = AllOf(c)
    BY <1>4
  <2>2. disk'[p] = file
    BY <1>3, <1>6, <2>1
  <2> QED  BY <1>3, <1>6, <2>1, <2>2
<1>10. /\ temporary' \in [Contents -> Image]
       /\ \A d \in Contents : temporary'[d] = temporary[d] \/ temporary'[d] = Absent
  BY <1>3, <1>4, <1>6, ImageFields
<1>11. db' \in Database
  <2>1. /\ db.contents \subseteq Contents /\ DOMAIN db.files \subseteq Paths
        /\ db.files \in [DOMAIN db.files -> Contents]
    BY <1>6, DatabaseFields
  <2>2. f \in [DOMAIN db.files \cup {p} -> Contents]
    BY <1>3, <2>1 DEF f
  <2>3. DOMAIN db.files \cup {p} \in SUBSET Paths
    BY <1>3, <2>1
  <2> QED  BY <1>7, <2>1, <2>2, <2>3, DatabaseMade
<1>12. /\ targets' \in Seq(Paths) /\ Len(targets') = Len(targets) - 1
       /\ DOMAIN targets' = 1..(Len(targets) - 1)
       /\ \A i \in 1..(Len(targets) - 1) : targets'[i] = targets[i + 1]
       /\ Len(targets) \in Nat /\ DOMAIN targets = 1..Len(targets)
  <2>1. targets \in Seq(Paths) /\ targets # <<>> /\ targets' = Tail(targets)
    BY <1>1, <1>5 DEF StagingTypeOK
  <2> QED  BY <2>1
<1>13. StagingTypeOK'
  BY <1>1, <1>2, <1>3, <1>4, <1>5, <1>9, <1>10, <1>11, <1>12 DEF StagingTypeOK
<1>14. ComingInv'
  BY <1>1 DEF ComingInv
<1>15. ArrivingInv'
  <2>1. stagingFile = NoContent
    BY <1>1 DEF TransferInv, LoopInv
  <2>2. Repeated' = Repeated
    BY <1>2, RepeatedStable
  <2> QED  BY <1>1, <1>2, <1>5, <1>7, <2>1, <2>2 DEF ArrivingInv
<1>16. BytesInv'
  <2>1. ASSUME NEW d \in Contents
        PROVE  temporary'[d].bytes \subseteq 0 .. (TotalSize[d] - 1)
    BY <1>5, <1>10, ImageFields DEF BytesInv
  <2>2. ASSUME NEW d \in Contents, NEW i \in DOMAIN Targets[d]
        PROVE  disk'[Targets[d][i]].bytes \subseteq 0 .. (TotalSize[d] - 1)
    <3>1. Targets[d][i] \in Paths
      BY Constants
    <3>2. CASE Targets[d][i] = p
      <4>1. d = c
        BY <1>3, <3>2, Constants
      <4> QED  BY <1>9, <3>2, <4>1
    <3>3. CASE Targets[d][i] # p
      BY <1>5, <1>9, <3>1, <3>3 DEF BytesInv
    <3> QED  BY <3>2, <3>3
  <2> QED  BY <2>1, <2>2 DEF BytesInv
<1>17. RowsInv'
  <2>1. Rows(db) /\ Rows(saved)
    BY <1>5 DEF RowsInv
  <2>2. DOMAIN db.files \subseteq Paths /\ DOMAIN saved.files \subseteq Paths
    BY <1>6, DatabaseFields
  <2>3. Rows(saved)'
    <3>1. \A q \in DOMAIN saved.files : disk'[q] = disk[q]
      BY <1>3, <1>9, <2>2
    <3>2. saved' = saved
      BY <1>1
    <3> QED  BY <1>4, <2>1, <3>1, <3>2 DEF Rows
  <2>4. Rows(db)'
    <3>1. SUFFICES ASSUME NEW q \in DOMAIN f
                   PROVE  /\ f[q] \in db.contents
                          /\ \E i \in DOMAIN Targets[f[q]] : q = Targets[f[q]][i]
                          /\ f[q] \in lost' \/ disk'[q] = AllOf(f[q])
      BY <1>7 DEF Rows
    <3>2. CASE q = p
      <4>1. c \in db.contents
        BY <1>1 DEF TransferInv, LoopInv, c
      <4> QED  BY <1>3, <1>8, <1>9, <3>2, <4>1
    <3>3. CASE q # p
      <4>1. q \in DOMAIN db.files /\ q \in Paths /\ f[q] = db.files[q]
        BY <1>7, <1>8, <2>2, <3>1, <3>3
      <4>2. /\ db.files[q] \in db.contents
            /\ \E i \in DOMAIN Targets[db.files[q]] : q = Targets[db.files[q]][i]
            /\ db.files[q] \in lost \/ disk[q] = AllOf(db.files[q])
        BY <2>1, <4>1 DEF Rows
      <4>3. disk'[q] = disk[q]
        BY <1>9, <3>3, <4>1
      <4> QED  BY <1>4, <4>1, <4>2, <4>3
    <3> QED  BY <3>2, <3>3
  <2> QED  BY <1>1, <1>5, <1>7, <2>3, <2>4 DEF RowsInv
<1>18. LoopInv'
  <2>1. /\ stagingFile = NoContent
        /\ current \in Chunk /\ current.content \in Wanted
        /\ current.content \in db.contents /\ current.content \notin saved.contents
        /\ staged <=> ~Whole(current)
        /\ kind = "deployed" => ~staged
        /\ \A i \in DOMAIN targets :
             targets[i] = Targets[c][Done + i] /\ targets[i] \notin DOMAIN db.files
        /\ \A i \in 1 .. Done : Targets[c][i] \in DOMAIN db.files
    BY <1>1 DEF TransferInv, LoopInv, c
  <2>2. /\ Done \in Nat /\ Done + Len(targets) = Len(Targets[c])
        /\ Len(Targets[c]) \in Nat /\ DOMAIN Targets[c] = 1..Len(Targets[c])
    BY <1>1, LoopFacts DEF c
  <2>3. Done' = Len(Targets[c]) - Len(targets')
    BY <1>1 DEF Done, c
  <2>4. Done' = Done + 1
    <3>1. /\ Done \in Int /\ Len(targets) \in Int
          /\ Len(targets') = Len(targets) - 1 /\ Len(Targets[c]) = Done + Len(targets)
      BY <1>12, <2>2
    <3>2. (Done + Len(targets)) - (Len(targets) - 1) = Done + 1
      BY <3>1
    <3> QED  BY <2>3, <3>1, <3>2
  <2>5. ASSUME NEW i \in DOMAIN targets'
        PROVE  targets'[i] = Targets[c][(Done + 1) + i] /\ targets'[i] \notin DOMAIN f
    <3>1. /\ i \in 1..(Len(targets) - 1) /\ i + 1 \in DOMAIN targets
          /\ Done + (i + 1) = (Done + 1) + i
          /\ (Done + 1) + i \in DOMAIN Targets[c] /\ (Done + 1) + i # Done + 1
      <4>1. /\ i \in 1..(Len(targets) - 1) /\ DOMAIN targets = 1..Len(targets)
            /\ Len(targets) \in Nat
        BY <1>12
      <4>2. /\ Done \in Nat /\ Len(Targets[c]) = Done + Len(targets)
            /\ DOMAIN Targets[c] = 1..(Done + Len(targets))
        BY <2>2
      <4>3. /\ i + 1 \in 1..Len(targets) /\ Done + (i + 1) = (Done + 1) + i
            /\ (Done + 1) + i \in 1..(Done + Len(targets)) /\ (Done + 1) + i # Done + 1
        <5>1. Done \in Nat /\ Len(targets) \in Nat /\ i \in 1..(Len(targets) - 1)
          BY <4>1, <4>2
        <5> QED  BY <5>1
      <4> QED  BY <4>1, <4>2, <4>3
    <3>2. targets'[i] = Targets[c][(Done + 1) + i] /\ targets'[i] \notin DOMAIN db.files
      BY <1>12, <2>1, <3>1
    <3>3. targets'[i] # p
      BY <1>3, <3>1, <3>2, Constants
    <3> QED  BY <1>7, <3>2, <3>3
  <2>6. ASSUME NEW i \in 1 .. (Done + 1)
        PROVE  Targets[c][i] \in DOMAIN f
    <3>1. i \in 1 .. Done \/ i = Done + 1
      BY <2>2
    <3> QED  BY <1>3, <1>7, <2>1, <3>1
  <2>7. ~First'
    <3>1. First' <=> Len(targets') = Len(Targets[c])
      BY <1>1 DEF First, c
    <3> QED  BY <1>12, <2>2, <3>1
  <2>8. /\ UNCHANGED <<stagingFile, current, staged, saved, kind>>
        /\ db'.contents = db.contents /\ db'.files = f
    BY <1>1, <1>2, <1>7
  <2>9. Done' \in Nat
    BY <2>2, <2>4
  <2>10. \A i \in DOMAIN targets' :
           targets'[i] = Targets[c][Done' + i] /\ targets'[i] \notin DOMAIN f
    BY <2>4, <2>5
  <2>11. \A i \in 1 .. Done' : Targets[c][i] \in DOMAIN f
    BY <2>4, <2>6
  <2> QED  BY <2>1, <2>7, <2>8, <2>9, <2>10, <2>11 DEF LoopInv, c
<1>19. CutsInv'
  <2>1. \A q \in Paths : disk'[q] # Absent => q = p \/ disk[q] # Absent
    BY <1>9
  <2> QED  BY <1>1, <1>2, <1>5, <1>7, <2>1 DEF CutsInv, CutsExplained, InTwoPackages, Holds
<1>20. HealInv'
  <2>1. \A C : Full(db, C) => Full(db', C)
    BY <1>7 DEF Full
  <2> QED  BY <1>1, <1>2, <1>5, <1>7, <2>1 DEF HealInv
<1> QED  BY <1>13, <1>14, <1>15, <1>16, <1>17, <1>18, <1>19, <1>20 DEF TransferInv

(* All files of the content have their rows.                               *)
LEMMA CallbackReturnsSound ==
  ASSUME TransferInv, CallbackReturns
  PROVE  TransferInv'
<1>1. /\ pc = "targets" /\ targets = <<>> /\ pc' = "transfer"
      /\ db' = db /\ saved' \in {db, saved}
      /\ UNCHANGED <<planVars, fileVars, callVars, historyVars, arriving, ending, cuts, lost>>
  BY DEF CallbackReturns, Count, Commit, Goto
<1>2. UNCHANGED <<stored, kind, disk, temporary, stagingFile, current, staged, targets, lost>>
  BY <1>1 DEF planVars, fileVars, callVars, historyVars
<1>3. StagingTypeOK /\ BytesInv /\ RowsInv /\ ArrivingInv /\ CutsInv /\ HealInv
  BY DEF TransferInv
<1>4. StagingTypeOK'
  BY <1>1, <1>2, <1>3 DEF StagingTypeOK
<1>5. ArrivingInv'
  <2>1. Repeated' = Repeated
    BY <1>2, RepeatedStable
  <2> QED  BY <1>1, <1>2, <1>3, <2>1 DEF ArrivingInv
<1>6. BytesInv' /\ ComingInv' /\ LoopInv'
  BY <1>1, <1>2, <1>3 DEF BytesInv, ComingInv, LoopInv
<1>7. RowsInv'
  <2>1. Rows(db)' /\ Rows(saved)'
    BY <1>1, <1>2, <1>3 DEF RowsInv, Rows
  <2> QED  BY <1>1, <1>3, <2>1 DEF RowsInv
<1>8. CutsInv'
  BY <1>1, <1>2, <1>3 DEF CutsInv, CutsExplained, InTwoPackages, Holds
<1>9. HealInv'
  <2> DEFINE c == current.content
             calm == kind = "packed" => cuts \cap {"failure", "blocked"} = {}
  <2>1. calm => Full(saved, saved.contents) /\ Full(db, db.contents \ {c})
    BY <1>1, <1>3 DEF HealInv
  <2>2. \A i \in 1 .. Done : Targets[c][i] \in DOMAIN db.files
    BY <1>1 DEF TransferInv, LoopInv
  <2>3. DOMAIN Targets[c] = 1 .. Done
    <3>1. Len(targets) = 0
      BY <1>1
    <3> QED  BY <1>1, <3>1, LoopFacts
  <2>4. calm => Full(db, db.contents)
    <3> HIDE DEF c, calm
    <3> QED  BY <2>1, <2>2, <2>3 DEF Full
  <2> QED  BY <1>1, <1>2, <2>1, <2>4 DEF HealInv
<1> QED  BY <1>4, <1>5, <1>6, <1>7, <1>8, <1>9 DEF TransferInv

-----------------------------------------------------------------------------
(* A chunk arrives                                                         *)

(* The chunk in the callback, and what has come of its content.            *)
LEMMA HeadFacts ==
  ASSUME TransferInv, pc = "transfer", arriving # <<>>
  PROVE  LET chunk == Head(arriving) c == chunk.content t == Tail(arriving) IN
         /\ chunk = arriving[1] /\ chunk \in Chunk /\ c \in Contents /\ c \in Wanted
         /\ chunk.sourceOffset \in Nat /\ chunk.sourceSize \in Nat /\ TotalSize[c] \in Nat
         /\ Sized(chunk)
         /\ InPieces(t, Repeated) /\ t \in Seq(Chunk)
         /\ \A i \in DOMAIN t : i + 1 \in DOMAIN arriving /\ t[i] = arriving[i + 1]
         /\ \A i \in DOMAIN t :
              t[i].sourceOffset = 0 /\ t[i].content \in db.contents \cup {stagingFile, c}
                => t[i].content \in Repeated
         /\ \A d \in Wanted \ (db.contents \cup {stagingFile, c}) : BeginsIn(t, d)
         /\ Completes(chunk) => Starts(t)
         /\ ~Completes(chunk) => t # <<>> /\ Continues(chunk, t[1])
         /\ c \in db.contents => c \in Repeated
         /\ IF chunk.sourceOffset = 0 THEN stagingFile = NoContent
            ELSE /\ stagingFile = c
                 /\ \/ c \in lost
                    \/ /\ temporary[c].content = c
                       /\ 0 .. (chunk.sourceOffset - 1) \subseteq temporary[c].bytes
<1> DEFINE chunk == Head(arriving)
           c == chunk.content
           t == Tail(arriving)
<1>1. /\ InPieces(arriving, Repeated)
      /\ IF stagingFile = NoContent
           THEN Starts(arriving)
           ELSE /\ arriving # <<>>
                /\ arriving[1].content = stagingFile /\ arriving[1].sourceOffset # 0
                /\ \/ stagingFile \in lost
                   \/ /\ temporary[stagingFile].content = stagingFile
                      /\ 0 .. (arriving[1].sourceOffset - 1)
                           \subseteq temporary[stagingFile].bytes
                /\ stagingFile \in db.contents => stagingFile \in Repeated
      /\ \A i \in DOMAIN arriving :
           arriving[i].sourceOffset = 0 /\ arriving[i].content \in db.contents \cup {stagingFile}
             => arriving[i].content \in Repeated
      /\ \A d \in Wanted \ (db.contents \cup {stagingFile}) : BeginsIn(arriving, d)
  BY DEF TransferInv, ArrivingInv
<1>2. /\ chunk = arriving[1] /\ chunk \in Chunk
      /\ InPieces(t, Repeated)
      /\ \A i \in DOMAIN t : i + 1 \in DOMAIN arriving /\ i + 1 # 1 /\ t[i] = arriving[i + 1]
      /\ \A i \in DOMAIN arriving : i # 1 => i - 1 \in DOMAIN t /\ t[i - 1] = arriving[i]
      /\ Completes(arriving[1]) => Starts(t)
      /\ ~Completes(arriving[1]) => t # <<>> /\ Continues(arriving[1], t[1])
  BY <1>1, TailPieces
<1>3. 1 \in DOMAIN arriving
  <2>1. arriving \in Seq(Chunk)
    BY <1>1 DEF InPieces
  <2> QED  BY <2>1
<1> HIDE DEF chunk, t
<1>4. Sized(chunk) /\ c \in Wanted /\ c \in Contents
  <2>1. Sized(chunk) /\ c \in Wanted
    BY <1>1, <1>2, <1>3 DEF InPieces
  <2> QED  BY <2>1, Constants
<1>5. chunk.sourceOffset \in Nat /\ chunk.sourceSize \in Nat /\ TotalSize[c] \in Nat
  BY <1>2, <1>4, Constants DEF Chunk
<1>6. t \in Seq(Chunk)
  BY <1>2 DEF InPieces
<1>7. stagingFile \in Contents \cup {NoContent}
  BY DEF TransferInv, StagingTypeOK
<1>8. IF chunk.sourceOffset = 0 THEN stagingFile = NoContent
      ELSE /\ stagingFile = c
           /\ \/ c \in lost
              \/ /\ temporary[c].content = c
                 /\ 0 .. (chunk.sourceOffset - 1) \subseteq temporary[c].bytes
  <2>1. CASE stagingFile = NoContent
    <3>1. chunk.sourceOffset = 0
      BY <1>1, <1>2, <2>1 DEF Starts
    <3> QED  BY <2>1, <3>1
  <2>2. CASE stagingFile # NoContent
    BY <1>1, <1>2, <2>2
  <2> QED  BY <2>1, <2>2
<1>9. c \in db.contents => c \in Repeated
  <2>1. CASE chunk.sourceOffset = 0
    BY <1>1, <1>2, <1>3, <2>1
  <2>2. CASE chunk.sourceOffset # 0
    BY <1>1, <1>4, <1>8, <2>2, Constants
  <2> QED  BY <2>1, <2>2
<1>10. ASSUME NEW i \in DOMAIN t, t[i].sourceOffset = 0,
              t[i].content \in db.contents \cup {stagingFile, c}
       PROVE  t[i].content \in Repeated
  <2>1. i + 1 \in DOMAIN arriving /\ i + 1 # 1 /\ t[i] = arriving[i + 1]
    BY <1>2
  <2>2. CASE t[i].content \in db.contents \cup {stagingFile}
    BY <1>1, <1>10, <2>1, <2>2
  <2>3. CASE t[i].content = c /\ chunk.sourceOffset = 0
    <3>1. BeginsOnce(arriving, Repeated)
      BY <1>1 DEF InPieces
    <3>2. /\ arriving[1].sourceOffset = 0 /\ arriving[i + 1].sourceOffset = 0
          /\ arriving[1].content = arriving[i + 1].content
      BY <1>2, <1>10, <2>1, <2>3
    <3>3. 1 = i + 1 \/ arriving[1].content \in Repeated
      BY <1>3, <2>1, <3>1, <3>2 DEF BeginsOnce
    <3> QED  BY <1>2, <2>1, <2>3, <3>3
  <2>4. CASE t[i].content = c /\ chunk.sourceOffset # 0
    <3>1. stagingFile = c
      BY <1>8, <2>4
    <3> QED  BY <1>1, <1>10, <2>1, <2>4, <3>1
  <2> QED  BY <1>10, <2>2, <2>3, <2>4
<1>11. ASSUME NEW d \in Wanted \ (db.contents \cup {stagingFile, c})
       PROVE  BeginsIn(t, d)
  <2>1. PICK i \in DOMAIN arriving : Begins(arriving[i], d)
    BY <1>1 DEF BeginsIn
  <2>2. i # 1
    BY <1>2, <2>1 DEF Begins
  <2>3. i - 1 \in DOMAIN t /\ t[i - 1] = arriving[i]
    BY <1>2, <2>2
  <2>4. Begins(t[i - 1], d)
    BY <2>1, <2>3
  <2> QED  BY <2>3, <2>4 DEF BeginsIn
<1> QED  BY <1>2, <1>4, <1>5, <1>6, <1>8, <1>9, <1>10, <1>11 DEF chunk, t

(* What a chunk adds lies within its content.                              *)
LEMMA ChunkBytes ==
  ASSUME NEW chunk \in Chunk, NEW n \in Nat, chunk.sourceOffset + chunk.sourceSize <= n
  PROVE  /\ Bytes(chunk) \subseteq 0 .. (n - 1)
         /\ 0 .. (chunk.sourceOffset + chunk.sourceSize - 1)
              \subseteq (0 .. (chunk.sourceOffset - 1)) \cup Bytes(chunk)
         /\ chunk.sourceOffset = 0
              => 0 .. (chunk.sourceOffset + chunk.sourceSize - 1) \subseteq Bytes(chunk)
<1>1. chunk.sourceOffset \in Nat /\ chunk.sourceSize \in Nat
  BY DEF Chunk
<1> QED  BY <1>1 DEF Bytes

(* A content that has come: its row, and the loop over its files.          *)
LEMMA PersistSound ==
  ASSUME TransferInv, pc = "transfer", arriving # <<>>, NEW open,
         Persist(Head(arriving), open), Completes(Head(arriving)),
         current' = Head(arriving), arriving' = Tail(arriving),
         UNCHANGED <<planVars, disk, saved, deployedSize, historyVars, ending, cuts>>,
         temporary' \in [Contents -> Image],
         \A c \in Contents : temporary'[c].bytes \subseteq 0 .. (TotalSize[c] - 1),
         lost \subseteq lost', lost' \subseteq lost \cup {Head(arriving).content},
         open # NoContent <=> ~Whole(Head(arriving)),
         open # NoContent /\ Head(arriving).content \notin lost' =>
           temporary'[Head(arriving).content] = AllOf(Head(arriving).content)
  PROVE  TransferInv'
<1> DEFINE chunk == Head(arriving)
           c == chunk.content
           t == Tail(arriving)
<1>1. /\ c \notin db.contents
      /\ db' = [db EXCEPT !.contents = @ \cup {c}]
      /\ staged' = (open # NoContent)
      /\ stagingFile' = NoContent
      /\ targets' = Targets[c]
      /\ pc' = "targets"
  BY DEF Persist, Goto
<1>2. /\ chunk \in Chunk /\ c \in Contents /\ c \in Wanted
      /\ InPieces(t, Repeated) /\ t \in Seq(Chunk)
      /\ \A i \in DOMAIN t : i + 1 \in DOMAIN arriving /\ t[i] = arriving[i + 1]
      /\ \A i \in DOMAIN t :
           t[i].sourceOffset = 0 /\ t[i].content \in db.contents \cup {stagingFile, c}
             => t[i].content \in Repeated
      /\ \A d \in Wanted \ (db.contents \cup {stagingFile, c}) : BeginsIn(t, d)
      /\ Starts(t)
      /\ stagingFile \in {c, NoContent}
  BY HeadFacts
<1>3. stored' = stored /\ kind' = kind
  BY DEF planVars, historyVars
<1>4. StagingTypeOK /\ BytesInv /\ RowsInv /\ CutsInv /\ HealInv
  BY DEF TransferInv
<1>5. db \in Database /\ saved \in Database /\ Rows(db) /\ Rows(saved)
      /\ saved.contents \subseteq db.contents
  BY <1>4 DEF StagingTypeOK, RowsInv
<1>6. /\ db' = [contents |-> db.contents \cup {c}, files |-> db.files]
      /\ db'.contents = db.contents \cup {c} /\ db'.files = db.files
  <2>1. db = [contents |-> db.contents, files |-> db.files]
    BY <1>5, DatabaseFields
  <2> HIDE DEF c
  <2>2. db' = [contents |-> db.contents \cup {c}, files |-> db.files]
    BY <1>1, <2>1
  <2> QED  BY <2>2
<1>7. current' = chunk /\ arriving' = t /\ disk' = disk /\ saved' = saved
      /\ ending' = ending /\ cuts' = cuts
  OBVIOUS
<1> HIDE DEF chunk, t
<1>8. db' \in Database
  <2>1. /\ db.contents \subseteq Contents /\ DOMAIN db.files \subseteq Paths
        /\ db.files \in [DOMAIN db.files -> Contents]
    BY <1>5, DatabaseFields
  <2>2. db.contents \cup {c} \in SUBSET Contents
    BY <1>2, <2>1
  <2> HIDE DEF c
  <2> QED  BY <1>6, <2>1, <2>2, DatabaseMade
<1>9. targets' \in Seq(Paths)
  BY <1>1, <1>2, Constants
<1>10. StagingTypeOK'
  BY <1>1, <1>2, <1>3, <1>4, <1>7, <1>8, <1>9 DEF StagingTypeOK, chunk
<1>11. ComingInv'
  BY <1>1 DEF ComingInv
<1>12. ArrivingInv'
  <2>1. Repeated' = Repeated
    BY <1>3, RepeatedStable
  <2>2. kind = "deployed" => \A i \in DOMAIN t : Whole(t[i])
    BY <1>2 DEF TransferInv, ArrivingInv
  <2>3. \A i \in DOMAIN t :
          t[i].sourceOffset = 0 /\ t[i].content \in db'.contents \cup {stagingFile'}
            => t[i].content \in Repeated
    <3>1. \A i \in DOMAIN t : t[i].content \in Wanted
      BY <1>2 DEF InPieces
    <3> QED  BY <1>1, <1>2, <1>6, <3>1, Constants
  <2>4. \A d \in Wanted \ (db'.contents \cup {stagingFile'}) : BeginsIn(t, d)
    BY <1>1, <1>2, <1>6, Constants
  <2> QED  BY <1>1, <1>2, <1>3, <1>7, <2>1, <2>2, <2>3, <2>4 DEF ArrivingInv
<1>13. BytesInv'
  BY <1>4, <1>7 DEF BytesInv
<1>14. RowsInv'
  <2>1. Rows(db)' /\ Rows(saved)'
    BY <1>5, <1>6, <1>7 DEF Rows
  <2> QED  BY <1>1, <1>5, <1>6, <1>7, <2>1 DEF RowsInv
<1>15. LoopInv'
  <2>1. Done' = 0
    <3>1. Done' = Len(Targets[c]) - Len(Targets[c])
      BY <1>1, <1>7 DEF Done
    <3>2. Len(Targets[c]) \in Nat
      <4>1. Targets[c] \in Seq(Paths)
        BY <1>2, Constants
      <4> QED  BY <4>1
    <3> QED  BY <3>1, <3>2
  <2>2. ASSUME NEW i \in DOMAIN Targets[c]
        PROVE  Targets[c][i] = Targets[c][0 + i] /\ Targets[c][i] \notin DOMAIN db.files
    <3>1. 0 + i = i
      <4>1. Targets[c] \in Seq(Paths)
        BY <1>2, Constants
      <4>2. i \in Int
        BY <4>1
      <4> QED  BY <4>2
    <3>2. Targets[c][i] \notin DOMAIN db.files
      BY <1>1, <1>2, <1>5, RowOfTarget
    <3> QED  BY <3>1, <3>2
  <2>3. c \in db'.contents /\ c \notin saved.contents
    BY <1>1, <1>5, <1>6
  <2>4. staged' <=> ~Whole(chunk)
    BY <1>1 DEF chunk
  <2>5. kind = "deployed" => ~staged'
    <3>1. kind = "deployed" => Whole(arriving[1])
      <4>1. 1 \in DOMAIN arriving
        BY <1>4 DEF StagingTypeOK
      <4> QED  BY <4>1 DEF TransferInv, ArrivingInv
    <3>2. chunk = arriving[1]
      BY HeadFacts DEF chunk
    <3> QED  BY <2>4, <3>1, <3>2
  <2>6. staged' /\ c \notin lost' => temporary'[c] = AllOf(c)
    BY <1>1 DEF chunk
  <2>7. \A i \in 1 .. 0 : Targets[c][i] \in DOMAIN db.files
    OBVIOUS
  <2>8. /\ stagingFile' = NoContent /\ current' = chunk /\ targets' = Targets[c]
        /\ saved' = saved /\ kind' = kind /\ db'.files = db.files
    BY <1>1, <1>3, <1>6, <1>7
  <2>9. 0 \in Nat
    OBVIOUS
  <2> QED  BY <1>2, <2>1, <2>2, <2>3, <2>4, <2>5, <2>6, <2>7, <2>8, <2>9 DEF LoopInv
<1>16. CutsInv'
  BY <1>3, <1>4, <1>6, <1>7 DEF CutsInv, CutsExplained, InTwoPackages, Holds
<1>17. HealInv'
  <2> DEFINE calm == kind = "packed" => cuts \cap {"failure", "blocked"} = {}
  <2>1. calm => Full(saved, saved.contents) /\ Full(db, db.contents)
    BY <1>4 DEF HealInv
  <2>2. Full(db, db.contents) => Full(db', db'.contents \ {c})
    BY <1>6 DEF Full
  <2>3. pc' = "targets" /\ current'.content = c /\ cuts' = cuts /\ kind' = kind /\ saved' = saved
    BY <1>1, <1>3, <1>7
  <2> HIDE DEF c
  <2> QED  BY <2>1, <2>2, <2>3 DEF HealInv
<1> QED  BY <1>10, <1>11, <1>12, <1>13, <1>14, <1>15, <1>16, <1>17 DEF TransferInv

(* A chunk arrives whole, completes its content, or is staged.             *)
LEMMA ReceiveSound ==
  ASSUME TransferInv, Receive
  PROVE  TransferInv'
<1> DEFINE chunk == Head(arriving)
           c == chunk.content
           t == Tail(arriving)
           open == IF Whole(chunk) THEN stagingFile ELSE c
<1>1. /\ pc = "transfer" /\ arriving # <<>>
      /\ current' = chunk
      /\ IF Whole(chunk) THEN UNCHANGED <<temporary, lost>> ELSE StageChunk(chunk)
      /\ IF Whole(chunk) \/ Completes(chunk)
           THEN Persist(chunk, open)
           ELSE stagingFile' = open /\ UNCHANGED <<db, staged, targets, pc>>
      /\ arriving' = t
      /\ UNCHANGED <<planVars, disk, saved, deployedSize, historyVars, ending, cuts>>
  BY DEF Receive
<1>2. /\ chunk = arriving[1] /\ chunk \in Chunk /\ c \in Contents /\ c \in Wanted
      /\ chunk.sourceOffset \in Nat /\ chunk.sourceSize \in Nat /\ TotalSize[c] \in Nat
      /\ Sized(chunk)
      /\ InPieces(t, Repeated) /\ t \in Seq(Chunk)
      /\ \A i \in DOMAIN t : i + 1 \in DOMAIN arriving /\ t[i] = arriving[i + 1]
      /\ \A i \in DOMAIN t :
           t[i].sourceOffset = 0 /\ t[i].content \in db.contents \cup {stagingFile, c}
             => t[i].content \in Repeated
      /\ \A d \in Wanted \ (db.contents \cup {stagingFile, c}) : BeginsIn(t, d)
      /\ ~Completes(chunk) => t # <<>> /\ Continues(chunk, t[1])
      /\ c \in db.contents => c \in Repeated
      /\ IF chunk.sourceOffset = 0 THEN stagingFile = NoContent
         ELSE /\ stagingFile = c
              /\ \/ c \in lost
                 \/ /\ temporary[c].content = c
                    /\ 0 .. (chunk.sourceOffset - 1) \subseteq temporary[c].bytes
  BY <1>1, HeadFacts
<1>3. StagingTypeOK /\ BytesInv /\ RowsInv /\ CutsInv /\ HealInv
  BY DEF TransferInv
<1>4. temporary \in [Contents -> Image] /\ temporary[c] \in Image
      /\ \A d \in Contents : temporary[d].bytes \subseteq 0 .. (TotalSize[d] - 1)
  BY <1>2, <1>3 DEF StagingTypeOK, BytesInv
<1> HIDE DEF chunk, t, open
<1>5. chunk.sourceOffset + chunk.sourceSize <= TotalSize[c]
      /\ (chunk.sourceSize = 0 => TotalSize[c] = 0)
  BY <1>2 DEF Sized
<1>6. CASE Whole(chunk)
  <2>1. chunk.sourceOffset = 0 /\ chunk.sourceSize = TotalSize[c]
    BY <1>6 DEF Whole
  <2>2. Completes(chunk)
    BY <1>2, <2>1 DEF Completes
  <2>3. open = NoContent
    BY <1>2, <1>6, <2>1 DEF open
  <2>4. temporary' = temporary /\ lost' = lost /\ Persist(chunk, open)
    BY <1>1, <1>6
  <2> QED  BY <1>1, <1>4, <1>6, <2>2, <2>3, <2>4, PersistSound DEF chunk, t
<1>7. ASSUME ~Whole(chunk)
      PROVE  /\ temporary' \in [Contents -> Image]
             /\ \A d \in Contents : temporary'[d].bytes \subseteq 0 .. (TotalSize[d] - 1)
             /\ lost \subseteq lost' /\ lost' \subseteq lost \cup {c}
             /\ \/ c \in lost'
                \/ /\ temporary'[c].content = c
                   /\ 0 .. (chunk.sourceOffset + chunk.sourceSize - 1)
                        \subseteq temporary'[c].bytes
                   /\ temporary'[c] = [content |-> c, bytes |-> temporary'[c].bytes]
  <2> DEFINE whole == Written(temporary[c], c, Bytes(chunk))
             none == Written(temporary[c], c, {})
  <2>1. \/ temporary' = [temporary EXCEPT ![c] = whole] /\ lost' = lost
        \/ temporary' = [temporary EXCEPT ![c] = none] /\ lost' = lost \cup {c}
        \/ temporary' = temporary /\ lost' = lost \cup {c}
    BY <1>1, <1>7 DEF StageChunk, Losing
  <2>2. Bytes(chunk) \subseteq 0 .. (TotalSize[c] - 1)
    BY <1>2, <1>5, ChunkBytes
  <2>3. temporary[c].bytes \subseteq 0 .. (TotalSize[c] - 1)
    BY <1>2, <1>4
  <2>4. /\ whole \in Image /\ whole.content = c
        /\ whole.bytes = temporary[c].bytes \cup Bytes(chunk)
        /\ whole.bytes \subseteq 0 .. (TotalSize[c] - 1)
        /\ none \in Image /\ none.bytes \subseteq 0 .. (TotalSize[c] - 1)
    <3> DEFINE n == TotalSize[c]
               file == temporary[c]
    <3>1. /\ c \in Contents /\ n \in Nat /\ file \in Image /\ file.bytes \subseteq 0 .. (n - 1)
          /\ Bytes(chunk) \subseteq 0 .. (n - 1) /\ {} \subseteq 0 .. (n - 1)
      BY <1>2, <1>4, <2>2, <2>3
    <3> HIDE DEF c, n, file
    <3>2. /\ Written(file, c, Bytes(chunk)) \in Image
          /\ Written(file, c, Bytes(chunk)).content = c
          /\ Written(file, c, Bytes(chunk)).bytes = file.bytes \cup Bytes(chunk)
          /\ Written(file, c, Bytes(chunk)).bytes \subseteq 0 .. (n - 1)
      BY <3>1, WrittenImage
    <3>3. Written(file, c, {}) \in Image /\ Written(file, c, {}).bytes \subseteq 0 .. (n - 1)
      BY <3>1, WrittenImage
    <3> QED  BY <3>2, <3>3 DEF n, file
  <2>5. whole = [content |-> c, bytes |-> whole.bytes]
    BY DEF Written
  <2>6. c \in lost \/ 0 .. (chunk.sourceOffset + chunk.sourceSize - 1) \subseteq whole.bytes
    <3> HIDE DEF whole
    <3>1. CASE chunk.sourceOffset = 0
      BY <1>2, <1>5, <2>4, <3>1, ChunkBytes
    <3>2. CASE chunk.sourceOffset # 0
      BY <1>2, <1>5, <2>4, <3>2, ChunkBytes
    <3> QED  BY <3>1, <3>2
  <2> HIDE DEF c, whole, none
  <2>7. CASE temporary' = [temporary EXCEPT ![c] = whole] /\ lost' = lost
    <3>1. temporary'[c] = whole /\ \A d \in Contents : d # c => temporary'[d] = temporary[d]
      BY <1>2, <1>4, <2>7
    <3>2. temporary' \in [Contents -> Image]
      BY <1>4, <2>4, <2>7
    <3>3. \A d \in Contents : temporary'[d].bytes \subseteq 0 .. (TotalSize[d] - 1)
      BY <1>4, <2>4, <3>1
    <3> QED  BY <2>4, <2>5, <2>6, <2>7, <3>1, <3>2, <3>3
  <2>8. CASE temporary' = [temporary EXCEPT ![c] = none] /\ lost' = lost \cup {c}
    <3>1. temporary'[c] = none /\ \A d \in Contents : d # c => temporary'[d] = temporary[d]
      BY <1>2, <1>4, <2>8
    <3>2. temporary' \in [Contents -> Image]
      BY <1>4, <2>4, <2>8
    <3>3. \A d \in Contents : temporary'[d].bytes \subseteq 0 .. (TotalSize[d] - 1)
      BY <1>4, <2>4, <3>1
    <3> QED  BY <2>8, <3>2, <3>3
  <2>9. CASE temporary' = temporary /\ lost' = lost \cup {c}
    BY <1>4, <2>9
  <2> QED  BY <2>1, <2>7, <2>8, <2>9
<1>8. CASE ~Whole(chunk) /\ Completes(chunk)
  <2>1. open = c /\ open # NoContent
    BY <1>2, <1>8, Constants DEF open
  <2>2. Persist(chunk, open)
    BY <1>1, <1>8
  <2>3. c \notin lost' => temporary'[c] = AllOf(c)
    <3> SUFFICES ASSUME c \notin lost'
                 PROVE  temporary'[c] = AllOf(c)
      OBVIOUS
    <3>1. chunk.sourceOffset + chunk.sourceSize = TotalSize[c]
      BY <1>8, Zenon DEF Completes
    <3>2. temporary'[c].bytes = 0 .. (TotalSize[c] - 1)
      <4>1. 0 .. (chunk.sourceOffset + chunk.sourceSize - 1) = 0 .. (TotalSize[c] - 1)
        <5>1. /\ chunk.sourceOffset \in Nat /\ chunk.sourceSize \in Nat
              /\ TotalSize[c] \in Nat
          BY <1>2
        <5> HIDE DEF c
        <5> QED  BY <3>1, <5>1
      <4>2. /\ temporary'[c].bytes \subseteq 0 .. (TotalSize[c] - 1)
            /\ 0 .. (chunk.sourceOffset + chunk.sourceSize - 1) \subseteq temporary'[c].bytes
        BY <1>2, <1>7, <1>8
      <4> HIDE DEF c
      <4> QED  BY <4>1, <4>2
    <3> QED  BY <1>7, <1>8, <3>2 DEF AllOf
  <2> QED  BY <1>1, <1>7, <1>8, <2>1, <2>2, <2>3, PersistSound DEF chunk, t
<1>9. CASE ~Whole(chunk) /\ ~Completes(chunk)
  <2>1. /\ stagingFile' = c /\ UNCHANGED <<db, staged, targets, pc>>
    BY <1>1, <1>9 DEF open
  <2>2. stored' = stored /\ kind' = kind /\ disk' = disk /\ saved' = saved
        /\ ending' = ending /\ cuts' = cuts
    BY <1>1 DEF planVars, historyVars
  <2>3. Repeated' = Repeated
    BY <2>2, RepeatedStable
  <2>4. t # <<>> /\ t[1].content = c
        /\ t[1].sourceOffset = chunk.sourceOffset + chunk.sourceSize
    BY <1>2, <1>9 DEF Continues
  <2>5. t[1].sourceOffset # 0
    <3>1. chunk.sourceOffset + chunk.sourceSize # TotalSize[c]
      BY <1>9, Zenon DEF Completes
    <3>2. chunk.sourceOffset \in Nat /\ chunk.sourceSize \in Nat
      BY <1>2
    <3>3. chunk.sourceSize = 0 => TotalSize[c] = 0
      BY <1>5
    <3>4. chunk.sourceOffset + chunk.sourceSize <= TotalSize[c] /\ TotalSize[c] \in Nat
      BY <1>2, <1>5
    <3>5. t[1].sourceOffset = chunk.sourceOffset + chunk.sourceSize
      BY <2>4
    <3> HIDE DEF c
    <3> QED  BY <3>1, <3>2, <3>3, <3>4, <3>5
  <2>6. c \notin lost' => 0 .. (t[1].sourceOffset - 1) \subseteq temporary'[c].bytes
    <3> SUFFICES ASSUME c \notin lost'
                 PROVE  0 .. (t[1].sourceOffset - 1) \subseteq temporary'[c].bytes
      OBVIOUS
    <3>1. 0 .. (chunk.sourceOffset + chunk.sourceSize - 1) \subseteq temporary'[c].bytes
      BY <1>7, <1>9
    <3>2. t[1].sourceOffset = chunk.sourceOffset + chunk.sourceSize
      BY <2>4
    <3>3. chunk.sourceOffset \in Nat /\ chunk.sourceSize \in Nat
      BY <1>2
    <3>4. 0 .. (t[1].sourceOffset - 1) = 0 .. (chunk.sourceOffset + chunk.sourceSize - 1)
      BY <3>2, <3>3
    <3> HIDE DEF c
    <3> QED  BY <3>1, <3>4
  <2>7. stagingFile \in {c, NoContent} /\ c # NoContent
    BY <1>2, Constants
  <2>8. kind = "deployed" => \A i \in DOMAIN t : Whole(t[i])
    BY <1>1, <1>2 DEF TransferInv, ArrivingInv
  <2>9. \A i \in DOMAIN t :
          t[i].sourceOffset = 0 /\ t[i].content \in db.contents \cup {c}
            => t[i].content \in Repeated
    BY <1>2
  <2>10. \A d \in Wanted \ (db.contents \cup {c}) : BeginsIn(t, d)
    BY <1>2, <2>7, Constants
  <2>11. ArrivingInv'
    BY <1>1, <1>2, <1>7, <1>9, <2>1, <2>2, <2>3, <2>4, <2>5, <2>6, <2>7, <2>8, <2>9, <2>10
    DEF ArrivingInv
  <2>12. StagingTypeOK'
    BY <1>1, <1>2, <1>3, <1>7, <1>9, <2>1, <2>2 DEF StagingTypeOK
  <2>13. BytesInv'
    BY <1>3, <1>7, <1>9, <2>2 DEF BytesInv
  <2>14. ComingInv' /\ LoopInv'
    BY <1>1, <2>1 DEF ComingInv, LoopInv
  <2>15. RowsInv'
    BY <1>1, <1>3, <1>7, <1>9, <2>1, <2>2 DEF RowsInv, Rows
  <2>16. CutsInv'
    BY <1>3, <2>1, <2>2 DEF CutsInv, CutsExplained, InTwoPackages, Holds
  <2>17. HealInv'
    BY <1>1, <1>3, <2>1, <2>2 DEF HealInv
  <2> QED  BY <2>11, <2>12, <2>13, <2>14, <2>15, <2>16, <2>17 DEF TransferInv
<1> QED  BY <1>6, <1>8, <1>9

-----------------------------------------------------------------------------
(* The start, and every step                                              *)

LEMMA InitSound ==
  ASSUME Init
  PROVE  TransferInv
<1>1. /\ db = Empty /\ saved = Empty /\ pc = "idle" /\ cuts = {} /\ ending = "none"
      /\ disk = [p \in Paths |-> Absent] /\ temporary = [c \in Contents |-> Absent]
      /\ stagingFile = NoContent /\ arriving = <<>> /\ current = NoChunk
      /\ staged = FALSE /\ targets = <<>> /\ lost = {} /\ kind \in {"packed", "deployed"}
  BY DEF Init
<1>2. db.contents = {} /\ db.files = [p \in {} |-> NoContent] /\ DOMAIN db.files = {}
  BY <1>1 DEF Empty
<1>3. saved = db
  BY <1>1
<1>4. Absent \in Image /\ Absent.bytes = {} /\ Absent.content = NoContent
  BY DEF Absent, Image
<1>5. StagingTypeOK
  <2>1. stored \in Layouts
    BY DEF Init, PlanInit
  <2>2. db \in Database
    <3>1. db.files \in [{} -> Contents]
      BY <1>2
    <3>2. db.files \in UNION {[D -> Contents] : D \in SUBSET Paths}
      BY <3>1
    <3>3. db = [contents |-> {}, files |-> db.files]
      BY <1>1 DEF Empty
    <3> QED  BY <3>2, <3>3 DEF Database
  <2>3. disk \in [Paths -> Image] /\ temporary \in [Contents -> Image]
    BY <1>1, <1>4
  <2>4. <<>> \in Seq(Chunk)
    OBVIOUS
  <2>5. <<>> \in Seq(Paths)
    OBVIOUS
  <2> QED  BY <1>1, <1>3, <2>1, <2>2, <2>3, <2>4, <2>5 DEF StagingTypeOK
<1>6. ComingInv /\ ArrivingInv /\ LoopInv
  BY <1>1 DEF ComingInv, ArrivingInv, LoopInv
<1>7. BytesInv
  <2>1. \A p \in Paths : disk[p].bytes = {}
    BY <1>1, <1>4
  <2>2. \A c \in Contents : temporary[c].bytes = {}
    BY <1>1, <1>4
  <2>3. \A c \in Contents : \A i \in DOMAIN Targets[c] : Targets[c][i] \in Paths
    BY Constants
  <2> QED  BY <2>1, <2>2, <2>3 DEF BytesInv
<1>8. RowsInv
  BY <1>1, <1>2, <1>3 DEF RowsInv, Rows
<1>9. CutsInv
  BY <1>1, <1>4 DEF CutsInv, CutsExplained
<1>10. HealInv
  BY <1>1, <1>2, <1>3 DEF HealInv, Full
<1> QED  BY <1>5, <1>6, <1>7, <1>8, <1>9, <1>10 DEF TransferInv

(* The invariant is about the variables of the module.                     *)
LEMMA SameSound ==
  ASSUME TransferInv, UNCHANGED vars
  PROVE  TransferInv'
<1>1. /\ stored' = stored /\ toVisit' = toVisit /\ requested' = requested
      /\ readRequests' = readRequests /\ index' = index /\ batch' = batch
      /\ batchReadRequests' = batchReadRequests
  BY DEF vars, planVars, loopVars
<1>2. /\ kind' = kind /\ db' = db /\ saved' = saved /\ disk' = disk
      /\ temporary' = temporary /\ stagingFile' = stagingFile /\ pc' = pc
      /\ arriving' = arriving /\ current' = current /\ staged' = staged
      /\ targets' = targets /\ ending' = ending /\ cuts' = cuts /\ lost' = lost
  BY DEF vars, fileVars, dbVars, callVars, historyVars
<1>3. Repeated' = Repeated
  BY <1>1, <1>2, RepeatedStable
<1>4. Coming' = Coming
  BY <1>1 DEF Coming, Requests, Rest
<1>5. StagingTypeOK' /\ BytesInv' /\ HealInv' /\ CutsInv'
  BY <1>1, <1>2
  DEF TransferInv, StagingTypeOK, BytesInv, HealInv, CutsInv, CutsExplained,
      InTwoPackages, Holds
<1>6. RowsInv'
  BY <1>2 DEF TransferInv, RowsInv, Rows
<1>7. LoopInv'
  BY <1>2 DEF TransferInv, LoopInv, Done, First
<1>8. ArrivingInv'
  BY <1>2, <1>3 DEF TransferInv, ArrivingInv
<1>9. ComingInv'
  BY <1>1, <1>2, <1>3, <1>4 DEF TransferInv, ComingInv, Holds
<1> QED  BY <1>5, <1>6, <1>7, <1>8, <1>9 DEF TransferInv

(* Every step keeps the invariant.                                         *)
LEMMA TransferStep ==
  ASSUME PlanInv, PlanInv', TransferInv, [Next]_vars
  PROVE  TransferInv'
<1>1. CASE Configure
  BY <1>1, ConfigureSound
<1>2. CASE Plan
  BY <1>2, PlanSound
<1>3. CASE StartThreads
  BY <1>3, StartThreadsSound
<1>4. CASE Receive
  BY <1>4, ReceiveSound
<1>5. CASE ReceiveTwice
  BY <1>5, ReceiveTwiceSound
<1>6. CASE WriteTarget
  BY <1>6, WriteTargetSound
<1>7. CASE CopyBlocked
  BY <1>7, CopyBlockedSound
<1>8. CASE CallbackReturns
  BY <1>8, CallbackReturnsSound
<1>9. CASE TransferEnds
  BY <1>9, TransferEndsSound
<1>10. CASE PlanFails
  BY <1>10, PlanFailsSound
<1>11. CASE TransferFails
  BY <1>11, TransferFailsSound
<1>12. CASE Crash
  BY <1>12, CrashSound
<1>13. CASE Finished \/ UNCHANGED vars
  BY <1>13, SameSound DEF Finished
<1> QED
  BY <1>1, <1>2, <1>3, <1>4, <1>5, <1>6, <1>7, <1>8, <1>9, <1>10, <1>11, <1>12, <1>13
  DEF Next, Work

-----------------------------------------------------------------------------
(* Theorems                                                                *)

(* The transfer keeps its invariant, through failures, crashes and second  *)
(* attempts (PackedRepositoryBase.cpp:690-875 and                          *)
(* DeployedRepository.cpp:611-840).                                        *)
THEOREM TransferCorrect == Spec => []TransferInv
<1>1. Init => TransferInv
  BY InitSound
<1>2. PlanInv /\ PlanInv' /\ TransferInv /\ [Next]_vars => TransferInv'
  BY TransferStep
<1> QED
  BY <1>1, <1>2, StagingPlans, PlanCorrect, PTL DEF Spec

(* A file in the database is on disk with every byte of its content,       *)
(* whatever pieces it came in and whatever was cut short before            *)
(* (DeployedRepository.cpp:695-809), unless a write of this content got    *)
(* lost (FileIO.cpp:80,141): from RowsInv.                                 *)
THEOREM FilesWhole == Spec => []RecordedFilesWhole
<1>1. TransferInv => RecordedFilesWhole
  BY DEF TransferInv, RowsInv, Rows, RecordedFilesWhole
<1> QED
  BY <1>1, TransferCorrect, PTL

(* One staging file is enough, and what is renamed is complete, unless a   *)
(* write to it got lost                                                    *)
(* (DeployedRepository.cpp:715-716, :759): from ArrivingInv and LoopInv.   *)
THEOREM StagingSound == Spec => []StagedAlone
<1>1. ASSUME TransferInv
      PROVE  StagedAlone
  <2>1. ASSUME pc = "transfer", arriving # <<>>
        PROVE  ~Stray(Head(arriving))
    <3>1. IF Head(arriving).sourceOffset = 0 THEN stagingFile = NoContent
          ELSE stagingFile = Head(arriving).content
      BY <1>1, <2>1, HeadFacts
    <3> QED  BY <3>1 DEF Stray
  <2>2. ASSUME pc = "targets"
        PROVE  /\ staged <=> ~Whole(current)
               /\ staged /\ First /\ current.content \notin lost
                    => temporary[current.content] = AllOf(current.content)
    BY <1>1, <2>2 DEF TransferInv, LoopInv
  <2> QED  BY <2>1, <2>2 DEF StagedAlone
<1> QED
  BY <1>1, TransferCorrect, PTL

(* Only a content in two packages is delivered twice, and only an attempt  *)
(* that was cut short leaves a file in the way of a copy                   *)
(* (PackedRepositoryBase.cpp:763, DeployedRepository.cpp:785).             *)
THEOREM CutsCorrect == Spec => []CutsExplained
<1>1. TransferInv => CutsExplained
  BY DEF TransferInv, CutsInv
<1> QED
  BY <1>1, TransferCorrect, PTL

(* A phase that ends by itself has put every wanted file in the database,  *)
(* also after crashes (DeployedRepository.cpp:733-749, :828): from HealInv. *)
THEOREM HealCorrect == Spec => []CrashesHeal
<1>1. ASSUME TransferInv
      PROVE  CrashesHeal
  <2> SUFFICES ASSUME pc = "idle", ending = "ok",
                      kind = "packed" => cuts \cap {"failure", "blocked"} = {}
               PROVE  \A c \in Wanted : \A i \in DOMAIN Targets[c] :
                        Targets[c][i] \in DOMAIN saved.files
    BY DEF CrashesHeal
  <2>1. Full(saved, saved.contents) /\ Wanted \subseteq saved.contents
    BY <1>1 DEF TransferInv, HealInv
  <2> QED  BY <2>1 DEF Full
<1> QED
  BY <1>1, TransferCorrect, PTL
=============================================================================
