--------------------------- MODULE BatchingProofs ---------------------------
(***************************************************************************)
(* Proofs about Batching, for any packages, layouts and limits: the bytes  *)
(* that one read returns hold every chunk the read thread slices out of    *)
(* them, and a read is as small as the limits say.                         *)
(***************************************************************************)
EXTENDS Batching, FiniteSetTheorems, TLAPS

Bounded(b) ==
  \/ b.readSize <= MaxSize + MaxSlack
  \/ Len(b.requests) = 1 /\ b.readSize = b.requests[1].packageSize

CoversAll(b) == \A k \in DOMAIN b.requests : Covers(b, b.requests[k])

ClosedBatches == {batchReadRequests[k] : k \in DOMAIN batchReadRequests}

(* An open batch ends where its last request ends, and what it reads is    *)
(* what the limits have lost.                                              *)
BatchOpen ==
  batch # NoBatch =>
    /\ index - 1 \in DOMAIN readRequests
    /\ batch.packageOffset + batch.readSize
         = readRequests[index - 1].packageOffset + readRequests[index - 1].packageSize
    /\ batch.readSize = (MaxSlack - remainingSlack) + (MaxSize - remainingSize)
    /\ 0 <= remainingSlack
    /\ \/ 0 <= remainingSize
       \/ Len(batch.requests) = 1 /\ batch.readSize = batch.requests[1].packageSize

PlanInv ==
  /\ PlanTypeOK
  /\ \A p \in Packages : InPackageOrder(stored[p])
  /\ InPackageOrder(readRequests)
  /\ index <= Len(readRequests) + 1
  /\ BatchOpen
  /\ CoversAll(batch)
  /\ \A b \in ClosedBatches : CoversAll(b) /\ Bounded(b)

-----------------------------------------------------------------------------
LEMMA NoBatchSound ==
  /\ NoBatch \in Batch /\ CoversAll(NoBatch) /\ Bounded(NoBatch)
<1>1. <<>> \in Seq(Chunk) /\ DOMAIN <<>> = {}
  OBVIOUS
<1>2. NoBatch \in Batch
  BY <1>1 DEF NoBatch, Batch
<1>3. CoversAll(NoBatch)
  BY <1>1 DEF NoBatch, CoversAll
<1>4. Bounded(NoBatch)
  BY BatchingAssumption DEF NoBatch, Bounded
<1> QED
  BY <1>2, <1>3, <1>4

(* The query lists chunks of the package, as many as it holds.             *)
LEMMA ListingSound ==
  ASSUME PlanTypeOK, NEW p \in Packages, InPackageOrder(stored[p]),
         NEW order \in InOrder(p),
         NEW requests, requests = [i \in DOMAIN order |-> stored[p][order[i]]]
  PROVE  requests \in Seq(Chunk) /\ InPackageOrder(requests)
<1> DEFINE n == Cardinality(Holds(p, requested))
<1>1. stored[p] \in Seq(Chunk)
  BY DEF PlanTypeOK
<1>2. DOMAIN stored[p] = 1..Len(stored[p]) /\ Len(stored[p]) \in Nat
  BY <1>1
<1>3. Holds(p, requested) \subseteq DOMAIN stored[p]
  BY DEF Holds
<1>4. n \in Nat
  <2>1. IsFiniteSet(DOMAIN stored[p])
    BY <1>2, FS_Interval
  <2> QED
    BY <2>1, <1>3, FS_Subset, FS_CardinalityType
<1>5. /\ order \in [1..n -> Holds(p, requested)]
      /\ \A i, j \in DOMAIN order : i < j => order[i] < order[j]
  BY DEF InOrder
<1> HIDE DEF n
<1>6. \A i \in 1..n : stored[p][order[i]] \in Chunk
  BY <1>1, <1>2, <1>3, <1>5
<1>7. requests \in [1..n -> Chunk]
  BY <1>5, <1>6
<1>8. requests \in Seq(Chunk)
  BY <1>4, <1>7
<1>9. InPackageOrder(requests)
  <2> SUFFICES ASSUME NEW i \in 1..n, NEW j \in 1..n, i < j
               PROVE requests[i].packageOffset + requests[i].packageSize
                       <= requests[j].packageOffset
    BY <1>7 DEF InPackageOrder
  <2>1. order[i] \in DOMAIN stored[p] /\ order[j] \in DOMAIN stored[p] /\ order[i] < order[j]
    BY <1>3, <1>5
  <2>2. requests[i] = stored[p][order[i]] /\ requests[j] = stored[p][order[j]]
    BY <1>5
  <2> QED
    BY <2>1, <2>2 DEF InPackageOrder
<1> QED
  BY <1>8, <1>9

(* The next request lies behind the open batch.                            *)
LEMMA NextRequest ==
  ASSUME PlanInv, ~Exhausted
  PROVE  /\ index \in DOMAIN readRequests
         /\ readRequests[index] \in Chunk
         /\ batch # NoBatch => Slack \in Nat
<1>1. readRequests \in Seq(Chunk) /\ index \in Nat \ {0} /\ batch \in Batch
  BY DEF PlanInv, PlanTypeOK
<1>2. index \in DOMAIN readRequests /\ readRequests[index] \in Chunk
  BY <1>1 DEF Exhausted
<1>3. ASSUME batch # NoBatch
      PROVE  Slack \in Nat
  <2>1. /\ index - 1 \in DOMAIN readRequests
        /\ batch.packageOffset + batch.readSize
             = readRequests[index - 1].packageOffset + readRequests[index - 1].packageSize
    BY <1>3 DEF PlanInv, BatchOpen
  <2>2. readRequests[index - 1].packageOffset + readRequests[index - 1].packageSize
          <= readRequests[index].packageOffset
    BY <1>1, <1>2, <2>1 DEF PlanInv, InPackageOrder
  <2>3. batch.packageOffset \in Nat /\ batch.readSize \in Nat
        /\ readRequests[index].packageOffset \in Nat
    BY <1>1, <1>2 DEF Batch, Chunk
  <2> QED
    BY <2>1, <2>2, <2>3 DEF Slack
<1> QED
  BY <1>2, <1>3

-----------------------------------------------------------------------------
LEMMA InitInv == PlanInit => PlanInv
<1> SUFFICES ASSUME PlanInit PROVE PlanInv
  OBVIOUS
<1>1. <<>> \in Seq(Chunk) /\ <<>> \in Seq(Batch) /\ DOMAIN <<>> = {} /\ Len(<<>>) = 0
  OBVIOUS
<1>2. PlanTypeOK
  BY <1>1, NoBatchSound, BatchingAssumption DEF PlanInit, PlanTypeOK, NoPackage
<1>3. \A p \in Packages : InPackageOrder(stored[p])
  BY BatchingAssumption DEF PlanInit
<1>4. InPackageOrder(readRequests) /\ index <= Len(readRequests) + 1
  BY <1>1 DEF PlanInit, InPackageOrder
<1>5. BatchOpen /\ CoversAll(batch)
  BY NoBatchSound DEF PlanInit, BatchOpen
<1>6. ClosedBatches = {}
  BY <1>1 DEF PlanInit, ClosedBatches
<1> QED
  BY <1>2, <1>3, <1>4, <1>5, <1>6 DEF PlanInv

LEMMA PrepareInv ==
  ASSUME PlanInv, NEW contents \in SUBSET Contents, Prepare(contents)
  PROVE  PlanInv'
<1>1. <<>> \in Seq(Chunk) /\ <<>> \in Seq(Batch) /\ DOMAIN <<>> = {} /\ Len(<<>>) = 0
  OBVIOUS
<1>2. PlanTypeOK'
  BY <1>1, NoBatchSound DEF Prepare, PlanInv, PlanTypeOK, NoPackage
<1>3. \A p \in Packages : InPackageOrder(stored'[p])
  BY DEF Prepare, PlanInv
<1>4. InPackageOrder(readRequests') /\ index' <= Len(readRequests') + 1
  BY <1>1 DEF Prepare, InPackageOrder
<1>5. BatchOpen' /\ CoversAll(batch')
  BY NoBatchSound DEF Prepare, BatchOpen
<1>6. ClosedBatches' = {}
  BY <1>1 DEF Prepare, ClosedBatches
<1> QED
  BY <1>2, <1>3, <1>4, <1>5, <1>6 DEF PlanInv, InPackageOrder

LEMMA NextPackageInv ==
  ASSUME PlanInv, NextPackage
  PROVE  PlanInv'
<1>1. PICK p \in toVisit :
        /\ package' = p
        /\ toVisit' = toVisit \ {p}
        /\ \E order \in InOrder(p) :
             readRequests' = [i \in DOMAIN order |-> stored[p][order[i]]]
  BY DEF NextPackage
<1>2. PICK order \in InOrder(p) :
        readRequests' = [i \in DOMAIN order |-> stored[p][order[i]]]
  BY <1>1
<1>3. PlanTypeOK /\ p \in Packages /\ InPackageOrder(stored[p])
  BY <1>1 DEF PlanInv, PlanTypeOK
<1>4. readRequests' \in Seq(Chunk) /\ InPackageOrder(readRequests')
  BY <1>2, <1>3, ListingSound
<1>5. batch = NoBatch /\ index' = 1
      /\ UNCHANGED <<stored, requested, batch, remainingSlack, remainingSize, batchReadRequests>>
  BY DEF NextPackage
<1>6. PlanTypeOK'
  BY <1>1, <1>3, <1>4, <1>5 DEF PlanTypeOK
<1>7. index' <= Len(readRequests') + 1
  BY <1>4, <1>5
<1>8. BatchOpen'
  BY <1>5 DEF BatchOpen
<1>9. ClosedBatches' = ClosedBatches /\ CoversAll(batch')
  BY <1>5 DEF ClosedBatches, PlanInv
<1> QED
  BY <1>4, <1>5, <1>6, <1>7, <1>8, <1>9 DEF PlanInv

LEMMA FirstOfBatchInv ==
  ASSUME PlanInv, FirstOfBatch
  PROVE  PlanInv'
<1> DEFINE r == readRequests[index]
<1>1. index \in DOMAIN readRequests /\ r \in Chunk
  BY NextRequest DEF FirstOfBatch
<1>2. /\ batch' = [package |-> package, requests |-> <<r>>,
                   packageOffset |-> r.packageOffset, readSize |-> r.packageSize]
      /\ remainingSlack' = MaxSlack
      /\ remainingSize' = MaxSize - r.packageSize
      /\ index' = index + 1
      /\ UNCHANGED <<stored, requested, toVisit, package, readRequests, batchReadRequests>>
  BY DEF FirstOfBatch
<1>3. PlanTypeOK
  BY DEF PlanInv
<1>4. r.packageOffset \in Nat /\ r.packageSize \in Nat
  BY <1>1 DEF Chunk
<1>5. readRequests \in Seq(Chunk) /\ index \in Nat \ {0} /\ package \in Packages \cup {NoPackage}
  BY <1>3 DEF PlanTypeOK
<1> HIDE DEF r
<1>6. <<r>> \in Seq(Chunk) /\ Len(<<r>>) = 1 /\ DOMAIN <<r>> = {1} /\ <<r>>[1] = r
  BY <1>1
<1>7. batch' \in Batch
  BY <1>2, <1>4, <1>5, <1>6 DEF Batch
<1>8. PlanTypeOK'
  BY <1>2, <1>3, <1>4, <1>5, <1>7, BatchingAssumption DEF PlanTypeOK
<1>9. index' <= Len(readRequests') + 1
  BY <1>1, <1>2, <1>5
<1>10. BatchOpen'
  BY <1>1, <1>2, <1>4, <1>5, <1>6, BatchingAssumption DEF BatchOpen, r
<1>11. CoversAll(batch')
  BY <1>2, <1>4, <1>6 DEF CoversAll, Covers
<1>12. ClosedBatches' = ClosedBatches
  BY <1>2 DEF ClosedBatches
<1> QED
  BY <1>2, <1>8, <1>9, <1>10, <1>11, <1>12 DEF PlanInv, InPackageOrder

LEMMA JoinInv ==
  ASSUME PlanInv, Join
  PROVE  PlanInv'
<1> DEFINE r == readRequests[index]
<1>1. ~Exhausted /\ batch # NoBatch /\ Slack <= remainingSlack /\ r.packageSize <= remainingSize
  BY DEF Join, Fits
<1>2. index \in DOMAIN readRequests /\ r \in Chunk /\ Slack \in Nat
  BY <1>1, NextRequest
<1>3. /\ batch' = [batch EXCEPT !.requests = Append(@, r), !.readSize = @ + (Slack + r.packageSize)]
      /\ remainingSlack' = remainingSlack - Slack
      /\ remainingSize' = remainingSize - r.packageSize
      /\ index' = index + 1
      /\ UNCHANGED <<stored, requested, toVisit, package, readRequests, batchReadRequests>>
  BY DEF Join, WithRequest
<1>4. PlanTypeOK /\ BatchOpen /\ CoversAll(batch)
  BY DEF PlanInv
<1>5. r.packageOffset \in Nat /\ r.packageSize \in Nat
  BY <1>2 DEF Chunk
<1>6. /\ batch.package \in Packages \cup {NoPackage} /\ batch.requests \in Seq(Chunk)
      /\ batch.packageOffset \in Nat /\ batch.readSize \in Nat
      /\ batch = [package |-> batch.package, requests |-> batch.requests,
                  packageOffset |-> batch.packageOffset, readSize |-> batch.readSize]
  BY <1>4 DEF PlanTypeOK, Batch
<1>7. readRequests \in Seq(Chunk) /\ index \in Nat \ {0}
      /\ remainingSlack \in Int /\ remainingSize \in Int
  BY <1>4 DEF PlanTypeOK
<1>8. Slack = r.packageOffset - (batch.packageOffset + batch.readSize)
  BY DEF Slack
<1> HIDE DEF r
<1>9. batch' = [package |-> batch.package, requests |-> Append(batch.requests, r),
                packageOffset |-> batch.packageOffset,
                readSize |-> batch.readSize + (Slack + r.packageSize)]
  BY <1>3, <1>6
<1>17. batch'.requests = Append(batch.requests, r) /\ batch'.packageOffset = batch.packageOffset
  BY <1>9
<1>18. /\ batch.packageOffset + batch.readSize <= r.packageOffset
       /\ batch'.readSize \in Nat /\ batch.readSize <= batch'.readSize
       /\ batch.packageOffset + batch'.readSize = r.packageOffset + r.packageSize
  <2>1. batch'.readSize = batch.readSize + (Slack + r.packageSize)
    BY <1>9
  <2>2. batch.packageOffset \in Nat /\ batch.readSize \in Nat
    BY <1>6
  <2> HIDE DEF Slack
  <2> QED
    BY <1>2, <1>5, <1>8, <2>1, <2>2
<1>10. /\ Append(batch.requests, r) \in Seq(Chunk)
       /\ DOMAIN Append(batch.requests, r) = 1..(Len(batch.requests) + 1)
       /\ \A k \in DOMAIN batch.requests : Append(batch.requests, r)[k] = batch.requests[k]
       /\ Append(batch.requests, r)[Len(batch.requests) + 1] = r
       /\ DOMAIN batch.requests = 1..Len(batch.requests) /\ Len(batch.requests) \in Nat
  BY <1>2, <1>6
<1>11. batch' \in Batch
  BY <1>2, <1>5, <1>6, <1>9, <1>10 DEF Batch
<1>12. PlanTypeOK'
  <2>1. remainingSlack' \in Int /\ remainingSize' \in Int /\ index' \in Nat \ {0}
    <3> HIDE DEF Slack
    <3> QED
      BY <1>2, <1>3, <1>5, <1>7
  <2> QED
    BY <1>3, <1>4, <1>11, <2>1 DEF PlanTypeOK
<1>13. index' <= Len(readRequests') + 1
  BY <1>2, <1>3, <1>7
<1>14. BatchOpen'
  <2>1. /\ batch.readSize = (MaxSlack - remainingSlack) + (MaxSize - remainingSize)
        /\ 0 <= remainingSlack
    BY <1>1, <1>4 DEF BatchOpen
  <2>2. 0 <= remainingSize' /\ 0 <= remainingSlack'
    BY <1>1, <1>2, <1>3, <1>5, <1>7, <2>1 DEF r
  <2>3. batch'.readSize = (MaxSlack - remainingSlack') + (MaxSize - remainingSize')
    <3>1. /\ batch'.readSize = batch.readSize + (Slack + r.packageSize)
          /\ remainingSlack' = remainingSlack - Slack
          /\ remainingSize' = remainingSize - r.packageSize
      BY <1>3, <1>9
    <3>2. MaxSlack \in Nat /\ MaxSize \in Nat
      BY BatchingAssumption
    <3>3. Slack \in Int /\ r.packageSize \in Int /\ remainingSlack \in Int /\ remainingSize \in Int
      BY <1>2, <1>5, <1>7
    <3> HIDE DEF Slack
    <3> QED
      BY <2>1, <3>1, <3>2, <3>3
  <2>4. batch'.packageOffset + batch'.readSize = r.packageOffset + r.packageSize
    BY <1>17, <1>18
  <2>5. index' - 1 = index /\ readRequests' = readRequests
    BY <1>3, <1>7
  <2> QED
    BY <1>2, <2>2, <2>3, <2>4, <2>5 DEF BatchOpen, r
<1>15. CoversAll(batch')
  <2> SUFFICES ASSUME NEW k \in DOMAIN batch'.requests
               PROVE  Covers(batch', batch'.requests[k])
    BY DEF CoversAll
  <2>1. CASE k \in DOMAIN batch.requests
    <3>1. batch'.requests[k] = batch.requests[k] /\ batch.requests[k] \in Chunk
      BY <1>6, <1>10, <1>17, <2>1
    <3>2. Covers(batch, batch.requests[k])
      BY <1>4, <2>1 DEF CoversAll
    <3>3. batch.requests[k].packageOffset \in Nat /\ batch.requests[k].packageSize \in Nat
      BY <3>1 DEF Chunk
    <3> QED
      <4>1. batch.packageOffset \in Nat /\ batch.readSize \in Nat
        BY <1>6
      <4> QED
        <5>1. /\ batch.packageOffset <= batch.requests[k].packageOffset
              /\ batch.requests[k].packageOffset + batch.requests[k].packageSize
                   <= batch.packageOffset + batch.readSize
          BY <3>2 DEF Covers
        <5>2. batch.requests[k].packageOffset + batch.requests[k].packageSize
                <= batch.packageOffset + batch'.readSize
          BY <1>18, <3>3, <4>1, <5>1
        <5> QED
          BY <1>17, <3>1, <5>1, <5>2 DEF Covers
  <2>2. CASE k \notin DOMAIN batch.requests
    <3>1. batch'.requests[k] = r
      BY <1>10, <1>17, <2>2
    <3> QED
      <4>1. batch.packageOffset \in Nat /\ batch.readSize \in Nat
        BY <1>6
      <4> QED
        BY <1>5, <1>17, <1>18, <3>1, <4>1 DEF Covers
  <2> QED
    BY <2>1, <2>2
<1>16. ClosedBatches' = ClosedBatches
  BY <1>3 DEF ClosedBatches
<1> QED
  BY <1>3, <1>12, <1>13, <1>14, <1>15, <1>16 DEF PlanInv, InPackageOrder

LEMMA OpenBounded ==
  ASSUME PlanInv
  PROVE  Bounded(batch)
<1>1. CASE batch = NoBatch
  BY <1>1, NoBatchSound
<1>2. CASE batch # NoBatch
  <2>1. remainingSlack \in Int /\ remainingSize \in Int /\ MaxSize \in Nat /\ MaxSlack \in Nat
    BY BatchingAssumption DEF PlanInv, PlanTypeOK
  <2>2. /\ batch.readSize = (MaxSlack - remainingSlack) + (MaxSize - remainingSize)
        /\ 0 <= remainingSlack
        /\ \/ 0 <= remainingSize
           \/ Len(batch.requests) = 1 /\ batch.readSize = batch.requests[1].packageSize
    BY <1>2 DEF PlanInv, BatchOpen
  <2>3. CASE 0 <= remainingSize
    <3>1. batch.readSize <= MaxSize + MaxSlack
      BY <2>1, <2>2, <2>3
    <3> QED
      BY <3>1 DEF Bounded
  <2> QED
    BY <2>2, <2>3 DEF Bounded
<1> QED
  BY <1>1, <1>2

LEMMA CloseBatchInv ==
  ASSUME PlanInv, CloseBatch
  PROVE  PlanInv'
<1>1. /\ batchReadRequests' = Append(batchReadRequests, batch)
      /\ batch' = NoBatch
      /\ UNCHANGED <<stored, requested, toVisit, package, readRequests, index,
                     remainingSlack, remainingSize>>
  BY DEF CloseBatch
<1>2. PlanTypeOK /\ batch \in Batch /\ batchReadRequests \in Seq(Batch)
  BY DEF PlanInv, PlanTypeOK
<1>3. batchReadRequests' \in Seq(Batch)
  <2>1. ASSUME NEW S, NEW s \in Seq(S), NEW e \in S
        PROVE  Append(s, e) \in Seq(S)
    OBVIOUS
  <2> QED
    BY <1>1, <1>2, <2>1
<1>4. ClosedBatches' = ClosedBatches \cup {batch}
  <2>1. /\ DOMAIN batchReadRequests' = DOMAIN batchReadRequests \cup {Len(batchReadRequests) + 1}
        /\ \A k \in DOMAIN batchReadRequests : batchReadRequests'[k] = batchReadRequests[k]
        /\ batchReadRequests'[Len(batchReadRequests) + 1] = batch
    <3>1. ASSUME NEW S, NEW s \in Seq(S), NEW e \in S
          PROVE  /\ DOMAIN Append(s, e) = DOMAIN s \cup {Len(s) + 1}
                 /\ \A k \in DOMAIN s : Append(s, e)[k] = s[k]
                 /\ Append(s, e)[Len(s) + 1] = e
      OBVIOUS
    <3> QED
      BY <1>1, <1>2, <3>1
  <2> QED
    BY <2>1 DEF ClosedBatches
<1>5. PlanTypeOK'
  BY <1>1, <1>2, <1>3, NoBatchSound DEF PlanTypeOK
<1>6. \A b \in ClosedBatches' : CoversAll(b) /\ Bounded(b)
  BY <1>4, OpenBounded DEF PlanInv
<1>7. BatchOpen' /\ CoversAll(batch')
  BY <1>1, NoBatchSound DEF BatchOpen
<1> QED
  BY <1>1, <1>5, <1>6, <1>7 DEF PlanInv, InPackageOrder

LEMMA NextInv ==
  ASSUME PlanInv, [PlanNext]_planVars
  PROVE  PlanInv'
<1>1. ASSUME NEW contents \in SUBSET Contents, Prepare(contents)
      PROVE  PlanInv'
  BY <1>1, PrepareInv
<1>2. CASE NextPackage
  BY <1>2, NextPackageInv
<1>3. CASE FirstOfBatch
  BY <1>3, FirstOfBatchInv
<1>4. CASE Join
  BY <1>4, JoinInv
<1>5. CASE CloseBatch
  BY <1>5, CloseBatchInv
<1>6. CASE UNCHANGED planVars
  BY <1>6 DEF planVars, loopVars, PlanInv, PlanTypeOK, InPackageOrder, BatchOpen,
              CoversAll, Covers, ClosedBatches, Bounded
<1> QED
  BY <1>1, <1>2, <1>3, <1>4, <1>5, <1>6 DEF PlanNext, PlanStep

(* The invariant that carries the proofs.                                  *)
THEOREM PlanCorrect == PlanSpec => []PlanInv
<1>1. PlanInit => PlanInv
  BY InitInv
<1>2. PlanInv /\ [PlanNext]_planVars => PlanInv'
  BY NextInv
<1> QED
  BY <1>1, <1>2, PTL DEF PlanSpec

(* Whatever the packages hold and whatever is asked of them, the read      *)
(* thread finds each chunk within the bytes of its batch                   *)
(* (PackedRepositoryBase.cpp:499-508).                                     *)
THEOREM SlicesCorrect == PlanSpec => []SlicesInRange
<1>1. PlanInv => SlicesInRange
  BY DEF PlanInv, SlicesInRange, Batches, ClosedBatches, CoversAll
<1> QED
  BY <1>1, PlanCorrect, PTL

(* For all limits: a batch reads no more than the two of them together,    *)
(* or it is a single request (PackedRepositoryBase.cpp:828-866).           *)
THEOREM ReadsCorrect == PlanSpec => []ReadsBounded
<1>1. PlanInv => ReadsBounded
  BY OpenBounded DEF PlanInv, ReadsBounded, Batches, ClosedBatches, Bounded
<1> QED
  BY <1>1, PlanCorrect, PTL
=============================================================================
