------------------------------ MODULE Batching ------------------------------
(***************************************************************************)
(* How PackedRepositoryBase::GetContentObjectsImpl plans its reads: for    *)
(* each package that holds a requested content, the chunks it needs are    *)
(* listed in package order, and neighbours are merged into batches that    *)
(* the read thread gets in one piece and slices again.  Chunks nobody      *)
(* asked for may be read along, as long as they are few bytes ("slack").   *)
(***************************************************************************)
EXTENDS Integers, Sequences, FiniteSets

CONSTANTS
  Packages, Contents,
  Layouts,                 \* what fs_chunks may say of the packages of a source
  MaxSize, MaxSlack        \* limits of a BatchReadRequest

Chunk == [content : Contents, packageOffset : Nat, packageSize : Nat,
          sourceOffset : Nat, sourceSize : Nat]

(* The chunks of a package in the order of the query: the builder appends  *)
(* one after the other, and of chunks with the same offset the empty ones, *)
(* which come first in the table, come first out of the sorter as well.    *)
InPackageOrder(chunks) ==
  \A i, j \in DOMAIN chunks : i < j =>
    chunks[i].packageOffset + chunks[i].packageSize <= chunks[j].packageOffset

ASSUME BatchingAssumption ==
  /\ IsFiniteSet(Contents)
  /\ \A layout \in Layouts :
       /\ layout \in [Packages -> Seq(Chunk)]
       /\ \A p \in Packages : InPackageOrder(layout[p])
  /\ MaxSize \in Nat /\ MaxSlack \in Nat

NoPackage == "none"
NoBatch == [package |-> NoPackage, requests |-> <<>>, packageOffset |-> 0, readSize |-> 0]

VARIABLES
  stored,                  \* fs_chunks, by package
  requested,               \* requested_fs_contents
  toVisit,                 \* packages findSourcePackagesQuery has yet to return
  package,                 \* the package of this iteration
  readRequests, index,     \* its chunks, and the next one to take up
  batch,                   \* batchReadRequest and its requests, or NoBatch
  remainingSlack, remainingSize,
  batchReadRequests

loopVars == <<package, readRequests, index, batch, remainingSlack, remainingSize>>
planVars == <<stored, requested, toVisit, loopVars, batchReadRequests>>

-----------------------------------------------------------------------------
Holds(p, contents) ==
  {i \in DOMAIN stored[p] : stored[p][i].content \in contents}

(* Mutant: the query has no ORDER BY.                                      *)
MutantAnyOrder(p) ==
  {order \in [1..Cardinality(Holds(p, requested)) -> Holds(p, requested)] :
     \A i, j \in DOMAIN order : i # j => order[i] # order[j]}

(* contentObjectsInPackageQuery: one order, that of the package.           *)
InOrder(p) ==
  {order \in [1..Cardinality(Holds(p, requested)) -> Holds(p, requested)] :
     \A i, j \in DOMAIN order : i < j => order[i] < order[j]}

(* The requested contents go into a temporary table, and the packages that *)
(* have chunks of them are selected.                                       *)
Prepare(contents) ==
  /\ requested' = contents
  /\ toVisit' = {p \in Packages : Holds(p, contents) # {}}
  /\ package' = NoPackage
  /\ readRequests' = <<>> /\ index' = 1
  /\ batch' = NoBatch /\ remainingSlack' = 0 /\ remainingSize' = 0
  /\ batchReadRequests' = <<>>
  /\ UNCHANGED stored

Exhausted == index > Len(readRequests)

NextPackage ==
  /\ Exhausted /\ batch = NoBatch
  /\ \E p \in toVisit :
       /\ package' = p
       /\ toVisit' = toVisit \ {p}
       /\ \E order \in InOrder(p) :
            readRequests' = [i \in DOMAIN order |-> stored[p][order[i]]]
  /\ index' = 1
  /\ UNCHANGED <<stored, requested, batch, remainingSlack, remainingSize,
                 batchReadRequests>>

FirstOfBatch ==
  LET r == readRequests[index] IN
  /\ batch = NoBatch /\ ~Exhausted
  /\ batch' = [package |-> package, requests |-> <<r>>,
               packageOffset |-> r.packageOffset, readSize |-> r.packageSize]
  /\ remainingSlack' = MaxSlack
  /\ remainingSize' = MaxSize - r.packageSize
  /\ index' = index + 1
  /\ UNCHANGED <<stored, requested, toVisit, package, readRequests, batchReadRequests>>

(* Bytes between the end of the read range and the next request.           *)
Slack == readRequests[index].packageOffset - (batch.packageOffset + batch.readSize)

(* Mutant: the size of a batch has no limit.                               *)
MutantFits == ~Exhausted /\ Slack <= remainingSlack

Fits ==
  /\ ~Exhausted
  /\ Slack <= remainingSlack
  /\ readRequests[index].packageSize <= remainingSize

(* Mutant: the range grows by the request, not by what lies before it.     *)
MutantWithRequest(r) ==
  [batch EXCEPT !.requests = Append(@, r), !.readSize = @ + r.packageSize]

WithRequest(r) ==
  [batch EXCEPT !.requests = Append(@, r), !.readSize = @ + (Slack + r.packageSize)]

Join ==
  LET r == readRequests[index] IN
  /\ batch # NoBatch /\ Fits
  /\ batch' = WithRequest(r)
  /\ remainingSlack' = remainingSlack - Slack
  /\ remainingSize' = remainingSize - r.packageSize
  /\ index' = index + 1
  /\ UNCHANGED <<stored, requested, toVisit, package, readRequests, batchReadRequests>>

CloseBatch ==
  /\ batch # NoBatch /\ ~Fits
  /\ batchReadRequests' = Append(batchReadRequests, batch)
  /\ batch' = NoBatch
  /\ UNCHANGED <<stored, requested, toVisit, package, readRequests, index,
                 remainingSlack, remainingSize>>

PlanStep == NextPackage \/ FirstOfBatch \/ Join \/ CloseBatch

Planned == toVisit = {} /\ Exhausted /\ batch = NoBatch

PlanInit ==
  /\ stored \in Layouts
  /\ requested = {} /\ toVisit = {}
  /\ package = NoPackage
  /\ readRequests = <<>> /\ index = 1
  /\ batch = NoBatch /\ remainingSlack = 0 /\ remainingSize = 0
  /\ batchReadRequests = <<>>

(* One GetContentObjects after the other, each for some of the contents;   *)
(* an exception may have ended the one before at any time.                 *)
PlanNext == PlanStep \/ \E contents \in SUBSET Contents : Prepare(contents)

PlanSpec == PlanInit /\ [][PlanNext]_planVars

-----------------------------------------------------------------------------
Batch == [package : Packages \cup {NoPackage}, requests : Seq(Chunk), packageOffset : Nat, readSize : Nat]

PlanTypeOK ==
  /\ stored \in [Packages -> Seq(Chunk)]
  /\ requested \subseteq Contents
  /\ toVisit \subseteq Packages
  /\ package \in Packages \cup {NoPackage}
  /\ readRequests \in Seq(Chunk) /\ index \in Nat \ {0}
  /\ batch \in Batch
  /\ remainingSlack \in Int /\ remainingSize \in Int
  /\ batchReadRequests \in Seq(Batch)

Covers(b, r) ==
  /\ b.packageOffset <= r.packageOffset
  /\ r.packageOffset + r.packageSize <= b.packageOffset + b.readSize

Batches == {batchReadRequests[k] : k \in DOMAIN batchReadRequests} \cup {batch}

(***************************************************************************)
(* The read thread takes every chunk of a batch out of the bytes that one  *)
(* read returned (PackedRepositoryBase.cpp:499-508), without a test: so    *)
(* the range must cover the chunk, whatever gaps there are between the     *)
(* requests (:845-869).                                                    *)
(***************************************************************************)
SlicesInRange == \A b \in Batches : \A k \in DOMAIN b.requests : Covers(b, b.requests[k])

(***************************************************************************)
(* A batch of several requests reads at most MaxSize bytes that somebody   *)
(* asked for and MaxSlack that nobody did; only a single request may be    *)
(* larger, and then nothing else is read (PackedRepositoryBase.cpp:828-866). *)
(***************************************************************************)
ReadsBounded ==
  \A b \in Batches :
    \/ b.readSize <= MaxSize + MaxSlack
    \/ Len(b.requests) = 1 /\ b.readSize = b.requests[1].packageSize
=============================================================================
