--------------------------- MODULE PipelineProofs ---------------------------
(***************************************************************************)
(* Proofs about Pipeline for any number of chunks, any batches and sizes,  *)
(* and any limits: type correctness, the order and soundness of what       *)
(* reaches the callback, how soon an error stops it, that the threads      *)
(* implement module Delivery, and what the queues hold.                    *)
(***************************************************************************)
EXTENDS Pipeline, TLAPS, WellFoundedInduction

Consumer(q) == IF q = "processRequests" THEN "process" ELSE "output"

(* What a thread has to hold of the chunk it works on.                     *)
InHand ==
  /\ pc["read"] \in {"fetch", "insert"} => chunk["read"] < ChunkCount
  /\ pc["process"] = "insert" => chunk["process"] \notin corrupted
  /\ pc["output"] = "callback" => chunk["output"] \notin corrupted
  /\ pc["output"] \in {"check", "get"} => Len(delivered) = chunk["output"]
  /\ pc["output"] = "callback" => Len(delivered) + 1 = chunk["output"]

(* A queue continues where its consumer is, up to a terminator at its end. *)
QueueOrder ==
  \A q \in Queues : \A i \in 1..Len(queue[q]) :
    \/ queue[q][i] = chunk[Consumer(q)] + i
    \/ queue[q][i] = Terminator /\ i = Len(queue[q])

NoTerminator(q) == \A i \in 1..Len(queue[q]) : queue[q][i] # Terminator

(* Until its producer is done, a live queue ends where the producer is.    *)
ProducersContinue ==
  /\ ~poisoned["processRequests"] /\ pc["read"] # "done" =>
       /\ NoTerminator("processRequests")
       /\ chunk["process"] + Len(queue["processRequests"]) = chunk["read"]
  /\ ~poisoned["outputRequests"] /\ pc["process"] # "done" =>
       /\ NoTerminator("outputRequests")
       /\ pc["process"] \in {"check", "get"} =>
            chunk["output"] + Len(queue["outputRequests"]) = chunk["process"]
       /\ pc["process"] \in {"process", "insert"} =>
            chunk["output"] + Len(queue["outputRequests"]) + 1
              = chunk["process"]

(* Whatever left the process thread was sound.                             *)
SoundOutput ==
  /\ \A i \in 1..Len(queue["outputRequests"]) :
       queue["outputRequests"][i] \notin corrupted
  /\ \A i \in 1..Len(delivered) : delivered[i] \notin corrupted

IInv ==
  /\ TypeOK
  /\ InHand
  /\ QueueOrder
  /\ ProducersContinue
  /\ SoundOutput
  /\ DeliveredInOrder

-----------------------------------------------------------------------------
(* What the queue operations do, case by case.                             *)

LEMMA ItemValueType ==
  ASSUME NEW q \in Queues, NEW item \in Chunks \cup {Terminator}
  PROVE  ItemValue(q, item) \in Int
BY PipelineAssumption DEF ItemValue, Queues, Terminator

Items == Chunks \cup {Terminator}

QueueTypes ==
  /\ queue \in [Queues -> Seq(Items)]
  /\ pendingItemValue \in [Queues -> Int]
  /\ poisoned \in [Queues -> BOOLEAN]
  /\ waiting \in [Queues -> SUBSET Threads]
  /\ blocked \in [Threads -> BOOLEAN]

LEMMA NotifyOneType ==
  ASSUME QueueTypes, NEW q \in Queues, NotifyOne(q)
  PROVE  waiting' \in [Queues -> SUBSET Threads]
BY DEF QueueTypes, NotifyOne

LEMMA InsertItemEffect ==
  ASSUME QueueTypes, NEW t \in Threads, NEW q \in Queues,
         NEW item \in Items, InsertItem(t, q, item)
  PROVE  /\ QueueTypes'
         /\ poisoned' = poisoned
         /\ \/ poisoned[q] /\ queue' = queue
            \/ ~poisoned[q] /\ queue' = [queue EXCEPT ![q] = Append(@, item)]
<1>1. poisoned' = poisoned /\ blocked' \in [Threads -> BOOLEAN]
  BY DEF InsertItem, QueueTypes
<1>2. CASE poisoned[q]
  BY <1>1, <1>2 DEF InsertItem, QueueTypes
<1>3. CASE ~poisoned[q]
  <2>1. queue' = [queue EXCEPT ![q] = Append(@, item)]
    BY <1>3 DEF InsertItem
  <2>2. queue' \in [Queues -> Seq(Items)]
    BY <2>1 DEF QueueTypes
  <2>3. pendingItemValue' \in [Queues -> Int]
    <3>1. ItemValue(q, item) \in Int
      BY ItemValueType DEF Items
    <3>2. QED
      BY <1>3, <3>1 DEF InsertItem, QueueTypes
  <2>4. waiting' \in [Queues -> SUBSET Threads]
    BY <1>3, NotifyOneType DEF InsertItem
  <2>5. QED
    BY <1>1, <1>3, <2>1, <2>2, <2>3, <2>4 DEF QueueTypes
<1>4. QED
  BY <1>2, <1>3

LEMMA GetItemEffect ==
  ASSUME QueueTypes, NEW q \in Queues, NEW item \in Items, GetItem(q, item)
  PROVE  /\ QueueTypes'
         /\ poisoned' = poisoned
         /\ \/ poisoned[q] /\ item = Terminator /\ queue' = queue
            \/ /\ ~poisoned[q] /\ queue[q] # <<>> /\ item = Head(queue[q])
               /\ queue' = [queue EXCEPT ![q] = Tail(@)]
<1>1. poisoned' = poisoned /\ blocked' = blocked
  BY DEF GetItem
<1>2. CASE poisoned[q]
  BY <1>1, <1>2 DEF GetItem, QueueTypes
<1>3. CASE ~poisoned[q]
  <2>1. /\ queue[q] # <<>> /\ item = Head(queue[q])
        /\ queue' = [queue EXCEPT ![q] = Tail(@)]
    BY <1>3 DEF GetItem
  <2>2. queue' \in [Queues -> Seq(Items)]
    BY <2>1 DEF QueueTypes
  <2>3. pendingItemValue' \in [Queues -> Int]
    <3>1. ItemValue(q, item) \in Int
      BY ItemValueType DEF Items
    <3>2. QED
      BY <1>3, <3>1 DEF GetItem, QueueTypes
  <2>4. waiting' \in [Queues -> SUBSET Threads]
    BY <1>3, NotifyOneType DEF GetItem
  <2>5. QED
    BY <1>1, <1>3, <2>1, <2>2, <2>3, <2>4 DEF QueueTypes
<1>4. QED
  BY <1>2, <1>3

LEMMA PoisonEffect ==
  ASSUME QueueTypes, NEW q \in Queues, Poison(q)
  PROVE  /\ QueueTypes'
         /\ poisoned' = [poisoned EXCEPT ![q] = TRUE]
         /\ queue' = queue
BY DEF Poison, QueueTypes

LEMMA SleepEffect ==
  ASSUME QueueTypes, NEW t \in Threads, NEW q \in Queues,
         InsertWait(t, q) \/ GetWait(t, q)
  PROVE  QueueTypes' /\ queue' = queue /\ poisoned' = poisoned
<1>1. Sleep(t, q) /\ UNCHANGED <<queue, pendingItemValue, poisoned>>
  BY DEF InsertWait, GetWait
<1>2. waiting' \in [Queues -> SUBSET Threads]
  BY <1>1 DEF Sleep, QueueTypes
<1>3. blocked' \in [Threads -> BOOLEAN]
  BY DEF InsertWait, GetWait, QueueTypes
<1>4. QED
  BY <1>1, <1>2, <1>3 DEF QueueTypes

-----------------------------------------------------------------------------
(* Steps that touch neither a queue nor a chunk: only the thread moves on. *)

LEMMA MoveOn ==
  ASSUME IInv, NEW t \in Threads, NEW label \in Labels, Goto(t, label),
         UNCHANGED <<corrupted, chunk, queue, delivered>>, QueueTypes',
         \A q \in Queues : poisoned[q] => poisoned'[q],
         errorOccurred' \in BOOLEAN, errorMutex' \in Threads \cup {NoThread},
         exception' \in Threads \cup {NoThread},
         result' \in {"running", "returned", "undefined"},
         pc[t] # "done",
         t = "read" /\ label \in {"fetch", "insert"} =>
            chunk["read"] < ChunkCount,
         t = "process" => label \notin {"check", "process"},
         t = "process" /\ label = "get" => pc[t] = "check",
         t = "process" /\ label = "insert" =>
            pc[t] = "process" /\ chunk[t] \notin corrupted,
         t = "output" => label \notin {"check", "callback"},
         t = "output" /\ label = "get" => pc[t] = "check"
  PROVE  IInv'
<1>1. pc' = [pc EXCEPT ![t] = label]
  BY DEF Goto
<1>2. TypeOK'
  BY <1>1 DEF IInv, TypeOK, QueueTypes, Items
<1>3. InHand'
  BY <1>1 DEF IInv, TypeOK, InHand, Threads
<1>4. QueueOrder'
  BY DEF IInv, QueueOrder, Consumer
<1>5. ProducersContinue'
  BY <1>1 DEF IInv, TypeOK, ProducersContinue, NoTerminator, Threads, Queues
<1>6. SoundOutput' /\ DeliveredInOrder'
  BY DEF IInv, SoundOutput, DeliveredInOrder
<1>7. QED
  BY <1>2, <1>3, <1>4, <1>5, <1>6 DEF IInv

(* CheckSignal, ReadCheck, FetchBatch, ProcessChunk, and RegisterException *)
(* are of that kind.                                                       *)

LEMMA QueueTypesUnchanged ==
  QueueTypes /\ UNCHANGED queueVars => QueueTypes'
BY DEF QueueTypes, queueVars

LEMMA TypeParts == TypeOK => QueueTypes
BY DEF TypeOK, QueueTypes, Items

LEMMA CheckSignalStep ==
  ASSUME IInv, NEW t \in {"process", "output"}, CheckSignal(t)
  PROVE  IInv'
<1>1. QueueTypes' /\ t \in Threads /\ poisoned' = poisoned
  BY QueueTypesUnchanged, TypeParts DEF IInv, CheckSignal, Threads, queueVars
<1>2. PICK label \in {"get", "done", "terminate"} :
        /\ Goto(t, label)
        /\ t = "output" => label # "terminate"
  BY DEF CheckSignal, AfterCatch
<1>3. label \in Labels
  BY DEF Labels
<1>4. QED
  BY <1>1, <1>2, <1>3, MoveOn DEF CheckSignal, IInv, TypeOK, errorVars, queueVars

LEMMA ReadCheckStep == ASSUME IInv, ReadCheck PROVE IInv'
<1>1. QueueTypes' /\ "read" \in Threads /\ poisoned' = poisoned
  BY QueueTypesUnchanged, TypeParts DEF IInv, ReadCheck, Threads, queueVars
<1>2. PICK label \in {"terminate", "fetch"} :
        /\ Goto("read", label)
        /\ label = "fetch" => chunk["read"] < ChunkCount
  BY <1>1, PipelineAssumption DEF ReadCheck, IInv, TypeOK, Chunks
<1>3. label \in Labels
  BY DEF Labels
<1>4. QED
  BY <1>1, <1>2, <1>3, MoveOn DEF ReadCheck, IInv, TypeOK, errorVars, queueVars

LEMMA FetchBatchStep == ASSUME IInv, FetchBatch PROVE IInv'
<1>1. QueueTypes' /\ "read" \in Threads /\ poisoned' = poisoned
  BY QueueTypesUnchanged, TypeParts DEF IInv, FetchBatch, Threads, queueVars
<1>2. PICK label \in {"insert", "signal"} : Goto("read", label)
  BY DEF FetchBatch
<1>3. label \in Labels /\ chunk["read"] < ChunkCount
  BY DEF Labels, FetchBatch, IInv, InHand
<1>4. QED
  BY <1>1, <1>2, <1>3, MoveOn DEF FetchBatch, IInv, TypeOK, errorVars, queueVars

LEMMA ProcessChunkStep == ASSUME IInv, ProcessChunk PROVE IInv'
<1>1. QueueTypes' /\ "process" \in Threads /\ poisoned' = poisoned
  BY QueueTypesUnchanged, TypeParts DEF IInv, ProcessChunk, Threads, queueVars
<1>2. PICK label \in {"insert", "signal"} :
        /\ Goto("process", label)
        /\ label = "insert" => chunk["process"] \notin corrupted
  BY DEF ProcessChunk
<1>3. label \in Labels
  BY DEF Labels
<1>4. QED
  BY <1>1, <1>2, <1>3, MoveOn
  DEF ProcessChunk, IInv, TypeOK, errorVars, queueVars

LEMMA RegisterExceptionStep ==
  ASSUME IInv, NEW t \in Threads, RegisterException(t)
  PROVE  IInv'
<1>1. CASE SignalError(t)
  <2>1. QueueTypes' /\ poisoned' = poisoned /\ "record" \in Labels
    BY <1>1, QueueTypesUnchanged, TypeParts
    DEF IInv, SignalError, queueVars, Labels
  <2>2. QED
    BY <1>1, <2>1, MoveOn DEF SignalError, IInv, TypeOK, queueVars
<1>2. CASE RecordException(t)
  <2>1. QueueTypes' /\ poisoned' = poisoned /\ "poisonProcess" \in Labels
    BY <1>2, QueueTypesUnchanged, TypeParts
    DEF IInv, RecordException, queueVars, Labels
  <2>2. QED
    BY <1>2, <2>1, MoveOn DEF RecordException, IInv, TypeOK, queueVars
<1>3. CASE PoisonProcessRequests(t)
  <2>1. /\ QueueTypes' /\ queue' = queue /\ "poisonOutput" \in Labels
        /\ \A q \in Queues : poisoned[q] => poisoned'[q]
    BY <1>3, PoisonEffect, TypeParts
    DEF IInv, PoisonProcessRequests, Labels, Queues, QueueTypes
  <2>2. QED
    BY <1>3, <2>1, MoveOn DEF PoisonProcessRequests, IInv, TypeOK, errorVars
<1>4. CASE PoisonOutputRequests(t)
  <2>1. /\ QueueTypes' /\ queue' = queue
        /\ \A q \in Queues : poisoned[q] => poisoned'[q]
    BY <1>4, PoisonEffect, TypeParts
    DEF IInv, PoisonOutputRequests, Queues, QueueTypes
  <2>2. PICK label \in {"done", "terminate"} :
          Goto(t, label) /\ (t = "output" => label = "done")
    BY <1>4 DEF PoisonOutputRequests, AfterCatch
  <2>3. label \in Labels
    BY DEF Labels
  <2>4. QED
    BY <1>4, <2>1, <2>2, <2>3, MoveOn
    DEF PoisonOutputRequests, IInv, TypeOK, Threads
<1>5. QED
  BY <1>1, <1>2, <1>3, <1>4 DEF RegisterException

-----------------------------------------------------------------------------
(* Steps of a sleeping or woken thread, and of the caller.                 *)

LEMMA StayPut ==
  ASSUME IInv, QueueTypes',
         UNCHANGED <<corrupted, pc, chunk, queue, poisoned, delivered>>,
         UNCHANGED errorVars,
         result' \in {"running", "returned", "undefined"}
  PROVE  IInv'
<1>1. TypeOK'
  BY DEF IInv, TypeOK, QueueTypes, Items, errorVars
<1>2. InHand' /\ QueueOrder' /\ ProducersContinue'
  BY DEF IInv, InHand, QueueOrder, ProducersContinue, Consumer, NoTerminator
<1>3. SoundOutput' /\ DeliveredInOrder'
  BY DEF IInv, SoundOutput, DeliveredInOrder
<1>4. QED
  BY <1>1, <1>2, <1>3 DEF IInv

LEMMA WaitStep ==
  ASSUME IInv, NEW t \in Threads, NEW q \in Queues,
         WaitForSpace(t, q) \/ WaitForItem(t, q)
  PROVE  IInv'
<1>1. QueueTypes' /\ queue' = queue /\ poisoned' = poisoned
  BY SleepEffect, TypeParts DEF IInv, WaitForSpace, WaitForItem
<1>2. QED
  BY <1>1, StayPut DEF WaitForSpace, WaitForItem, IInv, TypeOK

LEMMA SpuriousWakeupStep == ASSUME IInv, SpuriousWakeup PROVE IInv'
<1>1. QueueTypes'
  BY TypeParts DEF IInv, SpuriousWakeup, QueueTypes
<1>2. QED
  BY <1>1, StayPut DEF SpuriousWakeup, IInv, TypeOK

LEMMA ReturnStep == ASSUME IInv, Return PROVE IInv'
<1>1. QueueTypes' /\ UNCHANGED <<queue, poisoned>>
  BY QueueTypesUnchanged, TypeParts DEF IInv, Return, queueVars
<1>2. result' \in {"running", "returned", "undefined"}
  BY DEF Return, RethrowException
<1>3. QED
  BY <1>1, <1>2, StayPut DEF Return

-----------------------------------------------------------------------------
(* Queue contents that count up from a base: what Append and Tail keep.    *)

Run(s, base) == \A i \in 1..Len(s) : s[i] = base + i

LEMMA AppendRun ==
  ASSUME NEW s \in Seq(Items), NEW base \in Nat, Run(s, base),
         NEW item \in Items, item = base + Len(s) + 1
  PROVE  Run(Append(s, item), base)
<1>1. /\ Len(Append(s, item)) = Len(s) + 1 /\ Len(s) \in Nat
      /\ \A i \in 1..Len(s) : Append(s, item)[i] = s[i]
      /\ Append(s, item)[Len(s) + 1] = item
  OBVIOUS
<1>2. SUFFICES ASSUME NEW i \in 1..(Len(s) + 1)
               PROVE  Append(s, item)[i] = base + i
  BY <1>1 DEF Run
<1>3. CASE i \in 1..Len(s)
  BY <1>1, <1>3 DEF Run
<1>4. CASE i = Len(s) + 1
  BY <1>1, <1>4
<1>5. QED
  BY <1>1, <1>3, <1>4

-----------------------------------------------------------------------------
(* Steps that move a chunk.                                                *)

LEMMA InsertSliceStep == ASSUME IInv, InsertSlice PROVE IInv'
<1> DEFINE q == "processRequests"
           next == chunk["read"] + 1
<1>0. /\ chunk' = [chunk EXCEPT !["read"] = next]
      /\ "read" \in Threads /\ q \in Queues
      /\ pc["read"] = "insert"
      /\ UNCHANGED <<corrupted, errorVars, delivered, result>>
  BY DEF InsertSlice, Threads, Queues
<1>1. /\ chunk["read"] \in Nat /\ next \in Chunks /\ next \in Items
      /\ chunk' = [chunk EXCEPT !["read"] = next]
      /\ "read" \in Threads /\ q \in Queues
      /\ pc["read"] = "insert"
      /\ UNCHANGED <<corrupted, errorVars, delivered, result>>
  BY <1>0, PipelineAssumption DEF IInv, TypeOK, InHand, Chunks, Items
<1>2. PICK label \in {"check", "insert"} :
        /\ Goto("read", label)
        /\ label = "insert" => next # ChunkCount
  BY DEF InsertSlice
<1>3. /\ QueueTypes' /\ poisoned' = poisoned
      /\ \/ poisoned[q] /\ queue' = queue
         \/ ~poisoned[q] /\ queue' = [queue EXCEPT ![q] = Append(@, next)]
  <2>1. InsertItem("read", q, next)
    BY DEF InsertSlice
  <2>2. QED
    BY <1>1, <2>1, InsertItemEffect, TypeParts DEF IInv
<1>4. pc' = [pc EXCEPT !["read"] = label]
  BY <1>2 DEF Goto
<1>5. TypeOK'
  BY <1>1, <1>3, <1>4 DEF IInv, TypeOK, QueueTypes, Items, errorVars, Labels
<1>6. InHand'
  <2>1. label = "insert" => next < ChunkCount
    BY <1>1, <1>2, PipelineAssumption DEF Chunks
  <2>2. QED
    BY <1>1, <1>4, <2>1 DEF IInv, TypeOK, InHand, Threads
<1>7. queue["processRequests"] \in Seq(Items)
      /\ queue["outputRequests"] \in Seq(Items)
      /\ queue'["outputRequests"] = queue["outputRequests"]
  BY <1>3, TypeParts DEF IInv, QueueTypes, Queues
<1>8. QueueOrder' /\ ProducersContinue'
  <2>1. CASE poisoned[q]
    BY <1>1, <1>3, <1>4, <2>1
    DEF IInv, TypeOK, QueueOrder, ProducersContinue, NoTerminator, Consumer,
        Threads, Queues
  <2>2. CASE ~poisoned[q]
    <3>1. queue'[q] = Append(queue[q], next)
      BY <1>1, <1>3, <2>2 DEF IInv, TypeOK
    <3>2. /\ NoTerminator(q)
          /\ chunk["process"] + Len(queue[q]) = chunk["read"]
          /\ chunk["process"] \in Nat
      BY <1>1, <2>2 DEF IInv, ProducersContinue, TypeOK, Threads, Chunks
    <3>3. /\ NoTerminator(q)'
          /\ chunk'["process"] + Len(queue'[q]) = chunk'["read"]
      BY <1>1, <1>7, <3>1, <3>2 DEF NoTerminator, Terminator, IInv, TypeOK, Threads
    <3>4. Run(queue'[q], chunk'["process"])
      <4>1. chunk'["process"] = chunk["process"]
        BY <1>1 DEF IInv, TypeOK, Threads
      <4>2. Run(queue[q], chunk["process"])
        BY <1>1, <3>2 DEF IInv, QueueOrder, NoTerminator, Consumer, Run
      <4>3. next = chunk["process"] + Len(queue[q]) + 1
        BY <1>1, <3>2
      <4>4. QED
        BY <1>1, <1>7, <3>1, <3>2, <4>1, <4>2, <4>3, AppendRun
    <3>5. QueueOrder'
      BY <1>1, <1>7, <3>4
      DEF IInv, TypeOK, QueueOrder, Consumer, Threads, Queues, Run
    <3>6. ProducersContinue'
      BY <1>1, <1>3, <1>4, <1>7, <3>3
      DEF IInv, TypeOK, ProducersContinue, NoTerminator, Threads, Queues
    <3>7. QED
      BY <3>5, <3>6
  <2>3. QED
    BY <2>1, <2>2
<1>9. SoundOutput' /\ DeliveredInOrder'
  BY <1>1, <1>7 DEF IInv, SoundOutput, DeliveredInOrder
<1>10. QED
  BY <1>5, <1>6, <1>8, <1>9 DEF IInv

LEMMA InsertOutputStep == ASSUME IInv, InsertOutput PROVE IInv'
<1> DEFINE q == "outputRequests"
           item == chunk["process"]
<1>1. /\ item \in Items /\ "process" \in Threads /\ q \in Queues
      /\ pc["process"] = "insert" /\ item \notin corrupted
      /\ pc' = [pc EXCEPT !["process"] = "check"]
      /\ UNCHANGED <<corrupted, chunk, errorVars, delivered, result>>
  BY DEF InsertOutput, IInv, TypeOK, InHand, Items, Terminator, Threads, Queues,
         Goto
<1>2. /\ QueueTypes' /\ poisoned' = poisoned
      /\ \/ poisoned[q] /\ queue' = queue
         \/ ~poisoned[q] /\ queue' = [queue EXCEPT ![q] = Append(@, item)]
  <2>1. InsertItem("process", q, item)
    BY DEF InsertOutput
  <2>2. QED
    BY <1>1, <2>1, InsertItemEffect, TypeParts DEF IInv
<1>3. TypeOK'
  BY <1>1, <1>2 DEF IInv, TypeOK, QueueTypes, Items, errorVars, Labels
<1>4. InHand'
  BY <1>1 DEF IInv, TypeOK, InHand, Threads
<1>5. /\ queue["processRequests"] \in Seq(Items)
      /\ queue["outputRequests"] \in Seq(Items)
      /\ queue'["processRequests"] = queue["processRequests"]
  BY <1>2, TypeParts DEF IInv, QueueTypes, Queues
<1>6. DeliveredInOrder'
  BY <1>1 DEF IInv, DeliveredInOrder
<1>7. QueueOrder' /\ ProducersContinue' /\ SoundOutput'
  <2>1. CASE poisoned[q]
    BY <1>1, <1>2, <2>1
    DEF IInv, TypeOK, QueueOrder, ProducersContinue, SoundOutput, NoTerminator,
        Consumer, Threads, Queues
  <2>2. CASE ~poisoned[q]
    <3>1. queue'[q] = Append(queue[q], item)
      BY <1>1, <1>2, <2>2 DEF IInv, TypeOK
    <3>2. /\ NoTerminator(q)
          /\ chunk["output"] + Len(queue[q]) + 1 = item
          /\ chunk["output"] \in Nat /\ item \in Nat
      <4>1. chunk["output"] \in Nat /\ item \in Nat
        BY <1>1, PipelineAssumption DEF IInv, TypeOK, Threads, Chunks
      <4>2. QED
        BY <1>1, <2>2, <4>1 DEF IInv, ProducersContinue
    <3>3. Run(queue'[q], chunk["output"])
      <4>1. Run(queue[q], chunk["output"])
        BY <1>1, <3>2 DEF IInv, QueueOrder, NoTerminator, Consumer, Run
      <4>2. QED
        BY <1>1, <1>5, <3>1, <3>2, <4>1, AppendRun
    <3>4. /\ NoTerminator(q)'
          /\ chunk'["output"] + Len(queue'[q]) = chunk'["process"]
      <4>1. Len(queue'[q]) = Len(queue[q]) + 1 /\ Len(queue[q]) \in Nat
        BY <1>1, <1>5, <3>1
      <4>2. NoTerminator(q)'
        BY <3>2, <3>3, <4>1 DEF NoTerminator, Terminator, Run
      <4>3. QED
        BY <1>1, <3>2, <4>1, <4>2
    <3>5. QueueOrder'
      BY <1>1, <1>5, <3>3 DEF IInv, QueueOrder, Consumer, Queues, Run
    <3>6. ProducersContinue'
      BY <1>1, <1>2, <1>5, <3>4
      DEF IInv, TypeOK, ProducersContinue, NoTerminator, Threads, Queues
    <3>7. SoundOutput'
      BY <1>1, <1>5, <3>1 DEF IInv, SoundOutput
    <3>8. QED
      BY <3>5, <3>6, <3>7
  <2>3. QED
    BY <2>1, <2>2
<1>8. QED
  BY <1>3, <1>4, <1>6, <1>7 DEF IInv

(* The thread that inserts the terminator is done with it.                 *)

LEMMA InsertTerminatorStep ==
  ASSUME IInv, NEW t \in Threads, NEW q \in Queues,
         \/ t = "read" /\ q = "processRequests"
         \/ t = "process" /\ q = "outputRequests",
         InsertTerminator(t, q)
  PROVE  IInv'
<1>1. /\ pc[t] = "terminate" /\ pc' = [pc EXCEPT ![t] = "done"]
      /\ UNCHANGED <<corrupted, chunk, errorVars, delivered, result>>
  BY DEF InsertTerminator, Goto
<1>2. /\ QueueTypes' /\ poisoned' = poisoned
      /\ \/ poisoned[q] /\ queue' = queue
         \/ ~poisoned[q] /\ queue' = [queue EXCEPT ![q] = Append(@, Terminator)]
  <2>1. InsertItem(t, q, Terminator) /\ Terminator \in Items
    BY DEF InsertTerminator, Items
  <2>2. QED
    BY <2>1, InsertItemEffect, TypeParts DEF IInv
<1>3. TypeOK'
  BY <1>1, <1>2 DEF IInv, TypeOK, QueueTypes, Items, errorVars, Labels
<1>4. InHand'
  BY <1>1 DEF IInv, TypeOK, InHand, Threads
<1>5. DeliveredInOrder'
  BY <1>1 DEF IInv, DeliveredInOrder
<1>6. CASE poisoned[q]
  BY <1>1, <1>2, <1>3, <1>4, <1>5, <1>6
  DEF IInv, TypeOK, QueueOrder, ProducersContinue, SoundOutput, NoTerminator,
      Consumer, Threads, Queues
<1>7. CASE ~poisoned[q]
  <2>1. /\ queue[q] \in Seq(Items)
        /\ queue'[q] = Append(queue[q], Terminator)
        /\ \A other \in Queues \ {q} : queue'[other] = queue[other]
    BY <1>2, <1>7, TypeParts DEF IInv, QueueTypes
  <2>2. NoTerminator(q)
    BY <1>1, <1>7 DEF IInv, ProducersContinue
  <2>3. /\ Len(queue'[q]) = Len(queue[q]) + 1 /\ Len(queue[q]) \in Nat
        /\ \A i \in 1..Len(queue[q]) : queue'[q][i] = queue[q][i]
        /\ queue'[q][Len(queue[q]) + 1] = Terminator
    BY <2>1 DEF Items
  <2>4. QueueOrder'
    <3>1. SUFFICES ASSUME NEW i \in 1..Len(queue'[q])
                   PROVE  \/ queue'[q][i] = chunk[Consumer(q)] + i
                          \/ /\ queue'[q][i] = Terminator
                             /\ i = Len(queue'[q])
      BY <1>1, <2>1 DEF IInv, QueueOrder, Consumer
    <3>2. CASE i \in 1..Len(queue[q])
      BY <2>2, <2>3, <3>2 DEF IInv, QueueOrder, NoTerminator
    <3>3. CASE i = Len(queue[q]) + 1
      BY <2>3, <3>3
    <3>4. QED
      BY <2>3, <3>2, <3>3
  <2>5. ProducersContinue'
    BY <1>1, <1>2, <2>1
    DEF IInv, TypeOK, ProducersContinue, NoTerminator, Threads, Queues
  <2>6. SoundOutput'
    <3>1. Terminator \notin corrupted
      BY DEF IInv, TypeOK, Chunks, Terminator
    <3>2. CASE q = "processRequests"
      BY <1>1, <2>1, <3>2 DEF IInv, SoundOutput, Queues
    <3>3. CASE q = "outputRequests"
      BY <1>1, <2>3, <3>1, <3>3 DEF IInv, SoundOutput
    <3>4. QED
      BY <3>2, <3>3 DEF Queues
  <2>7. QED
    BY <1>3, <1>4, <1>5, <2>4, <2>5, <2>6 DEF IInv
<1>8. QED
  BY <1>6, <1>7

(* Taking the head: the rest of the queue counts on from the new chunk.    *)

LEMMA TailEffect ==
  ASSUME NEW s \in Seq(Items), s # <<>>
  PROVE  /\ Len(s) \in Nat \ {0} /\ Len(Tail(s)) = Len(s) - 1
         /\ Head(s) = s[1]
         /\ \A i \in 1..Len(Tail(s)) : Tail(s)[i] = s[i + 1]
OBVIOUS

ClosedRun(s, base) ==
  \A i \in 1..Len(s) : s[i] = base + i \/ (s[i] = Terminator /\ i = Len(s))

LEMMA TailRun ==
  ASSUME NEW s \in Seq(Items), s # <<>>, NEW base \in Nat, ClosedRun(s, base)
  PROVE  /\ s[1] = base + 1 \/ (s[1] = Terminator /\ Len(Tail(s)) = 0)
         /\ ClosedRun(Tail(s), base + 1)
<1>1. /\ Len(s) \in Nat \ {0} /\ Len(Tail(s)) = Len(s) - 1
      /\ \A i \in 1..Len(Tail(s)) : Tail(s)[i] = s[i + 1]
  BY TailEffect
<1>2. s[1] = base + 1 \/ (s[1] = Terminator /\ Len(s) = 1)
  <2>1. 1 \in 1..Len(s)
    BY <1>1
  <2>2. QED
    BY <2>1 DEF ClosedRun
<1>3. ASSUME NEW i \in 1..Len(Tail(s))
      PROVE  \/ Tail(s)[i] = (base + 1) + i
             \/ Tail(s)[i] = Terminator /\ i = Len(Tail(s))
  <2>1. i \in Nat /\ i + 1 \in 1..Len(s) /\ Tail(s)[i] = s[i + 1]
    BY <1>1
  <2>2. s[i + 1] = base + (i + 1) \/ (s[i + 1] = Terminator /\ i + 1 = Len(s))
    BY <2>1 DEF ClosedRun
  <2>3. base + (i + 1) = (base + 1) + i
    BY <2>1
  <2>4. ASSUME i + 1 = Len(s) PROVE i = Len(Tail(s))
    <3>1. Len(Tail(s)) = (i + 1) - 1
      BY <1>1, <2>4
    <3>2. QED
      BY <2>1, <3>1
  <2>5. QED
    BY <2>1, <2>2, <2>3, <2>4
<1>4. ClosedRun(Tail(s), base + 1)
  BY <1>3 DEF ClosedRun
<1>5. QED
  BY <1>1, <1>2, <1>4

LEMMA TakeRequestStep ==
  ASSUME IInv, NEW t \in Threads, NEW q \in Queues, NEW work \in Labels,
         t = Consumer(q),
         work = IF t = "process" THEN "process" ELSE "callback",
         TakeRequest(t, q, work)
  PROVE  IInv'
<1>1. PICK item \in Items :
        /\ GetItem(q, item)
        /\ IF item = Terminator
             THEN Goto(t, AfterCatch(t)) /\ UNCHANGED chunk
             ELSE Goto(t, work) /\ chunk' = [chunk EXCEPT ![t] = item]
  BY DEF TakeRequest, Items
<1>2. /\ pc[t] = "get" /\ t \in {"process", "output"}
      /\ UNCHANGED <<corrupted, errorVars, delivered, result>>
  BY DEF TakeRequest, Consumer
<1>3. /\ QueueTypes' /\ poisoned' = poisoned
      /\ \/ poisoned[q] /\ item = Terminator /\ queue' = queue
         \/ /\ ~poisoned[q] /\ queue[q] # <<>> /\ item = Head(queue[q])
            /\ queue' = [queue EXCEPT ![q] = Tail(@)]
  BY <1>1, GetItemEffect, TypeParts DEF IInv
<1>4. CASE poisoned[q]
  <2>1. queue' = queue /\ Goto(t, AfterCatch(t)) /\ chunk' = chunk
    BY <1>1, <1>3, <1>4
  <2>2. PICK label \in {"done", "terminate"} :
          Goto(t, label) /\ (t = "output" => label = "done")
    BY <2>1 DEF AfterCatch
  <2>3. label \in Labels
    BY DEF Labels
  <2>4. QED
    BY <1>2, <1>3, <2>1, <2>2, <2>3, MoveOn DEF IInv, TypeOK, errorVars
<1>5. CASE ~poisoned[q]
  <2> DEFINE rest == queue'[q]
  <2>1. /\ queue[q] \in Seq(Items) /\ queue[q] # <<>>
        /\ rest = Tail(queue[q]) /\ rest \in Seq(Items)
        /\ \A other \in Queues \ {q} : queue'[other] = queue[other]
    BY <1>3, <1>5, TypeParts DEF IInv, QueueTypes
  <2>2. /\ Len(queue[q]) \in Nat \ {0} /\ Len(rest) = Len(queue[q]) - 1
        /\ item = queue[q][1]
        /\ \A i \in 1..Len(rest) : rest[i] = queue[q][i + 1]
    BY <1>3, <1>5, <2>1, TailEffect
  <2>3. chunk[t] \in Nat
    BY PipelineAssumption DEF IInv, TypeOK, Chunks
  <2>4. /\ item = chunk[t] + 1 \/ (item = Terminator /\ Len(rest) = 0)
        /\ ClosedRun(rest, chunk[t] + 1)
    <3>1. ClosedRun(queue[q], chunk[t])
      BY DEF IInv, QueueOrder, ClosedRun
    <3>2. QED
      BY <2>1, <2>2, <2>3, <3>1, TailRun
  <2>5. DeliveredInOrder'
    BY <1>2 DEF IInv, DeliveredInOrder
  <2>6. SoundOutput'
    <3>1. CASE q = "processRequests"
      BY <1>2, <2>1, <3>1 DEF IInv, SoundOutput, Queues
    <3>2. CASE q = "outputRequests"
      <4>1. ASSUME NEW i \in 1..Len(rest) PROVE rest[i] \notin corrupted
        <5>1. i + 1 \in 1..Len(queue[q]) /\ rest[i] = queue[q][i + 1]
          BY <2>2
        <5>2. QED
          BY <3>2, <5>1 DEF IInv, SoundOutput
      <4>2. QED
        BY <1>2, <3>2, <4>1 DEF IInv, SoundOutput
    <3>3. QED
      BY <3>1, <3>2 DEF Queues
  <2>7. CASE item = Terminator
    <3>1. PICK label \in {"done", "terminate"} :
            pc' = [pc EXCEPT ![t] = label] /\ (t = "output" => label = "done")
      BY <1>1, <2>7 DEF AfterCatch, Goto
    <3>2. chunk' = chunk /\ Len(rest) = 0
      BY <1>1, <2>3, <2>4, <2>7 DEF Terminator
    <3>3. TypeOK'
      <4>1. pc' \in [Threads -> Labels]
        BY <1>2, <3>1 DEF IInv, TypeOK, Labels
      <4>2. QED
        BY <1>2, <1>3, <3>2, <4>1
        DEF IInv, TypeOK, QueueTypes, Items, errorVars
    <3>4. InHand'
      <4>1. /\ pc'[t] \in {"done", "terminate"}
            /\ \A other \in Threads \ {t} : pc'[other] = pc[other]
        BY <1>2, <3>1 DEF IInv, TypeOK
      <4>2. QED
        BY <1>2, <3>2, <4>1 DEF IInv, InHand, Threads
    <3>5. QueueOrder'
      <4>1. 1..Len(rest) = {}
        BY <3>2
      <4>2. \A other \in Queues \ {q} : \A i \in 1..Len(queue[other]) :
              \/ queue[other][i] = chunk[Consumer(other)] + i
              \/ queue[other][i] = Terminator /\ i = Len(queue[other])
        BY DEF IInv, QueueOrder
      <4>3. QED
        BY <2>1, <3>2, <4>1, <4>2 DEF QueueOrder, Consumer
    <3>6. ProducersContinue'
      <4>1. ~NoTerminator(q)
        <5>1. 1 \in 1..Len(queue[q])
          BY <2>2
        <5>2. QED
          BY <2>2, <2>7, <5>1 DEF NoTerminator
      <4>2. QED
        BY <1>2, <1>3, <1>5, <2>1, <3>1, <3>2, <4>1
        DEF IInv, TypeOK, ProducersContinue, NoTerminator, Threads, Queues,
            Consumer
    <3>7. QED
      BY <2>5, <2>6, <3>3, <3>4, <3>5, <3>6 DEF IInv
  <2>8. CASE item # Terminator
    <3>1. /\ pc' = [pc EXCEPT ![t] = work]
          /\ chunk' = [chunk EXCEPT ![t] = item]
          /\ item = chunk[t] + 1 /\ item \in Chunks
      BY <1>1, <2>4, <2>8 DEF Goto, Items
    <3>2. TypeOK'
      BY <1>2, <1>3, <3>1
      DEF IInv, TypeOK, QueueTypes, Items, errorVars
    <3>3. InHand'
      <4>1. q = "outputRequests" => item \notin corrupted
        BY <2>2 DEF IInv, SoundOutput
      <4>2. QED
        BY <1>2, <2>3, <3>1, <4>1
        DEF IInv, TypeOK, InHand, Threads, Queues, Consumer
    <3>4. QueueOrder'
      <4>1. SUFFICES ASSUME NEW other \in Queues, NEW i \in 1..Len(queue'[other])
                     PROVE  \/ queue'[other][i] = chunk'[Consumer(other)] + i
                            \/ /\ queue'[other][i] = Terminator
                               /\ i = Len(queue'[other])
        BY DEF QueueOrder, Consumer
      <4>2. CASE other = q
        <5>1. chunk'[Consumer(other)] = chunk[t] + 1
          BY <3>1, <4>2 DEF IInv, TypeOK
        <5>2. QED
          BY <2>4, <4>2, <5>1 DEF ClosedRun
      <4>3. CASE other # q
        <5>1. /\ queue'[other] = queue[other]
              /\ chunk'[Consumer(other)] = chunk[Consumer(other)]
          BY <2>1, <3>1, <4>3 DEF IInv, TypeOK, Consumer, Queues, Threads
        <5>2. QED
          BY <5>1 DEF IInv, QueueOrder
      <4>4. QED
        BY <4>2, <4>3
    <3>5. ProducersContinue'
      <4>1. NoTerminator(q) => NoTerminator(q)'
        BY <2>2 DEF NoTerminator
      <4>2. CASE q = "processRequests"
        <5>1. /\ queue'["outputRequests"] = queue["outputRequests"]
              /\ chunk'["process"] = chunk["process"] + 1
              /\ chunk'["output"] = chunk["output"]
              /\ chunk'["read"] = chunk["read"]
              /\ pc["process"] = "get" /\ pc'["process"] = "process"
              /\ pc'["read"] = pc["read"]
          BY <1>2, <2>1, <3>1, <4>2
          DEF IInv, TypeOK, Threads, Queues, Consumer
        <5>2. /\ ~poisoned'["outputRequests"] /\ pc'["process"] # "done" =>
                   /\ NoTerminator("outputRequests")'
                   /\ chunk'["output"] + Len(queue'["outputRequests"]) + 1
                        = chunk'["process"]
          BY <1>3, <5>1 DEF IInv, ProducersContinue, NoTerminator
        <5>3. /\ ~poisoned'["processRequests"] /\ pc'["read"] # "done" =>
                   /\ NoTerminator("processRequests")'
                   /\ chunk'["process"] + Len(queue'["processRequests"])
                        = chunk'["read"]
          <6>1. ~poisoned["processRequests"] /\ pc["read"] # "done" =>
                  /\ NoTerminator("processRequests")
                  /\ chunk["process"] + Len(queue["processRequests"])
                       = chunk["read"]
            BY DEF IInv, ProducersContinue
          <6>2. chunk["process"] + Len(queue["processRequests"])
                  = chunk'["process"] + Len(queue'["processRequests"])
            <7>1. chunk["process"] \in Nat
              BY <2>3, <4>2 DEF Consumer
            <7>2. /\ Len(queue["processRequests"]) \in Nat \ {0}
                  /\ Len(queue'["processRequests"])
                       = Len(queue["processRequests"]) - 1
              BY <2>2, <4>2
            <7>3. QED
              BY <5>1, <7>1, <7>2
          <6>3. QED
            BY <1>3, <4>1, <4>2, <5>1, <6>1, <6>2
        <5>4. QED
          BY <5>1, <5>2, <5>3 DEF ProducersContinue
      <4>3. CASE q = "outputRequests"
        <5>1. /\ queue'["processRequests"] = queue["processRequests"]
              /\ chunk'["output"] = chunk["output"] + 1
              /\ chunk'["process"] = chunk["process"]
              /\ chunk'["read"] = chunk["read"]
              /\ pc'["process"] = pc["process"] /\ pc'["read"] = pc["read"]
          BY <1>2, <2>1, <3>1, <4>3
          DEF IInv, TypeOK, Threads, Queues, Consumer
        <5>2. QED
          <6>1. chunk["output"] + Len(queue["outputRequests"])
                  = chunk'["output"] + Len(queue'["outputRequests"])
            BY <2>2, <2>3, <4>3, <5>1 DEF Consumer
          <6>2. chunk["output"] + Len(queue["outputRequests"]) + 1
                  = chunk'["output"] + Len(queue'["outputRequests"]) + 1
            BY <6>1
          <6>3. NoTerminator("processRequests")' = NoTerminator("processRequests")
            BY <5>1 DEF NoTerminator
          <6>4. QED
            BY <1>3, <4>1, <4>3, <5>1, <6>1, <6>2, <6>3
            DEF IInv, ProducersContinue
      <4>4. QED
        BY <4>2, <4>3 DEF Queues
    <3>6. QED
      BY <2>5, <2>6, <3>2, <3>3, <3>4, <3>5 DEF IInv
  <2>9. QED
    BY <2>7, <2>8
<1>6. QED
  BY <1>4, <1>5

LEMMA CallbackStep == ASSUME IInv, Callback PROVE IInv'
<1>1. /\ pc["output"] = "callback" /\ "output" \in Threads
      /\ UNCHANGED <<corrupted, chunk, queueVars, errorVars, result>>
  BY DEF Callback, Threads
<1>2. CASE delivered' = Append(delivered, chunk["output"]) /\ Goto("output", "check")
  <2>1. /\ pc' = [pc EXCEPT !["output"] = "check"]
        /\ chunk["output"] = Len(delivered) + 1
        /\ chunk["output"] \notin corrupted
        /\ delivered \in Seq(Chunks) /\ Len(delivered) \in Nat
    BY <1>1, <1>2 DEF Goto, IInv, InHand, TypeOK
  <2>2. chunk["output"] \in Chunks
    BY <1>1, <2>1 DEF IInv, TypeOK
  <2>3. /\ delivered' \in Seq(Chunks) /\ Len(delivered') = Len(delivered) + 1
        /\ \A i \in 1..Len(delivered) : delivered'[i] = delivered[i]
        /\ delivered'[Len(delivered) + 1] = chunk["output"]
    BY <1>2, <2>1, <2>2
  <2>4. TypeOK'
    BY <1>1, <2>1, <2>3
    DEF IInv, TypeOK, queueVars, errorVars, Labels
  <2>5. InHand'
    BY <1>1, <2>1, <2>3 DEF IInv, TypeOK, InHand, Threads
  <2>6. QueueOrder' /\ ProducersContinue'
    BY <1>1, <2>1
    DEF IInv, TypeOK, QueueOrder, ProducersContinue, NoTerminator, Consumer,
        queueVars, Threads
  <2>7. SoundOutput' /\ DeliveredInOrder'
    <3>1. \A i \in 1..Len(delivered') :
            delivered'[i] \notin corrupted /\ delivered'[i] = i
      BY <2>1, <2>3 DEF IInv, SoundOutput, DeliveredInOrder
    <3>2. QED
      BY <1>1, <2>3, <3>1 DEF IInv, SoundOutput, DeliveredInOrder, queueVars
  <2>8. QED
    BY <2>4, <2>5, <2>6, <2>7 DEF IInv
<1>3. CASE UNCHANGED delivered /\ Goto("output", "signal")
  <2>1. QueueTypes' /\ "signal" \in Labels /\ UNCHANGED <<queue, poisoned>>
    BY <1>1, QueueTypesUnchanged, TypeParts DEF IInv, Labels, queueVars
  <2>2. QED
    BY <1>1, <1>3, <2>1, MoveOn DEF IInv, TypeOK, errorVars
<1>4. QED
  BY <1>2, <1>3 DEF Callback

-----------------------------------------------------------------------------
(* The inductive invariant, and what follows from it.                      *)

LEMMA InitIInv == Init => IInv
<1> SUFFICES ASSUME Init PROVE IInv
  OBVIOUS
<1>1. TypeOK
  <2>1. /\ pc \in [Threads -> Labels]
        /\ chunk \in [Threads -> Chunks \cup {0}]
        /\ blocked \in [Threads -> BOOLEAN]
    BY DEF Init, Labels
  <2>2. /\ queue \in [Queues -> Seq(Chunks \cup {Terminator})]
        /\ pendingItemValue \in [Queues -> Int]
        /\ poisoned \in [Queues -> BOOLEAN]
        /\ waiting \in [Queues -> SUBSET Threads]
    BY DEF Init
  <2>3. delivered \in Seq(Chunks)
    BY DEF Init
  <2>4. /\ corrupted \in SUBSET Chunks
        /\ errorOccurred \in BOOLEAN
        /\ errorMutex \in Threads \cup {NoThread}
        /\ exception \in Threads \cup {NoThread}
        /\ result \in {"running", "returned", "undefined"}
    BY DEF Init
  <2>5. QED
    BY <2>1, <2>2, <2>3, <2>4 DEF TypeOK
<1>2. InHand
  BY DEF Init, InHand, Threads
<1>3. QueueOrder /\ ProducersContinue /\ SoundOutput /\ DeliveredInOrder
  BY DEF Init, QueueOrder, ProducersContinue, SoundOutput, DeliveredInOrder,
         NoTerminator, Queues, Threads
<1>4. QED
  BY <1>1, <1>2, <1>3 DEF IInv

LEMMA NextIInv == IInv /\ [Next]_vars => IInv'
<1> SUFFICES ASSUME IInv, [Next]_vars PROVE IInv'
  OBVIOUS
<1>1. CASE Read
  BY <1>1, ReadCheckStep, FetchBatchStep, InsertSliceStep, WaitStep,
     InsertTerminatorStep, RegisterExceptionStep DEF Read, Threads, Queues
<1>2. CASE Process
  <2>1. ASSUME TakeRequest("process", "processRequests", "process")
        PROVE  IInv'
    BY <2>1, TakeRequestStep DEF Threads, Queues, Labels, Consumer
  <2>2. QED
    BY <1>2, <2>1, CheckSignalStep, ProcessChunkStep, InsertOutputStep,
       WaitStep, InsertTerminatorStep, RegisterExceptionStep
    DEF Process, Threads, Queues
<1>3. CASE Output
  <2>1. ASSUME TakeRequest("output", "outputRequests", "callback")
        PROVE  IInv'
    BY <2>1, TakeRequestStep DEF Threads, Queues, Labels, Consumer
  <2>2. QED
    BY <1>3, <2>1, CheckSignalStep, CallbackStep, WaitStep,
       RegisterExceptionStep
    DEF Output, Threads, Queues
<1>4. CASE Finished \/ UNCHANGED vars
  <2>1. UNCHANGED vars
    BY <1>4 DEF Finished
  <2>2. QueueTypes'
    BY <2>1, QueueTypesUnchanged, TypeParts DEF IInv, vars
  <2>3. QED
    BY <2>1, <2>2, StayPut DEF vars, queueVars, errorVars, IInv, TypeOK
<1>5. QED
  BY <1>1, <1>2, <1>3, <1>4, ReturnStep, SpuriousWakeupStep DEF Next

LEMMA InductiveInvariant == Spec => []IInv
BY InitIInv, NextIInv, PTL DEF Spec

(* Every variable keeps its type; the callback never gets the terminator.  *)
THEOREM TypeCorrect == Spec => []TypeOK
<1>1. IInv => TypeOK
  BY DEF IInv
<1>2. QED
  BY <1>1, InductiveInvariant, PTL

(* The callback sees chunk 1, 2, 3, ... without a gap or a repetition,     *)
(* whatever fails and whenever the queues are poisoned.                    *)
THEOREM OrderCorrect == Spec => []DeliveredInOrder
<1>1. IInv => DeliveredInOrder
  BY DEF IInv
<1>2. QED
  BY <1>1, InductiveInvariant, PTL

(* No chunk that failed its check, nor one behind it, is delivered.        *)
THEOREM SoundDelivery == Spec => []NothingCorruptDelivered
<1>1. IInv => NothingCorruptDelivered
  <2> SUFFICES ASSUME IInv, NEW i \in DOMAIN delivered, NEW c \in 1..delivered[i]
               PROVE  c \notin corrupted
    BY DEF NothingCorruptDelivered
  <2>2. /\ delivered \in Seq(Chunks) /\ Len(delivered) \in Nat
        /\ DOMAIN delivered = 1..Len(delivered)
    BY DEF IInv, TypeOK
  <2>3. delivered[i] = i
    BY DEF IInv, DeliveredInOrder
  <2>4. c \in 1..Len(delivered)
    BY <2>2, <2>3
  <2>5. delivered[c] = c
    BY <2>2, <2>4 DEF IInv, DeliveredInOrder
  <2>6. QED
    BY <2>4, <2>5 DEF IInv, SoundOutput
<1>2. QED
  BY <1>1, InductiveInvariant, PTL

-----------------------------------------------------------------------------
(* What the promise of Delivery rests on.                                  *)

(* A thread that has left its loop by an error, and what is then missing.  *)
Registering == {"record", "poisonProcess", "poisonOutput"}
Stopped == Registering \cup {"signal", "terminate", "done"}

CutShort(t) ==
  /\ pc[t] \in Stopped
  /\ t = "read" => chunk["read"] < ChunkCount
  /\ t = "process" => chunk["process"] \in corrupted
  /\ t = "output" => Len(delivered) < ChunkCount

(* An error is never raised, and no queue poisoned, when all is delivered. *)
ErrorsCut ==
  /\ \A t \in Threads :
       /\ pc[t] \in Registering \cup {"signal"} => CutShort(t)
       /\ pc[t] \in Registering => errorOccurred
  /\ errorOccurred => \E t \in Threads : CutShort(t)
  /\ \A q \in Queues : poisoned[q] => errorOccurred

(* No thread, and nothing in a queue, is ahead of its producer.            *)
Producer(q) == IF q = "processRequests" THEN "read" ELSE "process"

NobodyAhead ==
  /\ Len(delivered) <= chunk["output"]
  /\ \A q \in Queues :
       /\ chunk[Consumer(q)] <= chunk[Producer(q)]
       /\ \A i \in 1..Len(queue[q]) : queue[q][i] <= chunk[Producer(q)]

(* Without an error a thread ends behind the last chunk only.              *)
QueuesEnd ==
  \A q \in Queues : \A i \in 1..Len(queue[q]) :
    queue[q][i] = Terminator => chunk[Consumer(q)] + i = ChunkCount + 1

ThreadsEnd ==
  /\ \A t \in Threads : pc[t] \in {"terminate", "done"} => chunk[t] = ChunkCount
  /\ pc["process"] = "terminate" =>
       chunk["output"] + Len(queue["outputRequests"]) = chunk["process"]
  /\ pc["output"] = "done" => Len(delivered) = ChunkCount

ReturnsLast == result # "running" => \A t \in Threads : pc[t] = "done"

PromiseInv ==
  /\ ErrorsCut
  /\ NobodyAhead
  /\ ~errorOccurred => QueuesEnd /\ ThreadsEnd
  /\ ReturnsLast

LEMMA Counts ==
  ASSUME IInv
  PROVE  /\ ChunkCount \in Nat
         /\ \A t \in Threads : chunk[t] \in Nat /\ chunk[t] <= ChunkCount
         /\ delivered \in Seq(Chunks) /\ Len(delivered) \in Nat
         /\ \A q \in Queues : queue[q] \in Seq(Items) /\ Len(queue[q]) \in Nat
<1>1. ChunkCount \in Nat
  BY PipelineAssumption
<1>2. \A t \in Threads : chunk[t] \in Nat /\ chunk[t] <= ChunkCount
  BY <1>1 DEF IInv, TypeOK, Chunks
<1>3. delivered \in Seq(Chunks) /\ Len(delivered) \in Nat
  BY DEF IInv, TypeOK
<1>4. \A q \in Queues : queue[q] \in Seq(Items)
  BY TypeParts DEF IInv, QueueTypes
<1>5. QED
  BY <1>1, <1>2, <1>3, <1>4

(* Where a thread was cut short, a chunk is missing at the callback.       *)
LEMMA MissingChunk ==
  ASSUME IInv, NobodyAhead, NEW t \in Threads, CutShort(t)
  PROVE  Len(delivered) < ChunkCount
<1>1. /\ Len(delivered) <= chunk["output"]
      /\ chunk["output"] <= chunk["process"]
      /\ chunk["process"] <= chunk["read"]
  BY DEF NobodyAhead, Consumer, Producer, Queues
<1>2. /\ ChunkCount \in Nat /\ Len(delivered) \in Nat
      /\ chunk["read"] \in Nat /\ chunk["process"] \in Nat
      /\ chunk["output"] \in Nat /\ chunk["process"] <= ChunkCount
  BY Counts DEF Threads
<1>3. CASE t = "read"
  <2>1. chunk["read"] < ChunkCount
    BY <1>3 DEF CutShort
  <2>2. QED
    BY <1>1, <1>2, <2>1
<1>4. CASE t = "process"
  <2>1. chunk["process"] \in corrupted /\ chunk["process"] \in 1..ChunkCount
    BY <1>4 DEF CutShort, IInv, TypeOK, Chunks
  <2>2. ASSUME Len(delivered) >= ChunkCount PROVE FALSE
    <3>1. chunk["process"] \in 1..Len(delivered)
      BY <1>2, <2>1, <2>2
    <3>2. delivered[chunk["process"]] = chunk["process"]
      BY <3>1, Counts DEF IInv, DeliveredInOrder
    <3>3. QED
      BY <2>1, <3>1, <3>2 DEF IInv, SoundOutput
  <2>3. QED
    BY <1>2, <2>2
<1>5. CASE t = "output"
  BY <1>5 DEF CutShort
<1>6. QED
  BY <1>3, <1>4, <1>5 DEF Threads

(* A thread that moves on without touching a queue's contents.             *)
LEMMA MoveOnKeepsPromise ==
  ASSUME IInv, PromiseInv, NEW t \in Threads, NEW label \in Labels,
         Goto(t, label),
         UNCHANGED <<corrupted, chunk, queue, delivered, result>>,
         pc[t] # "done",
         errorOccurred => errorOccurred',
         errorOccurred' => errorOccurred \/ pc[t] = "signal",
         \A q \in Queues : poisoned'[q] => poisoned[q] \/ errorOccurred,
         pc[t] \in Stopped => label \in Stopped,
         label \in Registering =>
           errorOccurred' /\ pc[t] \in Registering \cup {"signal"},
         label = "signal" => CutShort(t)',
         label \in {"terminate", "done"} => errorOccurred' \/
           (t = "read" /\ chunk[t] = ChunkCount)
  PROVE  PromiseInv'
<1>1. /\ pc' = [pc EXCEPT ![t] = label] /\ pc'[t] = label
      /\ \A other \in Threads \ {t} : pc'[other] = pc[other]
  BY DEF Goto, IInv, TypeOK
<1>2. ASSUME NEW other \in Threads, CutShort(other),
             other = t => label \in Stopped
      PROVE  CutShort(other)'
  BY <1>1, <1>2 DEF CutShort
<1>3. ErrorsCut'
  <2>1. ASSUME NEW other \in Threads
        PROVE  /\ pc'[other] \in Registering \cup {"signal"} => CutShort(other)'
               /\ pc'[other] \in Registering => errorOccurred'
    <3>1. CASE other = t
      <4>1. CASE label \in Registering
        BY <1>1, <1>2, <3>1, <4>1 DEF PromiseInv, ErrorsCut, Stopped
      <4>2. CASE label \notin Registering
        BY <1>1, <3>1, <4>2
      <4>3. QED
        BY <4>1, <4>2
    <3>2. CASE other # t
      BY <1>1, <1>2, <3>2 DEF PromiseInv, ErrorsCut
    <3>3. QED
      BY <3>1, <3>2
  <2>2. ASSUME errorOccurred' PROVE \E other \in Threads : CutShort(other)'
    <3>1. CASE pc[t] = "signal"
      BY <1>2, <3>1 DEF PromiseInv, ErrorsCut, Stopped
    <3>2. CASE errorOccurred
      <4>1. PICK other \in Threads : CutShort(other)
        BY <3>2 DEF PromiseInv, ErrorsCut
      <4>2. other = t => label \in Stopped
        BY <4>1 DEF CutShort
      <4>3. QED
        BY <1>2, <4>1, <4>2
    <3>3. QED
      BY <2>2, <3>1, <3>2
  <2>3. \A q \in Queues : poisoned'[q] => errorOccurred'
    BY DEF PromiseInv, ErrorsCut
  <2>4. QED
    BY <2>1, <2>2, <2>3 DEF ErrorsCut, CutShort
<1>4. NobodyAhead'
  BY DEF PromiseInv, NobodyAhead, Consumer, Producer
<1>5. ASSUME ~errorOccurred' PROVE QueuesEnd' /\ ThreadsEnd'
  <2>1. QueuesEnd /\ ThreadsEnd
    BY <1>5 DEF PromiseInv
  <2>2. QueuesEnd'
    BY <2>1 DEF QueuesEnd, Consumer
  <2>3. QED
    BY <1>1, <1>5, <2>1, <2>2 DEF ThreadsEnd, Threads
<1>6. ReturnsLast'
  BY <1>1 DEF PromiseInv, ReturnsLast
<1>7. QED
  BY <1>3, <1>4, <1>5, <1>6 DEF PromiseInv

LEMMA CheckSignalKeepsPromise ==
  ASSUME IInv, PromiseInv, NEW t \in {"process", "output"}, CheckSignal(t)
  PROVE  PromiseInv'
<1>1. PICK label \in {"get", "done", "terminate"} :
        /\ Goto(t, label)
        /\ label # "get" => errorOccurred
  BY DEF CheckSignal, AfterCatch
<1>2. label \in Labels /\ t \in Threads /\ pc[t] \notin Stopped
      /\ label \notin Registering /\ label # "signal"
  BY DEF Labels, CheckSignal, Stopped, Registering, Threads
<1>3. QED
  BY <1>1, <1>2, MoveOnKeepsPromise DEF CheckSignal, errorVars, queueVars

LEMMA ReadCheckKeepsPromise ==
  ASSUME IInv, PromiseInv, ReadCheck PROVE PromiseInv'
<1>1. PICK label \in {"terminate", "fetch"} :
        /\ Goto("read", label)
        /\ label = "terminate" => errorOccurred \/ chunk["read"] = ChunkCount
  BY DEF ReadCheck
<1>2. label \in Labels /\ "read" \in Threads /\ pc["read"] \notin Stopped
      /\ label \notin Registering /\ label # "signal"
  BY DEF Labels, ReadCheck, Stopped, Registering, Threads
<1>3. QED
  BY <1>1, <1>2, MoveOnKeepsPromise DEF ReadCheck, errorVars, queueVars

(* A thread whose work threw: it is cut short from here on.                *)
LEMMA ThrowKeepsPromise ==
  ASSUME IInv, PromiseInv, NEW t \in Threads, Goto(t, "signal"),
         pc[t] \notin Stopped,
         UNCHANGED <<corrupted, chunk, queueVars, errorVars, delivered, result>>,
         t = "read" => chunk["read"] < ChunkCount,
         t = "process" => chunk["process"] \in corrupted,
         t = "output" => Len(delivered) < ChunkCount
  PROVE  PromiseInv'
<1>1. "signal" \in Labels /\ "signal" \notin Registering
      /\ "signal" \in Stopped /\ pc[t] # "done"
  BY DEF Labels, Stopped, Registering
<1>2. CutShort(t)'
  BY <1>1 DEF CutShort, Goto, IInv, TypeOK
<1>3. QED
  BY <1>1, <1>2, MoveOnKeepsPromise DEF errorVars, queueVars

LEMMA FetchBatchKeepsPromise ==
  ASSUME IInv, PromiseInv, FetchBatch PROVE PromiseInv'
<1>1. "read" \in Threads /\ pc["read"] \notin Stopped
      /\ chunk["read"] < ChunkCount
  BY DEF FetchBatch, Stopped, Registering, Threads, IInv, InHand
<1>2. CASE Goto("read", "signal")
  BY <1>1, <1>2, ThrowKeepsPromise DEF FetchBatch
<1>3. CASE Goto("read", "insert")
  <2>1. "insert" \in Labels /\ "insert" \notin Stopped
        /\ "insert" \notin Registering
    BY DEF Labels, Stopped, Registering
  <2>2. QED
    BY <1>1, <1>3, <2>1, MoveOnKeepsPromise DEF FetchBatch, errorVars, queueVars
<1>4. QED
  BY <1>2, <1>3 DEF FetchBatch

LEMMA ProcessChunkKeepsPromise ==
  ASSUME IInv, PromiseInv, ProcessChunk PROVE PromiseInv'
<1>1. "process" \in Threads /\ pc["process"] \notin Stopped
  BY DEF ProcessChunk, Stopped, Registering, Threads
<1>2. CASE chunk["process"] \in corrupted
  BY <1>1, <1>2, ThrowKeepsPromise DEF ProcessChunk
<1>3. CASE chunk["process"] \notin corrupted
  <2>1. "insert" \in Labels /\ "insert" \notin Stopped
        /\ "insert" \notin Registering
    BY DEF Labels, Stopped, Registering
  <2>2. QED
    BY <1>1, <1>3, <2>1, MoveOnKeepsPromise
    DEF ProcessChunk, errorVars, queueVars
<1>4. QED
  BY <1>2, <1>3

LEMMA RegisterExceptionKeepsPromise ==
  ASSUME IInv, PromiseInv, NEW t \in Threads, RegisterException(t)
  PROVE  PromiseInv'
<1>1. PICK label \in Registering \cup {"done", "terminate"} :
        /\ Goto(t, label)
        /\ pc[t] \in Registering \cup {"signal"}
        /\ UNCHANGED <<corrupted, chunk, queue, delivered, result>>
        /\ \/ pc[t] = "signal" /\ errorOccurred' = TRUE
           \/ pc[t] \in Registering /\ errorOccurred' = errorOccurred
        /\ \A q \in Queues : poisoned'[q] => poisoned[q] \/ pc[t] \in Registering
  <2>1. CASE SignalError(t)
    BY <2>1 DEF SignalError, Registering, queueVars
  <2>2. CASE RecordException(t)
    BY <2>2 DEF RecordException, Registering, queueVars
  <2>3. CASE PoisonProcessRequests(t)
    BY <2>3 DEF PoisonProcessRequests, Poison, Registering, errorVars
  <2>4. CASE PoisonOutputRequests(t)
    BY <2>4 DEF PoisonOutputRequests, Poison, Registering, AfterCatch
  <2>5. QED
    BY <2>1, <2>2, <2>3, <2>4 DEF RegisterException
<1>2. pc[t] \in Registering => errorOccurred
  BY DEF PromiseInv, ErrorsCut
<1>3. /\ label \in Labels /\ label \in Stopped /\ label # "signal"
      /\ pc[t] # "done"
  BY <1>1 DEF Labels, Stopped, Registering
<1>4. errorOccurred'
  BY <1>1, <1>2
<1>5. QED
  BY <1>1, <1>2, <1>3, <1>4, MoveOnKeepsPromise

(* A thread that goes to sleep or wakes, and the caller that returns.      *)
LEMMA StayPutKeepsPromise ==
  ASSUME PromiseInv,
         UNCHANGED <<corrupted, pc, chunk, queue, poisoned, errorOccurred,
                     delivered>>,
         result' = result \/ \A t \in Threads : pc[t] = "done"
  PROVE  PromiseInv'
<1>1. ErrorsCut'
  BY DEF PromiseInv, ErrorsCut, CutShort
<1>2. NobodyAhead'
  BY DEF PromiseInv, NobodyAhead, Consumer, Producer
<1>3. ~errorOccurred' => QueuesEnd' /\ ThreadsEnd'
  BY DEF PromiseInv, QueuesEnd, ThreadsEnd, Consumer
<1>4. ReturnsLast'
  BY DEF PromiseInv, ReturnsLast
<1>5. QED
  BY <1>1, <1>2, <1>3, <1>4 DEF PromiseInv

LEMMA SleepersKeepPromise ==
  ASSUME IInv, PromiseInv,
         \/ \E t \in Threads : \E q \in Queues :
              WaitForSpace(t, q) \/ WaitForItem(t, q)
         \/ SpuriousWakeup
         \/ Return
  PROVE  PromiseInv'
<1>1. CASE \E t \in Threads : \E q \in Queues :
             WaitForSpace(t, q) \/ WaitForItem(t, q)
  BY <1>1, StayPutKeepsPromise
  DEF WaitForSpace, WaitForItem, InsertWait, GetWait, errorVars
<1>2. CASE SpuriousWakeup
  BY <1>2, StayPutKeepsPromise DEF SpuriousWakeup, errorVars
<1>3. CASE Return
  BY <1>3, StayPutKeepsPromise DEF Return, errorVars, queueVars
<1>4. QED
  BY <1>1, <1>2, <1>3

(* A thread at work that does not end keeps what the others promised.      *)
LEMMA AtWorkKeepsErrors ==
  ASSUME IInv, PromiseInv, NEW t \in Threads, NEW label \in Labels,
         Goto(t, label), pc[t] \notin Stopped, label \notin Stopped,
         UNCHANGED <<corrupted, poisoned, errorOccurred>>,
         \A other \in Threads \ {t} : chunk'[other] = chunk[other],
         t = "output" \/ UNCHANGED delivered
  PROVE  ErrorsCut'
<1>1. /\ pc'[t] = label
      /\ \A other \in Threads \ {t} : pc'[other] = pc[other]
  BY DEF Goto, IInv, TypeOK
<1>2. ASSUME NEW other \in Threads, CutShort(other) PROVE CutShort(other)'
  <2>1. other # t
    BY <1>2 DEF CutShort
  <2>2. QED
    BY <1>1, <1>2, <2>1 DEF CutShort
<1>3. label \notin Registering \cup {"signal"}
  BY DEF Stopped
<1>4. QED
  BY <1>1, <1>2, <1>3 DEF PromiseInv, ErrorsCut, CutShort

LEMMA InsertSliceKeepsPromise ==
  ASSUME IInv, PromiseInv, InsertSlice PROVE PromiseInv'
<1> DEFINE q == "processRequests"
           next == chunk["read"] + 1
<1>0. /\ chunk' = [chunk EXCEPT !["read"] = next]
      /\ "read" \in Threads /\ q \in Queues
      /\ pc["read"] = "insert"
      /\ UNCHANGED <<corrupted, errorVars, delivered, result>>
  BY DEF InsertSlice, Threads, Queues
<1>1. /\ chunk["read"] \in Nat /\ next \in Chunks /\ next \in Items
      /\ chunk' = [chunk EXCEPT !["read"] = next]
      /\ "read" \in Threads /\ q \in Queues
      /\ pc["read"] = "insert"
      /\ UNCHANGED <<corrupted, errorVars, delivered, result>>
  BY <1>0, PipelineAssumption DEF IInv, TypeOK, InHand, Chunks, Items
<1>2. PICK label \in {"check", "insert"} : Goto("read", label)
  BY DEF InsertSlice
<1>3. /\ poisoned' = poisoned
      /\ \/ poisoned[q] /\ queue' = queue
         \/ ~poisoned[q] /\ queue' = [queue EXCEPT ![q] = Append(@, next)]
  <2>1. InsertItem("read", q, next)
    BY DEF InsertSlice
  <2>2. QED
    BY <1>1, <2>1, InsertItemEffect, TypeParts DEF IInv
<1>4. /\ chunk'["read"] = next
      /\ chunk'["process"] = chunk["process"]
      /\ chunk'["output"] = chunk["output"]
      /\ queue'["outputRequests"] = queue["outputRequests"]
      /\ pc'["read"] = label
      /\ pc'["process"] = pc["process"] /\ pc'["output"] = pc["output"]
  BY <1>1, <1>2, <1>3 DEF IInv, TypeOK, Threads, Queues, Goto
<1>5. ErrorsCut'
  <2>1. label \in Labels /\ label \notin Stopped /\ pc["read"] \notin Stopped
    BY <1>1 DEF Labels, Stopped, Registering
  <2>2. QED
    BY <1>1, <1>2, <1>3, <1>4, <2>1, AtWorkKeepsErrors DEF Threads, errorVars
<1>6. ASSUME NEW i \in 1..Len(queue'[q])
      PROVE  \/ i \in 1..Len(queue[q]) /\ queue'[q][i] = queue[q][i]
             \/ queue'[q][i] = next
  <2>1. CASE queue' = queue
    BY <1>6, <2>1
  <2>2. CASE queue' = [queue EXCEPT ![q] = Append(@, next)]
    <3>1. queue'[q] = Append(queue[q], next) /\ queue[q] \in Seq(Items)
      BY <1>1, <2>2, Counts DEF IInv, TypeOK
    <3>2. QED
      BY <1>1, <1>6, <3>1
  <2>3. QED
    BY <1>3, <2>1, <2>2
<1>7. NobodyAhead'
  <2>1. ASSUME NEW i \in 1..Len(queue'[q]) PROVE queue'[q][i] <= next
    <3>1. CASE queue'[q][i] = next
      BY <1>1, <3>1
    <3>2. CASE i \in 1..Len(queue[q]) /\ queue'[q][i] = queue[q][i]
      <4>1. queue[q][i] <= chunk["read"] /\ queue[q][i] \in Nat
        BY <1>1, <3>2, Counts
        DEF PromiseInv, NobodyAhead, Producer, Items, Terminator, Chunks
      <4>2. QED
        BY <1>1, <3>2, <4>1
    <3>3. QED
      BY <1>6, <3>1, <3>2
  <2>2. chunk["process"] <= chunk["read"] /\ chunk["process"] \in Nat
    BY Counts DEF PromiseInv, NobodyAhead, Producer, Consumer, Queues, Threads
  <2>3. chunk["process"] <= next
    BY <1>1, <2>2
  <2>4. QED
    BY <1>1, <1>4, <2>1, <2>3
    DEF PromiseInv, NobodyAhead, Producer, Consumer, Queues
<1>8. ASSUME ~errorOccurred' PROVE QueuesEnd' /\ ThreadsEnd'
  <2>1. QueuesEnd /\ ThreadsEnd
    BY <1>1, <1>8 DEF PromiseInv, errorVars
  <2>2. next # Terminator
    BY <1>1 DEF Terminator, Chunks
  <2>3. QueuesEnd'
    BY <1>4, <1>6, <2>1, <2>2 DEF QueuesEnd, Consumer, Queues
  <2>4. ThreadsEnd'
    BY <1>1, <1>4, <2>1 DEF ThreadsEnd, Threads
  <2>5. QED
    BY <2>3, <2>4
<1>9. ReturnsLast'
  BY <1>1 DEF PromiseInv, ReturnsLast
<1>10. QED
  BY <1>5, <1>7, <1>8, <1>9 DEF PromiseInv

LEMMA InsertOutputKeepsPromise ==
  ASSUME IInv, PromiseInv, InsertOutput PROVE PromiseInv'
<1> DEFINE q == "outputRequests"
           item == chunk["process"]
<1>1. /\ item \in Items /\ item \in Nat
      /\ "process" \in Threads /\ q \in Queues
      /\ pc["process"] = "insert" /\ Goto("process", "check")
      /\ UNCHANGED <<corrupted, chunk, errorVars, delivered, result>>
  BY Counts DEF InsertOutput, IInv, TypeOK, Items, Terminator, Threads, Queues
<1>2. /\ poisoned' = poisoned
      /\ \/ poisoned[q] /\ queue' = queue
         \/ ~poisoned[q] /\ queue' = [queue EXCEPT ![q] = Append(@, item)]
  <2>1. InsertItem("process", q, item)
    BY DEF InsertOutput
  <2>2. QED
    BY <1>1, <2>1, InsertItemEffect, TypeParts DEF IInv
<1>3. /\ queue'["processRequests"] = queue["processRequests"]
      /\ pc'["process"] = "check"
      /\ pc'["read"] = pc["read"] /\ pc'["output"] = pc["output"]
  BY <1>1, <1>2 DEF IInv, TypeOK, Threads, Queues, Goto
<1>4. ErrorsCut'
  <2>1. "check" \in Labels /\ "check" \notin Stopped /\ pc["process"] \notin Stopped
    BY <1>1 DEF Labels, Stopped, Registering
  <2>2. QED
    BY <1>1, <1>2, <2>1, AtWorkKeepsErrors DEF Threads, errorVars
<1>5. ASSUME NEW i \in 1..Len(queue'[q])
      PROVE  \/ i \in 1..Len(queue[q]) /\ queue'[q][i] = queue[q][i]
             \/ queue'[q][i] = item /\ ~poisoned[q]
  <2>1. CASE queue' = queue
    BY <1>5, <2>1
  <2>2. CASE ~poisoned[q] /\ queue' = [queue EXCEPT ![q] = Append(@, item)]
    <3>1. queue'[q] = Append(queue[q], item) /\ queue[q] \in Seq(Items)
      BY <1>1, <2>2, Counts DEF IInv, TypeOK
    <3>2. QED
      BY <1>1, <1>5, <2>2, <3>1
  <2>3. QED
    BY <1>2, <2>1, <2>2
<1>6. NobodyAhead'
  <2>1. ASSUME NEW i \in 1..Len(queue'[q]) PROVE queue'[q][i] <= item
    <3>1. CASE queue'[q][i] = item
      BY <1>1, <3>1
    <3>2. CASE i \in 1..Len(queue[q]) /\ queue'[q][i] = queue[q][i]
      BY <1>1, <3>2 DEF PromiseInv, NobodyAhead, Producer
    <3>3. QED
      BY <1>5, <3>1, <3>2
  <2>2. QED
    BY <1>1, <1>3, <2>1
    DEF PromiseInv, NobodyAhead, Producer, Consumer, Queues
<1>7. ASSUME ~errorOccurred' PROVE QueuesEnd' /\ ThreadsEnd'
  <2>1. QueuesEnd /\ ThreadsEnd
    BY <1>1, <1>7 DEF PromiseInv, errorVars
  <2>2. ~poisoned[q] => item # Terminator
    <3>1. SUFFICES ASSUME ~poisoned[q] PROVE item # Terminator
      OBVIOUS
    <3>2. chunk["output"] + Len(queue[q]) + 1 = item
      BY <1>1, <3>1 DEF IInv, ProducersContinue
    <3>3. chunk["output"] \in Nat /\ Len(queue[q]) \in Nat
      BY Counts DEF Threads, Queues
    <3>4. QED
      BY <3>2, <3>3 DEF Terminator
  <2>3. QueuesEnd'
    BY <1>1, <1>3, <1>5, <2>1, <2>2 DEF QueuesEnd, Consumer, Queues
  <2>4. ThreadsEnd'
    BY <1>1, <1>3, <2>1 DEF ThreadsEnd, Threads
  <2>5. QED
    BY <2>3, <2>4
<1>8. ReturnsLast'
  BY <1>1 DEF PromiseInv, ReturnsLast
<1>9. QED
  BY <1>4, <1>6, <1>7, <1>8 DEF PromiseInv

(* A thread that ends keeps the errors' account: it was cut short before.  *)
LEMMA EndingKeepsErrors ==
  ASSUME IInv, PromiseInv, NEW t \in Threads, NEW label \in Labels,
         Goto(t, label), pc[t] \notin Registering \cup {"signal"},
         label \in {"terminate", "done"},
         UNCHANGED <<corrupted, chunk, poisoned, errorOccurred, delivered>>
  PROVE  ErrorsCut'
<1>1. /\ pc'[t] = label
      /\ \A other \in Threads \ {t} : pc'[other] = pc[other]
  BY DEF Goto, IInv, TypeOK
<1>2. label \in Stopped /\ label \notin Registering \cup {"signal"}
  BY DEF Stopped, Registering
<1>3. ASSUME NEW other \in Threads, CutShort(other) PROVE CutShort(other)'
  BY <1>1, <1>2, <1>3 DEF CutShort
<1>4. QED
  BY <1>1, <1>2, <1>3 DEF PromiseInv, ErrorsCut, CutShort

LEMMA InsertTerminatorKeepsPromise ==
  ASSUME IInv, PromiseInv, NEW t \in Threads, NEW q \in Queues,
         \/ t = "read" /\ q = "processRequests"
         \/ t = "process" /\ q = "outputRequests",
         InsertTerminator(t, q)
  PROVE  PromiseInv'
<1>1. /\ pc[t] = "terminate" /\ Goto(t, "done")
      /\ UNCHANGED <<corrupted, chunk, errorVars, delivered, result>>
      /\ t = Producer(q)
  BY DEF InsertTerminator, Producer
<1>2. /\ poisoned' = poisoned
      /\ \/ poisoned[q] /\ queue' = queue
         \/ ~poisoned[q] /\ queue' = [queue EXCEPT ![q] = Append(@, Terminator)]
  <2>1. InsertItem(t, q, Terminator) /\ Terminator \in Items
    BY DEF InsertTerminator, Items
  <2>2. QED
    BY <2>1, InsertItemEffect, TypeParts DEF IInv
<1>3. /\ pc'[t] = "done"
      /\ \A other \in Threads \ {t} : pc'[other] = pc[other]
      /\ \A other \in Queues \ {q} : queue'[other] = queue[other]
  BY <1>1, <1>2 DEF Goto, IInv, TypeOK
<1>4. ErrorsCut'
  <2>1. "done" \in Labels /\ pc[t] \notin Registering \cup {"signal"}
    BY <1>1 DEF Labels, Registering
  <2>2. QED
    BY <1>1, <1>2, <2>1, EndingKeepsErrors DEF errorVars
<1>5. ASSUME NEW i \in 1..Len(queue'[q])
      PROVE  \/ i \in 1..Len(queue[q]) /\ queue'[q][i] = queue[q][i]
             \/ /\ queue'[q][i] = Terminator
                /\ ~poisoned[q] /\ i = Len(queue[q]) + 1
  <2>1. CASE queue' = queue
    BY <1>5, <2>1
  <2>2. CASE ~poisoned[q] /\ queue' = [queue EXCEPT ![q] = Append(@, Terminator)]
    <3>1. queue'[q] = Append(queue[q], Terminator) /\ queue[q] \in Seq(Items)
      BY <2>2, Counts DEF IInv, TypeOK
    <3>2. QED
      BY <1>5, <2>2, <3>1 DEF Items
  <2>3. QED
    BY <1>2, <2>1, <2>2
<1>6. NobodyAhead'
  <2>1. chunk[t] \in Nat
    BY Counts
  <2>2. ASSUME NEW i \in 1..Len(queue'[q]) PROVE queue'[q][i] <= chunk[t]
    <3>1. CASE queue'[q][i] = Terminator
      BY <2>1, <3>1 DEF Terminator
    <3>2. CASE i \in 1..Len(queue[q]) /\ queue'[q][i] = queue[q][i]
      BY <1>1, <3>2 DEF PromiseInv, NobodyAhead
    <3>3. QED
      BY <1>5, <3>1, <3>2
  <2>3. QED
    BY <1>1, <1>3, <2>2 DEF PromiseInv, NobodyAhead, Producer, Consumer
<1>7. ASSUME ~errorOccurred' PROVE QueuesEnd' /\ ThreadsEnd'
  <2>1. QueuesEnd /\ ThreadsEnd
    BY <1>1, <1>7 DEF PromiseInv, errorVars
  <2>2. ~poisoned[q] => chunk[Consumer(q)] + Len(queue[q]) = ChunkCount
    <3>1. chunk[t] = ChunkCount
      BY <1>1, <2>1 DEF ThreadsEnd
    <3>2. CASE t = "read"
      BY <1>1, <3>1, <3>2 DEF IInv, ProducersContinue, Consumer, Producer, Queues
    <3>3. CASE t = "process"
      BY <1>1, <2>1, <3>1, <3>3 DEF ThreadsEnd, Consumer, Producer, Queues
    <3>4. QED
      BY <1>1, <3>2, <3>3 DEF Producer
  <2>3. QueuesEnd'
    <3>1. ASSUME NEW i \in 1..Len(queue'[q]), queue'[q][i] = Terminator
          PROVE  chunk[Consumer(q)] + i = ChunkCount + 1
      <4>1. CASE i \in 1..Len(queue[q]) /\ queue'[q][i] = queue[q][i]
        BY <2>1, <3>1, <4>1 DEF QueuesEnd
      <4>2. CASE ~poisoned[q] /\ i = Len(queue[q]) + 1
        <5>1. /\ chunk[Consumer(q)] \in Nat /\ Len(queue[q]) \in Nat
              /\ ChunkCount \in Nat
          BY Counts DEF Consumer, Threads
        <5>2. QED
          BY <2>2, <4>2, <5>1
      <4>3. QED
        BY <1>5, <4>1, <4>2
    <3>2. QED
      BY <1>1, <1>3, <2>1, <3>1 DEF QueuesEnd, Consumer
  <2>4. ThreadsEnd'
    BY <1>1, <1>3, <2>1 DEF ThreadsEnd, Threads, Queues
  <2>5. QED
    BY <2>3, <2>4
<1>8. ReturnsLast'
  BY <1>1, <1>3 DEF PromiseInv, ReturnsLast
<1>9. QED
  BY <1>4, <1>6, <1>7, <1>8 DEF PromiseInv

LEMMA TakeRequestKeepsPromise ==
  ASSUME IInv, PromiseInv, NEW t \in Threads, NEW q \in Queues,
         t = Consumer(q), NEW work \in {"process", "callback"},
         TakeRequest(t, q, work)
  PROVE  PromiseInv'
<1>1. PICK item \in Items :
        /\ GetItem(q, item)
        /\ IF item = Terminator
             THEN Goto(t, AfterCatch(t)) /\ UNCHANGED chunk
             ELSE Goto(t, work) /\ chunk' = [chunk EXCEPT ![t] = item]
  BY DEF TakeRequest, Items
<1>2. /\ pc[t] = "get" /\ t \in {"process", "output"}
      /\ pc[t] \notin Stopped
      /\ UNCHANGED <<corrupted, errorVars, delivered, result>>
  BY DEF TakeRequest, Consumer, Stopped, Registering
<1>3. /\ poisoned' = poisoned
      /\ \/ poisoned[q] /\ item = Terminator /\ queue' = queue
         \/ /\ ~poisoned[q] /\ queue[q] # <<>> /\ item = Head(queue[q])
            /\ queue' = [queue EXCEPT ![q] = Tail(@)]
  BY <1>1, GetItemEffect, TypeParts DEF IInv
<1>4. AfterCatch(t) \in {"terminate", "done"} /\ AfterCatch(t) \in Labels
      /\ AfterCatch(t) \notin Registering \cup {"signal"}
  BY DEF AfterCatch, Labels, Registering
<1>5. CASE poisoned[q]
  <2>1. errorOccurred /\ errorOccurred'
    BY <1>2, <1>5 DEF PromiseInv, ErrorsCut, errorVars
  <2>2. Goto(t, AfterCatch(t)) /\ UNCHANGED <<chunk, queue>>
    BY <1>1, <1>3, <1>5
  <2>3. QED
    BY <1>2, <1>3, <1>4, <2>1, <2>2, MoveOnKeepsPromise DEF errorVars
<1>6. CASE ~poisoned[q]
  <2> DEFINE rest == queue'[q]
  <2>1. /\ queue[q] \in Seq(Items) /\ queue[q] # <<>>
        /\ rest = Tail(queue[q])
        /\ \A other \in Queues \ {q} : queue'[other] = queue[other]
    BY <1>3, <1>6, Counts DEF IInv, TypeOK
  <2>2. /\ Len(queue[q]) \in Nat \ {0} /\ Len(rest) = Len(queue[q]) - 1
        /\ 1 \in 1..Len(queue[q]) /\ item = queue[q][1]
        /\ \A i \in 1..Len(rest) : i + 1 \in 1..Len(queue[q])
                                   /\ rest[i] = queue[q][i + 1]
    <3>1. /\ Len(queue[q]) \in Nat \ {0} /\ Len(rest) = Len(queue[q]) - 1
          /\ item = queue[q][1]
          /\ \A i \in 1..Len(rest) : rest[i] = queue[q][i + 1]
      BY <1>3, <1>6, <2>1, TailEffect
    <3>2. QED
      BY <3>1
  <2>3. chunk[t] \in Nat /\ ChunkCount \in Nat
    BY Counts
  <2>4. item <= chunk[Producer(q)]
    BY <2>2 DEF PromiseInv, NobodyAhead
  <2>5. \A i \in 1..Len(rest) : rest[i] <= chunk[Producer(q)]
    BY <2>2 DEF PromiseInv, NobodyAhead
  <2>6. CASE item = Terminator
    <3>1. /\ Goto(t, AfterCatch(t)) /\ chunk' = chunk
          /\ pc'[t] = AfterCatch(t)
          /\ \A other \in Threads \ {t} : pc'[other] = pc[other]
      BY <1>1, <2>6 DEF Goto, IInv, TypeOK
    <3>2. ErrorsCut'
      <4>1. pc[t] \notin Registering \cup {"signal"}
        BY <1>2 DEF Stopped
      <4>2. QED
        BY <1>2, <1>3, <1>4, <3>1, <4>1, EndingKeepsErrors DEF errorVars
    <3>3. NobodyAhead'
      BY <1>2, <2>1, <2>5, <3>1
      DEF PromiseInv, NobodyAhead, Consumer, Producer
    <3>4. ASSUME ~errorOccurred' PROVE QueuesEnd' /\ ThreadsEnd'
      <4>1. QueuesEnd /\ ThreadsEnd
        BY <1>2, <3>4 DEF PromiseInv, errorVars
      <4>2. chunk[t] = ChunkCount
        <5>1. chunk[t] + 1 = ChunkCount + 1
          BY <2>2, <2>6, <4>1 DEF QueuesEnd
        <5>2. QED
          BY <2>3, <5>1
      <4>3. ASSUME NEW i \in 1..Len(rest) PROVE rest[i] # Terminator
        <5>1. i + 1 \in 1..Len(queue[q]) /\ rest[i] = queue[q][i + 1]
          BY <2>2
        <5>2. ASSUME rest[i] = Terminator PROVE FALSE
          <6>1. chunk[t] + (i + 1) = ChunkCount + 1
            BY <4>1, <5>1, <5>2 DEF QueuesEnd
          <6>2. i \in Nat \ {0}
            BY <2>2
          <6>3. QED
            BY <2>3, <4>2, <6>1, <6>2
        <5>3. QED
          BY <5>2
      <4>4. QueuesEnd'
        BY <2>1, <3>1, <4>1, <4>3 DEF QueuesEnd, Consumer
      <4>5. CASE q = "processRequests"
        <5>1. /\ t = "process" /\ pc'["process"] = "terminate"
              /\ queue'["outputRequests"] = queue["outputRequests"]
          BY <2>1, <3>1, <4>5 DEF Consumer, AfterCatch, Queues
        <5>2. ~poisoned["outputRequests"]
          BY <1>2, <3>4 DEF PromiseInv, ErrorsCut, Queues, errorVars
        <5>3. chunk["output"] + Len(queue["outputRequests"]) = chunk["process"]
          BY <1>2, <5>1, <5>2 DEF IInv, ProducersContinue
        <5>4. QED
          BY <1>2, <3>1, <4>1, <4>2, <4>4, <5>1, <5>3
          DEF ThreadsEnd, Threads
      <4>6. CASE q = "outputRequests"
        <5>1. t = "output" /\ pc'["output"] = "done"
          BY <3>1, <4>6 DEF Consumer, AfterCatch
        <5>2. Len(delivered') = ChunkCount
          BY <1>2, <4>2, <5>1 DEF IInv, InHand
        <5>3. pc'["process"] = "terminate" => FALSE
          <6>1. SUFFICES ASSUME pc["process"] # "done"
                         PROVE  FALSE \/ pc["process"] # "terminate"
            BY <3>1, <5>1 DEF Threads
          <6>2. NoTerminator(q)
            BY <1>6, <4>6, <6>1 DEF IInv, ProducersContinue
          <6>3. QED
            BY <2>2, <2>6, <6>2 DEF NoTerminator
        <5>4. QED
          BY <3>1, <4>1, <4>2, <4>4, <5>1, <5>2, <5>3
          DEF ThreadsEnd, Threads
      <4>7. QED
        BY <4>5, <4>6 DEF Queues
    <3>5. ReturnsLast'
      BY <1>2 DEF PromiseInv, ReturnsLast
    <3>6. QED
      BY <3>2, <3>3, <3>4, <3>5 DEF PromiseInv
  <2>7. CASE item # Terminator
    <3>1. /\ Goto(t, work) /\ pc'[t] = work
          /\ chunk'[t] = item /\ item = chunk[t] + 1 /\ item \in Nat
          /\ \A other \in Threads \ {t} :
               pc'[other] = pc[other] /\ chunk'[other] = chunk[other]
      <4>1. item = chunk[t] + 1
        BY <2>2, <2>7 DEF IInv, QueueOrder
      <4>2. QED
        BY <1>1, <2>3, <2>7, <4>1 DEF Goto, IInv, TypeOK
    <3>2. ErrorsCut'
      <4>1. work \in Labels /\ work \notin Stopped
        BY DEF Labels, Stopped, Registering
      <4>2. QED
        BY <1>2, <1>3, <3>1, <4>1, AtWorkKeepsErrors DEF errorVars
    <3>3. NobodyAhead'
      <4>1. CASE q = "processRequests"
        <5>1. /\ t = "process" /\ Producer(q) = "read"
              /\ chunk'["read"] = chunk["read"]
              /\ chunk'["output"] = chunk["output"]
              /\ queue'["outputRequests"] = queue["outputRequests"]
          BY <2>1, <3>1, <4>1 DEF Consumer, Producer, Threads, Queues
        <5>2. chunk["output"] <= chunk["process"] /\ chunk["output"] \in Nat
          BY Counts
          DEF PromiseInv, NobodyAhead, Consumer, Producer, Queues, Threads
        <5>3. chunk'["output"] <= chunk'["process"]
          BY <2>3, <3>1, <5>1, <5>2
        <5>4. ASSUME NEW i \in 1..Len(queue["outputRequests"])
              PROVE  queue["outputRequests"][i] <= chunk'["process"]
          <6>1. queue["outputRequests"][i] <= chunk["process"]
            BY DEF PromiseInv, NobodyAhead, Producer, Queues
          <6>2. queue["outputRequests"][i] \in Nat
            BY Counts DEF Queues, Items, Chunks, Terminator
          <6>3. QED
            BY <2>3, <3>1, <5>1, <6>1, <6>2
        <5>5. QED
          BY <1>2, <2>4, <2>5, <3>1, <4>1, <5>1, <5>3, <5>4
          DEF PromiseInv, NobodyAhead, Consumer, Producer, Queues
      <4>2. CASE q = "outputRequests"
        <5>1. /\ t = "output" /\ Producer(q) = "process"
              /\ chunk'["read"] = chunk["read"]
              /\ chunk'["process"] = chunk["process"]
              /\ queue'["processRequests"] = queue["processRequests"]
          BY <2>1, <3>1, <4>2 DEF Consumer, Producer, Threads, Queues
        <5>2. Len(delivered) <= chunk["output"] /\ Len(delivered) \in Nat
          BY Counts DEF PromiseInv, NobodyAhead
        <5>3. Len(delivered) <= chunk'["output"]
          BY <2>3, <3>1, <5>1, <5>2
        <5>4. QED
          BY <1>2, <2>4, <2>5, <3>1, <4>2, <5>1, <5>3
          DEF PromiseInv, NobodyAhead, Consumer, Producer, Queues
      <4>3. QED
        BY <4>1, <4>2 DEF Queues
    <3>4. ASSUME ~errorOccurred' PROVE QueuesEnd' /\ ThreadsEnd'
      <4>1. QueuesEnd /\ ThreadsEnd
        BY <1>2, <3>4 DEF PromiseInv, errorVars
      <4>2. ASSUME NEW i \in 1..Len(rest), rest[i] = Terminator
            PROVE  chunk'[t] + i = ChunkCount + 1
        <5>1. chunk[t] + (i + 1) = ChunkCount + 1
          BY <2>2, <4>1, <4>2 DEF QueuesEnd
        <5>2. i \in Nat
          BY <2>2
        <5>3. QED
          BY <2>3, <3>1, <5>1, <5>2
      <4>3. QueuesEnd'
        <5>1. \A other \in Queues \ {q} :
                chunk'[Consumer(other)] = chunk[Consumer(other)]
          BY <3>1 DEF Consumer, Queues, Threads
        <5>2. SUFFICES ASSUME NEW other \in Queues,
                              NEW i \in 1..Len(queue'[other]),
                              queue'[other][i] = Terminator
                       PROVE  chunk'[Consumer(other)] + i = ChunkCount + 1
          BY DEF QueuesEnd, Consumer
        <5>3. CASE other = q
          BY <4>2, <5>2, <5>3
        <5>4. CASE other # q
          <6>1. queue'[other] = queue[other] /\ other \in Queues \ {q}
            BY <2>1, <5>4
          <6>2. QED
            BY <4>1, <5>1, <5>2, <6>1 DEF QueuesEnd
        <5>5. QED
          BY <5>3, <5>4
      <4>4. CASE q = "processRequests"
        <5>1. /\ t = "process" /\ pc'["process"] = work
              /\ work \notin {"terminate", "done"}
          BY <3>1, <4>4 DEF Consumer
        <5>2. \A other \in Threads :
                pc'[other] \in {"terminate", "done"} => chunk'[other] = ChunkCount
          BY <3>1, <4>1, <5>1 DEF ThreadsEnd
        <5>3. pc'["output"] = "done" => Len(delivered') = ChunkCount
          BY <1>2, <3>1, <4>1, <5>1 DEF ThreadsEnd, Threads
        <5>4. QED
          BY <4>3, <5>1, <5>2, <5>3 DEF ThreadsEnd
      <4>5. CASE q = "outputRequests"
        <5>2. /\ t = "output" /\ pc'["output"] = work
              /\ work \notin {"terminate", "done"}
          BY <3>1, <4>5 DEF Consumer
        <5>1. chunk'["output"] + Len(rest) = chunk["output"] + Len(queue[q])
          <6>1. PICK n \in Nat : n = chunk["output"] /\ chunk'["output"] = n + 1
            BY <2>3, <3>1, <5>2
          <6>2. PICK m \in Nat : m = Len(queue[q]) /\ Len(rest) = m - 1
            BY <2>2
          <6> HIDE DEF rest
          <6>3. QED
            BY <6>1, <6>2
        <5>3. \A other \in Threads :
                pc'[other] \in {"terminate", "done"} => chunk'[other] = ChunkCount
          BY <3>1, <4>1, <5>2 DEF ThreadsEnd
        <5>4. pc'["process"] = "terminate" =>
                chunk'["output"] + Len(queue'["outputRequests"]) = chunk'["process"]
          BY <3>1, <4>1, <4>5, <5>1, <5>2 DEF ThreadsEnd, Threads
        <5>5. QED
          BY <4>3, <5>2, <5>3, <5>4 DEF ThreadsEnd
      <4>6. QED
        BY <4>4, <4>5 DEF Queues
    <3>5. ReturnsLast'
      BY <1>2 DEF PromiseInv, ReturnsLast
    <3>6. QED
      BY <3>2, <3>3, <3>4, <3>5 DEF PromiseInv
  <2>8. QED
    BY <2>6, <2>7
<1>7. QED
  BY <1>5, <1>6

LEMMA CallbackKeepsPromise ==
  ASSUME IInv, PromiseInv, Callback PROVE PromiseInv'
<1>1. /\ pc["output"] = "callback" /\ "output" \in Threads
      /\ pc["output"] \notin Stopped
      /\ Len(delivered) + 1 = chunk["output"]
      /\ chunk["output"] <= ChunkCount /\ ChunkCount \in Nat
      /\ chunk["output"] \in Nat /\ Len(delivered) \in Nat
      /\ UNCHANGED <<corrupted, chunk, queueVars, errorVars, result>>
  BY Counts DEF Callback, Threads, Stopped, Registering, IInv, InHand
<1>2. CASE delivered' = Append(delivered, chunk["output"]) /\ Goto("output", "check")
  <2>1. /\ pc'["output"] = "check"
        /\ \A other \in Threads \ {"output"} : pc'[other] = pc[other]
    BY <1>1, <1>2 DEF Goto, IInv, TypeOK
  <2>2. Len(delivered') = chunk["output"]
    BY <1>1, <1>2, Counts
  <2>3. ErrorsCut'
    <3>1. "check" \in Labels /\ "check" \notin Stopped
      BY DEF Labels, Stopped, Registering
    <3>2. QED
      BY <1>1, <1>2, <3>1, AtWorkKeepsErrors DEF errorVars, queueVars
  <2>4. NobodyAhead'
    BY <1>1, <2>2 DEF PromiseInv, NobodyAhead, Consumer, Producer, queueVars
  <2>5. ASSUME ~errorOccurred' PROVE QueuesEnd' /\ ThreadsEnd'
    <3>1. QueuesEnd /\ ThreadsEnd
      BY <1>1, <2>5 DEF PromiseInv, errorVars
    <3>2. QED
      BY <1>1, <2>1, <3>1 DEF QueuesEnd, ThreadsEnd, Consumer, Threads, queueVars
  <2>6. ReturnsLast'
    BY <1>1 DEF PromiseInv, ReturnsLast
  <2>7. QED
    BY <2>3, <2>4, <2>5, <2>6 DEF PromiseInv
<1>3. CASE UNCHANGED delivered /\ Goto("output", "signal")
  <2>1. Len(delivered) < ChunkCount
    BY <1>1
  <2>2. QED
    BY <1>1, <1>3, <2>1, ThrowKeepsPromise
<1>4. QED
  BY <1>2, <1>3 DEF Callback

-----------------------------------------------------------------------------
(* The refinement.                                                         *)

LEMMA InitPromise == Init => PromiseInv
<1> SUFFICES ASSUME Init PROVE PromiseInv
  OBVIOUS
<1>1. Len(delivered) = 0 /\ \A q \in Queues : Len(queue[q]) = 0
  BY DEF Init
<1>2. \A t \in Threads : pc[t] = "check" /\ chunk[t] = 0
  BY DEF Init
<1>3. ErrorsCut
  BY <1>2 DEF Init, ErrorsCut, Registering
<1>4. NobodyAhead
  BY <1>1, <1>2 DEF NobodyAhead, Consumer, Producer, Threads
<1>5. QueuesEnd /\ ThreadsEnd
  BY <1>1, <1>2 DEF QueuesEnd, ThreadsEnd, Threads
<1>6. QED
  BY <1>3, <1>4, <1>5 DEF Init, PromiseInv, ReturnsLast

LEMMA NextPromise == IInv /\ PromiseInv /\ [Next]_vars => PromiseInv'
<1> SUFFICES ASSUME IInv, PromiseInv, [Next]_vars PROVE PromiseInv'
  OBVIOUS
<1>1. CASE Read
  BY <1>1, ReadCheckKeepsPromise, FetchBatchKeepsPromise,
     InsertSliceKeepsPromise, SleepersKeepPromise,
     InsertTerminatorKeepsPromise, RegisterExceptionKeepsPromise
  DEF Read, Threads, Queues
<1>2. CASE Process
  <2>1. ASSUME TakeRequest("process", "processRequests", "process")
        PROVE  PromiseInv'
    BY <2>1, TakeRequestKeepsPromise DEF Threads, Queues, Consumer
  <2>2. QED
    BY <1>2, <2>1, CheckSignalKeepsPromise, ProcessChunkKeepsPromise,
       InsertOutputKeepsPromise, SleepersKeepPromise,
       InsertTerminatorKeepsPromise, RegisterExceptionKeepsPromise
    DEF Process, Threads, Queues
<1>3. CASE Output
  <2>1. ASSUME TakeRequest("output", "outputRequests", "callback")
        PROVE  PromiseInv'
    BY <2>1, TakeRequestKeepsPromise DEF Threads, Queues, Consumer
  <2>2. QED
    BY <1>3, <2>1, CheckSignalKeepsPromise, CallbackKeepsPromise,
       SleepersKeepPromise, RegisterExceptionKeepsPromise
    DEF Output, Threads, Queues
<1>4. CASE Finished \/ UNCHANGED vars
  BY <1>4, StayPutKeepsPromise DEF Finished, vars, queueVars, errorVars
<1>5. QED
  BY <1>1, <1>2, <1>3, <1>4, SleepersKeepPromise DEF Next

(* A step on anything but delivered, errorOccurred and result is none of   *)
(* Delivery.                                                               *)
LEMMA OtherStep ==
  ASSUME UNCHANGED <<corrupted, delivered, errorOccurred, result>>
  PROVE  UNCHANGED Promise!vars
BY DEF Promise!vars

LEMMA StepKeepsPromise ==
  IInv /\ PromiseInv /\ [Next]_vars => [Promise!Next]_(Promise!vars)
<1> SUFFICES ASSUME IInv, PromiseInv, [Next]_vars
             PROVE  Promise!Next \/ UNCHANGED Promise!vars
  OBVIOUS
<1>1. ASSUME NEW t \in Threads, RegisterException(t)
      PROVE  Promise!Next \/ UNCHANGED Promise!vars
  <2>1. CASE SignalError(t)
    <3>1. CutShort(t)
      BY <2>1 DEF SignalError, PromiseInv, ErrorsCut
    <3>2. Len(delivered) < ChunkCount
      BY <3>1, MissingChunk DEF PromiseInv
    <3>3. result = "running"
      BY <2>1 DEF SignalError, PromiseInv, ReturnsLast
    <3>4. QED
      BY <2>1, <3>2, <3>3 DEF SignalError, Promise!Next, Promise!Fail
  <2>2. CASE RecordException(t)
    BY <2>2, OtherStep DEF RecordException
  <2>3. CASE PoisonProcessRequests(t)
    BY <2>3, OtherStep DEF PoisonProcessRequests, errorVars
  <2>4. CASE PoisonOutputRequests(t)
    BY <2>4, OtherStep DEF PoisonOutputRequests
  <2>5. QED
    BY <1>1, <2>1, <2>2, <2>3, <2>4 DEF RegisterException
<1>2. ASSUME Callback PROVE Promise!Next \/ UNCHANGED Promise!vars
  <2>1. CASE delivered' = Append(delivered, chunk["output"])
    <3>1. /\ chunk["output"] = Len(delivered) + 1
          /\ chunk["output"] \in 1..ChunkCount
          /\ chunk["output"] \notin corrupted
      <4>1. pc["output"] = "callback"
        BY <1>2 DEF Callback
      <4>2. /\ chunk["output"] \in Nat /\ chunk["output"] <= ChunkCount
            /\ Len(delivered) \in Nat /\ ChunkCount \in Nat
        BY Counts DEF Threads
      <4>3. Len(delivered) + 1 = chunk["output"] /\ chunk["output"] \notin corrupted
        BY <4>1 DEF IInv, InHand
      <4>4. QED
        BY <4>2, <4>3
    <3>2. result = "running"
      BY <1>2 DEF Callback, PromiseInv, ReturnsLast, Threads
    <3>3. Promise!Deliver
      BY <1>2, <2>1, <3>1, <3>2
      DEF Callback, errorVars, Promise!Deliver, Promise!Chunks
    <3>4. QED
      BY <3>3 DEF Promise!Next
  <2>2. CASE UNCHANGED delivered
    BY <1>2, <2>2, OtherStep DEF Callback, errorVars
  <2>3. QED
    BY <1>2, <2>1, <2>2 DEF Callback
<1>3. ASSUME Return PROVE Promise!Next \/ UNCHANGED Promise!vars
  <2>1. /\ result = "running" /\ result' # "running"
        /\ UNCHANGED <<corrupted, delivered, errorOccurred>>
        /\ \A t \in Threads : pc[t] = "done"
    BY <1>3 DEF Return, RethrowException, errorVars
  <2>2. errorOccurred => Len(delivered) < ChunkCount
    BY MissingChunk DEF PromiseInv, ErrorsCut
  <2>3. ~errorOccurred => Len(delivered) = ChunkCount
    BY <2>1 DEF PromiseInv, ThreadsEnd, Threads
  <2>4. ~(ChunkCount < ChunkCount)
    BY Counts
  <2>5. Promise!End
    BY <2>1, <2>2, <2>3, <2>4 DEF Promise!End
  <2>6. QED
    BY <2>5 DEF Promise!Next
<1>4. ASSUME NEW t \in Threads, NEW q \in Queues,
             \/ CheckSignal(t)
             \/ ReadCheck \/ FetchBatch \/ InsertSlice
             \/ ProcessChunk \/ InsertOutput
             \/ WaitForSpace(t, q) \/ WaitForItem(t, q)
             \/ InsertTerminator(t, q)
             \/ TakeRequest(t, q, "process") \/ TakeRequest(t, q, "callback")
             \/ SpuriousWakeup \/ Finished \/ UNCHANGED vars
      PROVE  Promise!Next \/ UNCHANGED Promise!vars
  <2>1. UNCHANGED <<corrupted, delivered, errorOccurred, result>>
    BY <1>4
    DEF CheckSignal, ReadCheck, FetchBatch, InsertSlice, ProcessChunk,
        InsertOutput, WaitForSpace, WaitForItem, InsertTerminator, TakeRequest,
        SpuriousWakeup, Finished, vars, errorVars
  <2>2. QED
    BY <2>1, OtherStep
<1>5. CASE Read
  BY <1>1, <1>4, <1>5 DEF Read, Threads, Queues
<1>6. CASE Process
  BY <1>1, <1>4, <1>6 DEF Process, Threads, Queues
<1>7. CASE Output
  BY <1>1, <1>2, <1>4, <1>7 DEF Output, Threads, Queues
<1>8. "read" \in Threads /\ "processRequests" \in Queues
  BY DEF Threads, Queues
<1>9. QED
  BY <1>3, <1>4, <1>5, <1>6, <1>7, <1>8 DEF Next

(* The three threads, their queues and their error state implement the     *)
(* promise of Delivery: chunks in package order and sound, an error only   *)
(* while a chunk is missing, and an end that is complete if and only if    *)
(* no error was raised.                                                    *)
THEOREM PromiseKept == Spec => DeliveryPromise
<1>1. Init => Promise!Init
  BY DEF Init, Promise!Init, Promise!Chunks, Chunks
<1>2. Spec => []PromiseInv
  BY InductiveInvariant, InitPromise, NextPromise, PTL DEF Spec
<1>3. QED
  BY <1>1, <1>2, InductiveInvariant, StepKeepsPromise, PTL
  DEF Spec, DeliveryPromise, Promise!Spec

-----------------------------------------------------------------------------
(* What may still reach the callback once the error flag is up: the chunk  *)
(* the output thread is about to take, or has in hand.                     *)
AtMost(n) ==
  /\ errorOccurred
  /\ Len(delivered) <= n
  /\ pc["output"] \in {"get", "callback"} => Len(delivered) + 1 <= n

LEMMA NextAtMost ==
  ASSUME NEW n \in Nat
  PROVE  IInv /\ AtMost(n) /\ [Next]_vars => AtMost(n)'
<1> SUFFICES ASSUME IInv, AtMost(n), [Next]_vars PROVE AtMost(n)'
  OBVIOUS
<1>1. errorOccurred'
  BY DEF AtMost, Next, Read, Process, Output, Return, SpuriousWakeup, Finished,
         RegisterException, SignalError, RecordException, PoisonProcessRequests,
         PoisonOutputRequests, CheckSignal, ReadCheck, FetchBatch, InsertSlice,
         ProcessChunk, InsertOutput, WaitForSpace, WaitForItem,
         InsertTerminator, TakeRequest, Callback, vars, errorVars
<1>2. Len(delivered) \in Nat /\ delivered \in Seq(Chunks) /\ "output" \in Threads
  BY Counts DEF Threads
<1>3. ASSUME NEW t \in Threads \ {"output"}, NEW label, Goto(t, label),
             UNCHANGED delivered
      PROVE  AtMost(n)'
  BY <1>1, <1>3 DEF AtMost, Goto, IInv, TypeOK
<1>4. CASE UNCHANGED <<pc, delivered>>
  BY <1>1, <1>4 DEF AtMost
<1>5. ASSUME NEW t \in Threads, RegisterException(t)
      PROVE  AtMost(n)'
  <2>1. PICK label \in Registering \cup {"done", "terminate"} :
          Goto(t, label) /\ UNCHANGED delivered
    BY <1>5
    DEF RegisterException, SignalError, RecordException, PoisonProcessRequests,
        PoisonOutputRequests, Registering, AfterCatch
  <2>2. pc'["output"] \in {"get", "callback"} => pc'["output"] = pc["output"]
    BY <1>2, <2>1 DEF Goto, IInv, TypeOK, Registering
  <2>3. QED
    BY <1>1, <2>1, <2>2 DEF AtMost
<1>6. CASE Read
  BY <1>3, <1>4, <1>5, <1>6
  DEF Read, ReadCheck, FetchBatch, InsertSlice, WaitForSpace, InsertTerminator,
      Threads
<1>7. CASE Process
  BY <1>3, <1>4, <1>5, <1>7
  DEF Process, CheckSignal, TakeRequest, WaitForItem, ProcessChunk,
      InsertOutput, WaitForSpace, InsertTerminator, Threads
<1>8. CASE Output
  <2>1. CASE CheckSignal("output")
    BY <1>1, <1>2, <2>1
    DEF CheckSignal, AfterCatch, Goto, AtMost, IInv, TypeOK
  <2>2. CASE TakeRequest("output", "outputRequests", "callback")
    <3>1. pc["output"] = "get" /\ UNCHANGED delivered
      BY <2>2 DEF TakeRequest
    <3>2. QED
      BY <1>1, <3>1 DEF AtMost
  <2>3. CASE Callback
    <3>1. pc["output"] = "callback" /\ Len(delivered) + 1 <= n
      BY <2>3 DEF Callback, AtMost
    <3>2. /\ pc'["output"] \in {"check", "signal"}
          /\ Len(delivered') \in {Len(delivered), Len(delivered) + 1}
      <4>1. chunk["output"] \in Chunks
        <5>1. /\ chunk["output"] \in Nat /\ chunk["output"] <= ChunkCount
              /\ Len(delivered) + 1 = chunk["output"] /\ ChunkCount \in Nat
          BY <3>1, Counts DEF IInv, InHand, Threads
        <5>2. QED
          BY <1>2, <5>1 DEF Chunks
      <4>2. QED
        BY <1>2, <2>3, <4>1 DEF Callback, Goto, IInv, TypeOK
    <3>3. Len(delivered') <= n
      BY <1>2, <3>1, <3>2
    <3>4. QED
      BY <1>1, <3>2, <3>3 DEF AtMost
  <2>4. CASE WaitForItem("output", "outputRequests")
    BY <1>4, <2>4 DEF WaitForItem
  <2>5. CASE RegisterException("output")
    BY <1>2, <1>5, <2>5
  <2>6. QED
    BY <1>8, <2>1, <2>2, <2>3, <2>4, <2>5 DEF Output
<1>9. CASE Return \/ SpuriousWakeup \/ Finished \/ UNCHANGED vars
  BY <1>4, <1>9 DEF Return, SpuriousWakeup, Finished, vars
<1>10. QED
  BY <1>6, <1>7, <1>8, <1>9 DEF Next

(* After the error flag is up at most one more chunk reaches the callback, *)
(* however many are queued, in whatever order the threads run.             *)
THEOREM PromptStop == Spec => StopsPromptly
<1>1. SUFFICES ASSUME NEW k \in 0..ChunkCount
               PROVE  Spec => [](errorOccurred /\ Len(delivered) = k
                                   => [](Len(delivered) <= k + 1))
  BY DEF StopsPromptly
<1>2. k \in Nat /\ k + 1 \in Nat
  BY PipelineAssumption
<1>3. errorOccurred /\ Len(delivered) = k => AtMost(k + 1)
  BY <1>2 DEF AtMost
<1>4. AtMost(k + 1) => Len(delivered) <= k + 1
  BY DEF AtMost
<1>5. IInv /\ AtMost(k + 1) /\ [Next]_vars => AtMost(k + 1)'
  BY <1>2, NextAtMost
<1>6. QED
  BY <1>3, <1>4, <1>5, InductiveInvariant, PTL DEF Spec

-----------------------------------------------------------------------------
(* Sums over a queue.  The provers have no induction; a smallest           *)
(* counterexample takes its place.                                         *)

(* A set of numbers has a smallest one.                                    *)
LEMMA SmallestExists ==
  ASSUME NEW T, T \subseteq Nat, T # {}
  PROVE  \E n \in T : \A m \in T : n <= m
<1> DEFINE R == OpToRel(<, Nat)
<1>1. \E n \in T : \A m \in T : ~ (<<m, n>> \in R)
  <2> HIDE DEF R
  <2>1. IsWellFoundedOn(R, Nat)
    BY NatLessThanWellFounded DEF R
  <2>2. QED
    BY <2>1, WFMin
<1>2. PICK n \in T : \A m \in T : ~ (<<m, n>> \in R)
  BY <1>1
<1>3. ASSUME NEW m \in T PROVE n <= m
  <2>1. m \in Nat /\ n \in Nat
    OBVIOUS
  <2>2. m < n => <<m, n>> \in R
    BY <2>1 DEF OpToRel
  <2> HIDE DEF R
  <2>3. QED
    BY <1>2, <2>1, <2>2
<1>4. QED
  BY <1>3

(* The recursion of BytesOfFirst.                                          *)
Sums(f, q, items, n) ==
  f = [i \in 0..n |-> IF i = 0 THEN 0 ELSE f[i - 1] + ItemValue(q, items[i])]

(* BytesOfFirst is the last value of its recursion.                        *)
LEMMA SumIs ==
  ASSUME NEW q, NEW items, NEW n
  PROVE  BytesOfFirst(q, items, n) = (CHOOSE f : Sums(f, q, items, n))[n]
BY DEF BytesOfFirst, Sums

(* There is a solution,                                                    *)
LEMMA SumsExist ==
  ASSUME NEW q, NEW items, NEW n \in Nat
  PROVE  \E f : Sums(f, q, items, n)
<1> DEFINE T == {m \in Nat : ~ \E f : Sums(f, q, items, m)}
<1>1. SUFFICES ASSUME T # {} PROVE FALSE
  OBVIOUS
<1>2. PICK m \in T : \A k \in T : m <= k
  <2> HIDE DEF T
  <2>1. T \subseteq Nat
    BY DEF T
  <2>2. QED
    BY <1>1, <2>1, SmallestExists
<1>3. m \in Nat /\ ~ \E f : Sums(f, q, items, m)
  OBVIOUS
<1>4. CASE m = 0
  <2>1. Sums([i \in 0..0 |-> 0], q, items, 0)
    BY DEF Sums
  <2>2. QED
    BY <1>3, <1>4, <2>1
<1>5. CASE m # 0
  <2>1. m - 1 \in Nat /\ ~ (m <= m - 1)
    BY <1>3, <1>5
  <2>2. PICK f : Sums(f, q, items, m - 1)
    BY <1>2, <2>1
  <2> DEFINE g == [i \in 0..m |-> IF i = 0 THEN 0 ELSE f[i - 1] + ItemValue(q, items[i])]
  <2>3. ASSUME NEW i \in 0..(m - 1) PROVE g[i] = f[i]
    <3>1. i \in 0..m
      BY <1>3
    <3>2. f[i] = IF i = 0 THEN 0 ELSE f[i - 1] + ItemValue(q, items[i])
      BY <2>2 DEF Sums
    <3>3. QED
      BY <3>1, <3>2
  <2>4. ASSUME NEW i \in 0..m, i # 0 PROVE i - 1 \in 0..(m - 1)
    BY <1>3, <2>4
  <2> HIDE DEF g
  <2>5. g = [i \in 0..m |-> IF i = 0 THEN 0 ELSE g[i - 1] + ItemValue(q, items[i])]
    BY <2>3, <2>4 DEF g
  <2>6. QED
    BY <1>3, <2>5 DEF Sums
<1>6. QED
  BY <1>4, <1>5

(* and only one, as far as the items agree.                                *)
LEMMA SumsAgree ==
  ASSUME NEW q, NEW s, NEW t, NEW f, NEW g, NEW n \in Nat, NEW m \in Nat, NEW k \in Nat,
         Sums(f, q, s, n), Sums(g, q, t, m), k <= n, k <= m,
         \A i \in 1..k : s[i] = t[i]
  PROVE  f[k] = g[k]
<1> DEFINE T == {i \in 0..k : f[i] # g[i]}
<1>1. SUFFICES ASSUME T # {} PROVE FALSE
  OBVIOUS
<1>2. PICK i \in T : \A j \in T : i <= j
  <2> HIDE DEF T
  <2>1. T \subseteq Nat
    BY DEF T
  <2>2. QED
    BY <1>1, <2>1, SmallestExists
<1>3. i \in 0..n /\ i \in 0..m /\ i \in 0..k /\ f[i] # g[i]
  OBVIOUS
<1>4. /\ f[i] = IF i = 0 THEN 0 ELSE f[i - 1] + ItemValue(q, s[i])
      /\ g[i] = IF i = 0 THEN 0 ELSE g[i - 1] + ItemValue(q, t[i])
  BY <1>3 DEF Sums
<1>5. CASE i = 0
  BY <1>3, <1>4, <1>5
<1>6. CASE i # 0
  <2>1. i - 1 \in 0..k /\ ~ (i <= i - 1) /\ i \in 1..k
    BY <1>3, <1>6
  <2>2. i - 1 \notin T
    BY <1>2, <2>1
  <2>3. f[i - 1] = g[i - 1]
    BY <2>1, <2>2
  <2>4. QED
    BY <1>3, <1>4, <1>6, <2>1, <2>3
<1>7. QED
  BY <1>5, <1>6

(* One item more.                                                          *)
LEMMA SumStep ==
  ASSUME NEW q, NEW items, NEW n \in Nat
  PROVE  /\ BytesOfFirst(q, items, 0) = 0
         /\ BytesOfFirst(q, items, n + 1)
              = BytesOfFirst(q, items, n) + ItemValue(q, items[n + 1])
<1> DEFINE f == CHOOSE f : Sums(f, q, items, n)
           g == CHOOSE g : Sums(g, q, items, n + 1)
           h == CHOOSE h : Sums(h, q, items, 0)
<1>1. Sums(f, q, items, n) /\ Sums(g, q, items, n + 1) /\ Sums(h, q, items, 0)
  BY SumsExist
<1>2. /\ BytesOfFirst(q, items, n) = f[n] /\ BytesOfFirst(q, items, n + 1) = g[n + 1]
      /\ BytesOfFirst(q, items, 0) = h[0]
  BY SumIs
<1> HIDE DEF f, g, h
<1>3. f[n] = g[n]
  <2>1. n <= n /\ n <= n + 1 /\ n + 1 \in Nat
    OBVIOUS
  <2>2. QED
    BY <1>1, <2>1, SumsAgree
<1>4. n + 1 \in 0..(n + 1) /\ n + 1 # 0 /\ (n + 1) - 1 = n
  OBVIOUS
<1>5. g[n + 1] = g[n] + ItemValue(q, items[n + 1])
  BY <1>1, <1>4 DEF Sums
<1>6. h[0] = 0
  BY <1>1 DEF Sums
<1>7. QED
  BY <1>2, <1>3, <1>5, <1>6

(* The bytes depend on the items that are counted only.                    *)
LEMMA SumSame ==
  ASSUME NEW q, NEW s, NEW t, NEW n \in Nat, \A i \in 1..n : s[i] = t[i]
  PROVE  BytesOfFirst(q, s, n) = BytesOfFirst(q, t, n)
<1> DEFINE f == CHOOSE f : Sums(f, q, s, n)
           g == CHOOSE g : Sums(g, q, t, n)
<1>1. Sums(f, q, s, n) /\ Sums(g, q, t, n)
  BY SumsExist
<1>2. BytesOfFirst(q, s, n) = f[n] /\ BytesOfFirst(q, t, n) = g[n]
  BY SumIs
<1> HIDE DEF f, g
<1>3. n <= n
  OBVIOUS
<1>4. f[n] = g[n]
  BY <1>1, <1>3, SumsAgree
<1>5. QED
  BY <1>2, <1>4

(* No item has a negative size.                                            *)
LEMMA ItemValueNat ==
  ASSUME NEW q \in Queues, NEW item \in Chunks \cup {Terminator}
  PROVE  ItemValue(q, item) \in Nat
BY PipelineAssumption DEF ItemValue, Queues, Terminator

(* Nor have any together.                                                  *)
LEMMA SumNat ==
  ASSUME NEW q \in Queues, NEW s \in Seq(Items), NEW n \in 0..Len(s)
  PROVE  BytesOfFirst(q, s, n) \in Nat
<1> DEFINE T == {i \in 0..Len(s) : BytesOfFirst(q, s, i) \notin Nat}
<1>1. SUFFICES ASSUME T # {} PROVE FALSE
  OBVIOUS
<1>2. PICK i \in T : \A j \in T : i <= j
  <2> HIDE DEF T
  <2>1. T \subseteq Nat
    BY DEF T
  <2>2. QED
    BY <1>1, <2>1, SmallestExists
<1>3. i \in 0..Len(s) /\ BytesOfFirst(q, s, i) \notin Nat /\ Len(s) \in Nat
  OBVIOUS
<1>4. i # 0
  <2>1. 0 \in Nat /\ BytesOfFirst(q, s, 0) = 0
    BY SumStep
  <2>2. QED
    BY <1>3, <2>1
<1>5. i - 1 \in 0..Len(s) /\ ~ (i <= i - 1) /\ i - 1 \in Nat /\ (i - 1) + 1 = i
      /\ i \in 1..Len(s)
  BY <1>3, <1>4
<1>6. BytesOfFirst(q, s, i - 1) \in Nat
  BY <1>2, <1>5
<1>7. BytesOfFirst(q, s, i) = BytesOfFirst(q, s, i - 1) + ItemValue(q, s[i])
  <2>1. BytesOfFirst(q, s, (i - 1) + 1)
          = BytesOfFirst(q, s, i - 1) + ItemValue(q, s[(i - 1) + 1])
    BY <1>5, SumStep
  <2>2. QED
    BY <1>5, <2>1
<1>8. ItemValue(q, s[i]) \in Nat
  <2>1. s[i] \in Items
    BY <1>5
  <2>2. QED
    BY <2>1, ItemValueNat DEF Items
<1>9. QED
  BY <1>3, <1>6, <1>7, <1>8

(* Without the first item.                                                 *)
LEMMA SumTail ==
  ASSUME NEW q \in Queues, NEW s \in Seq(Items), s # <<>>, NEW n \in 0..(Len(s) - 1)
  PROVE  BytesOfFirst(q, s, n + 1) = ItemValue(q, s[1]) + BytesOfFirst(q, Tail(s), n)
<1> DEFINE t == Tail(s)
           T == {i \in 0..(Len(s) - 1) :
                   BytesOfFirst(q, s, i + 1) # ItemValue(q, s[1]) + BytesOfFirst(q, t, i)}
<1>1. /\ t \in Seq(Items) /\ Len(t) = Len(s) - 1 /\ Len(s) \in Nat
      /\ \A i \in 1..(Len(s) - 1) : t[i] = s[i + 1]
      /\ s[1] \in Items /\ \A i \in 1..Len(s) : s[i] \in Items
  OBVIOUS
<1> HIDE DEF t
<1>2. SUFFICES ASSUME T # {} PROVE FALSE
  BY DEF t
<1>3. PICK i \in T : \A j \in T : i <= j
  <2> HIDE DEF T
  <2>1. T \subseteq Nat
    BY <1>1 DEF T
  <2>2. QED
    BY <1>2, <2>1, SmallestExists
<1>4. /\ i \in 0..(Len(s) - 1)
      /\ BytesOfFirst(q, s, i + 1) # ItemValue(q, s[1]) + BytesOfFirst(q, t, i)
  OBVIOUS
<1>5. CASE i = 0
  <2>1. BytesOfFirst(q, s, 0 + 1) = BytesOfFirst(q, s, 0) + ItemValue(q, s[0 + 1])
        /\ BytesOfFirst(q, s, 0) = 0 /\ BytesOfFirst(q, t, 0) = 0
    BY SumStep
  <2>2. ItemValue(q, s[1]) \in Nat
    BY <1>1, ItemValueNat DEF Items
  <2>3. QED
    BY <1>4, <1>5, <2>1, <2>2
<1>6. CASE i # 0
  <2>1. /\ i - 1 \in 0..(Len(s) - 1) /\ ~ (i <= i - 1) /\ i - 1 \in Nat /\ i \in Nat
        /\ (i - 1) + 1 = i /\ i \in 1..(Len(s) - 1) /\ i + 1 \in 1..Len(s)
        /\ i \in 0..Len(s) /\ i - 1 \in 0..Len(t)
    BY <1>1, <1>4, <1>6
  <2>2. BytesOfFirst(q, s, i) = ItemValue(q, s[1]) + BytesOfFirst(q, t, i - 1)
    <3>1. i - 1 \notin T
      BY <1>3, <2>1
    <3>2. QED
      BY <2>1, <3>1
  <2>3. BytesOfFirst(q, s, i + 1) = BytesOfFirst(q, s, i) + ItemValue(q, s[i + 1])
    BY <2>1, SumStep
  <2>4. BytesOfFirst(q, t, i) = BytesOfFirst(q, t, i - 1) + ItemValue(q, t[i])
    <3>1. BytesOfFirst(q, t, (i - 1) + 1)
            = BytesOfFirst(q, t, i - 1) + ItemValue(q, t[(i - 1) + 1])
      BY <2>1, SumStep
    <3>2. QED
      BY <2>1, <3>1
  <2>5. t[i] = s[i + 1] /\ s[i + 1] \in Items
    BY <1>1, <2>1
  <2>6. /\ ItemValue(q, s[1]) \in Nat /\ ItemValue(q, s[i + 1]) \in Nat
        /\ BytesOfFirst(q, t, i - 1) \in Nat
    BY <1>1, <2>1, <2>5, ItemValueNat, SumNat DEF Items
  <2>7. QED
    BY <1>4, <2>2, <2>3, <2>4, <2>5, <2>6
<1>7. QED
  BY <1>5, <1>6

-----------------------------------------------------------------------------
(* The bound                                                               *)

BoundOf(q) ==
  /\ ~poisoned[q] => pendingItemValue[q] = BytesOfFirst(q, queue[q], Len(queue[q]))
  /\ queue[q] # <<>> => BytesOfFirst(q, queue[q], Len(queue[q]) - 1) <= Limit(q)

(* Until a queue is poisoned, what counts as pending is what is in it.     *)
BoundInv == \A q \in Queues : BoundOf(q)

(* A limit is a number.                                                    *)
LEMMA LimitNat == ASSUME NEW q PROVE Limit(q) \in Nat
BY PipelineAssumption DEF Limit

(* There was space, or the producer was not let through.                   *)
LEMMA InsertBound ==
  ASSUME TypeOK, BoundInv, NEW t \in Threads, NEW q \in Queues, NEW item \in Items,
         InsertItem(t, q, item)
  PROVE  BoundInv'
<1>1. QueueTypes
  BY TypeParts
<1>2. CASE poisoned[q]
  <2>1. UNCHANGED <<queue, pendingItemValue, poisoned>>
    BY <1>2 DEF InsertItem
  <2>2. QED
    BY <2>1 DEF BoundInv, BoundOf
<1>3. CASE ~poisoned[q]
  <2> DEFINE s == queue[q]
             n == Len(s)
             r == Append(s, item)
  <2>1. /\ poisoned' = poisoned /\ queue' = [queue EXCEPT ![q] = r]
        /\ pendingItemValue' = [pendingItemValue EXCEPT ![q] = @ + ItemValue(q, item)]
    BY <1>3 DEF InsertItem
  <2>2. s \in Seq(Items) /\ n \in Nat
    BY <1>1 DEF QueueTypes
  <2>3. /\ r # <<>> /\ Len(r) = n + 1 /\ r[n + 1] = item /\ \A i \in 1..n : s[i] = r[i]
    BY <2>2
  <2>4. /\ queue'[q] = r
        /\ pendingItemValue'[q] = pendingItemValue[q] + ItemValue(q, item)
        /\ \A p \in Queues \ {q} : queue'[p] = queue[p]
                                /\ pendingItemValue'[p] = pendingItemValue[p]
    BY <1>1, <2>1 DEF QueueTypes
  <2>5. /\ pendingItemValue[q] = BytesOfFirst(q, s, n) /\ pendingItemValue[q] \in Int
    BY <1>1, <1>3 DEF BoundInv, BoundOf, QueueTypes
  <2>6. pendingItemValue[q] <= Limit(q)
    <3>1. ~(pendingItemValue[q] >= Limit(q)) \/ ~(pendingItemValue[q] > Limit(q))
      BY <1>3 DEF InsertItem, MustWait
    <3>2. QED
      BY <2>5, <3>1, LimitNat
  <2> HIDE DEF r, n, s
  <2>7. /\ BytesOfFirst(q, r, n) = BytesOfFirst(q, s, n)
        /\ BytesOfFirst(q, r, n + 1) = BytesOfFirst(q, r, n) + ItemValue(q, r[n + 1])
    <3>1. BytesOfFirst(q, r, n) = BytesOfFirst(q, s, n)
      BY <2>2, <2>3, SumSame
    <3>2. BytesOfFirst(q, r, n + 1) = BytesOfFirst(q, r, n) + ItemValue(q, r[n + 1])
      BY <2>2, SumStep
    <3>3. QED
      BY <3>1, <3>2
  <2>8. (n + 1) - 1 = n
    BY <2>2
  <2>9. BoundOf(q)'
    BY <2>1, <2>3, <2>4, <2>5, <2>6, <2>7, <2>8 DEF BoundOf, Limit, ItemValue
  <2>10. ASSUME NEW p \in Queues, p # q PROVE BoundOf(p)'
    BY <2>1, <2>4, <2>10 DEF BoundInv, BoundOf
  <2>11. QED
    BY <2>9, <2>10 DEF BoundInv
<1>4. QED
  BY <1>2, <1>3

(* What is taken out is no longer pending.                                 *)
LEMMA GetBound ==
  ASSUME TypeOK, BoundInv, NEW q \in Queues, NEW item \in Items, GetItem(q, item)
  PROVE  BoundInv'
<1>1. QueueTypes
  BY TypeParts
<1>2. CASE poisoned[q]
  <2>1. UNCHANGED <<queue, pendingItemValue, poisoned>>
    BY <1>2 DEF GetItem
  <2>2. QED
    BY <2>1 DEF BoundInv, BoundOf
<1>3. CASE ~poisoned[q]
  <2> DEFINE s == queue[q]
             n == Len(s)
             r == Tail(s)
             v == ItemValue(q, item)
  <2>1. /\ poisoned' = poisoned /\ queue' = [queue EXCEPT ![q] = r]
        /\ s # <<>> /\ item = Head(s)
        /\ pendingItemValue' = [pendingItemValue EXCEPT ![q] = @ - v]
    BY <1>3 DEF GetItem
  <2>2. s \in Seq(Items) /\ n \in Nat
    BY <1>1 DEF QueueTypes
  <2>3. /\ r \in Seq(Items) /\ Len(r) = n - 1 /\ n >= 1 /\ item = s[1]
    BY <2>1, <2>2
  <2>4. /\ queue'[q] = r
        /\ pendingItemValue'[q] = pendingItemValue[q] - v
        /\ \A p \in Queues \ {q} : queue'[p] = queue[p]
                                /\ pendingItemValue'[p] = pendingItemValue[p]
    BY <1>1, <2>1 DEF QueueTypes
  <2>5. /\ pendingItemValue[q] = BytesOfFirst(q, s, n) /\ pendingItemValue[q] \in Int
        /\ BytesOfFirst(q, s, n - 1) <= Limit(q)
    BY <1>1, <1>3, <2>1 DEF BoundInv, BoundOf, QueueTypes
  <2>6. v \in Nat /\ Limit(q) \in Nat
    BY ItemValueNat, LimitNat DEF Items
  <2> HIDE DEF r, n, s, v
  <2>7. /\ BytesOfFirst(q, s, n) = v + BytesOfFirst(q, r, n - 1)
        /\ BytesOfFirst(q, r, n - 1) \in Nat
    <3>1. n - 1 \in 0..(Len(s) - 1) /\ n - 1 \in 0..Len(r) /\ (n - 1) + 1 = n
      BY <2>2, <2>3 DEF n
    <3>2. BytesOfFirst(q, s, (n - 1) + 1) = v + BytesOfFirst(q, r, n - 1)
      BY <2>1, <2>2, <2>3, <3>1, SumTail DEF r, v
    <3>3. QED
      BY <2>3, <3>1, <3>2, SumNat
  <2>8. ~poisoned'[q] => pendingItemValue'[q] = BytesOfFirst(q, r, Len(r))
    BY <2>3, <2>4, <2>5, <2>6, <2>7
  <2>9. r # <<>> => BytesOfFirst(q, r, Len(r) - 1) <= Limit(q)
    <3> SUFFICES ASSUME r # <<>>
                 PROVE  BytesOfFirst(q, r, n - 2) <= Limit(q)
      <4>1. Len(r) - 1 = n - 2
        BY <2>2, <2>3
      <4>2. QED
        BY <4>1
    <3>1. Len(r) >= 1 /\ Len(r) \in Nat
      BY <2>3
    <3>2. n - 2 \in 0..(Len(s) - 1) /\ n - 2 \in 0..Len(r) /\ (n - 2) + 1 = n - 1
      BY <2>2, <2>3, <3>1 DEF n
    <3>3. BytesOfFirst(q, s, (n - 2) + 1) = v + BytesOfFirst(q, r, n - 2)
      BY <2>1, <2>2, <2>3, <3>2, SumTail DEF r, v
    <3>4. BytesOfFirst(q, r, n - 2) \in Nat
      BY <2>3, <3>2, SumNat
    <3>5. QED
      BY <2>5, <2>6, <3>2, <3>3, <3>4
  <2>10. BoundOf(q)'
    BY <2>4, <2>8, <2>9 DEF BoundOf, Limit
  <2>11. ASSUME NEW p \in Queues, p # q PROVE BoundOf(p)'
    BY <2>1, <2>4, <2>11 DEF BoundInv, BoundOf
  <2>12. QED
    BY <2>10, <2>11 DEF BoundInv
<1>4. QED
  BY <1>2, <1>3

(* Nothing is pending in a poisoned queue, and nobody waits for space.     *)
LEMMA PoisonBound ==
  ASSUME TypeOK, BoundInv, NEW q \in Queues, Poison(q)
  PROVE  BoundInv'
<1>1. /\ queue' = queue /\ poisoned'[q]
      /\ \A p \in Queues \ {q} : poisoned'[p] = poisoned[p]
                              /\ pendingItemValue'[p] = pendingItemValue[p]
  BY DEF Poison, TypeOK
<1>2. ASSUME NEW p \in Queues PROVE BoundOf(p)'
  BY <1>1 DEF BoundInv, BoundOf
<1>3. QED
  BY <1>2 DEF BoundInv

(* Other steps leave queues alone.                                         *)
LEMMA SameBound ==
  ASSUME BoundInv, UNCHANGED <<queue, pendingItemValue, poisoned>>
  PROVE  BoundInv'
BY DEF BoundInv, BoundOf

(* Queues are empty at first.                                              *)
LEMMA InitBound == Init => BoundInv
<1> SUFFICES ASSUME Init, NEW q \in Queues PROVE BoundOf(q)
  BY DEF BoundInv
<1>1. queue[q] = <<>> /\ pendingItemValue[q] = 0
  BY DEF Init
<1>2. BytesOfFirst(q, <<>>, 0) = 0
  BY SumStep
<1>3. Len(queue[q]) = 0
  BY <1>1
<1>4. QED
  BY <1>1, <1>2, <1>3 DEF BoundOf

(* Every step keeps the bound.                                             *)
LEMMA NextBound == IInv /\ BoundInv /\ [Next]_vars => BoundInv'
<1> SUFFICES ASSUME IInv, BoundInv, [Next]_vars PROVE BoundInv'
  OBVIOUS
<1>1. TypeOK /\ Terminator \in Items
  BY DEF IInv, Items
<1>2. ASSUME NEW t \in Threads, RegisterException(t)
      PROVE  BoundInv'
  <2>1. CASE SignalError(t) \/ RecordException(t)
    BY <2>1, SameBound DEF SignalError, RecordException, queueVars
  <2>2. CASE PoisonProcessRequests(t) \/ PoisonOutputRequests(t)
    BY <1>1, <2>2, PoisonBound DEF PoisonProcessRequests, PoisonOutputRequests, Queues
  <2>3. QED
    BY <1>2, <2>1, <2>2 DEF RegisterException
<1>3. ASSUME NEW t \in Threads, NEW q \in Queues,
             WaitForSpace(t, q) \/ WaitForItem(t, q)
      PROVE  BoundInv'
  BY <1>3, SameBound DEF WaitForSpace, WaitForItem, InsertWait, GetWait
<1>4. ASSUME NEW t \in Threads, NEW q \in Queues, InsertTerminator(t, q)
      PROVE  BoundInv'
  BY <1>1, <1>4, InsertBound DEF InsertTerminator
<1>5. ASSUME NEW t, NEW q \in Queues, NEW work, TakeRequest(t, q, work)
      PROVE  BoundInv'
  BY <1>1, <1>5, GetBound DEF TakeRequest, Items
<1>6. ASSUME NEW t, CheckSignal(t)
      PROVE  BoundInv'
  BY <1>6, SameBound DEF CheckSignal, queueVars
<1>7. CASE Read
  <2>1. CASE ReadCheck \/ FetchBatch
    BY <2>1, SameBound DEF ReadCheck, FetchBatch, queueVars
  <2>2. CASE InsertSlice
    <3>1. InsertItem("read", "processRequests", chunk["read"] + 1)
      BY <2>2 DEF InsertSlice
    <3>2. chunk["read"] + 1 \in Items
      <4>1. chunk["read"] < ChunkCount
        BY <2>2 DEF InsertSlice, IInv, InHand
      <4>2. chunk["read"] \in Chunks \cup {0} /\ ChunkCount \in Nat
        BY <1>1, PipelineAssumption DEF TypeOK, Threads
      <4>3. QED
        BY <4>1, <4>2 DEF Items, Chunks
    <3>3. QED
      BY <1>1, <3>1, <3>2, InsertBound DEF Threads, Queues
  <2>3. QED
    BY <1>2, <1>3, <1>4, <1>7, <2>1, <2>2 DEF Read, Threads, Queues
<1>8. CASE Process
  <2>1. CASE ProcessChunk
    BY <2>1, SameBound DEF ProcessChunk, queueVars
  <2>2. CASE InsertOutput
    <3>1. InsertItem("process", "outputRequests", chunk["process"])
      BY <2>2 DEF InsertOutput
    <3>2. chunk["process"] \in Items
      BY <1>1 DEF TypeOK, Threads, Items, Terminator
    <3>3. QED
      BY <1>1, <3>1, <3>2, InsertBound DEF Threads, Queues
  <2>3. QED
    BY <1>2, <1>3, <1>4, <1>5, <1>6, <1>8, <2>1, <2>2 DEF Process, Threads, Queues
<1>9. CASE Output
  <2>1. CASE Callback
    BY <2>1, SameBound DEF Callback, queueVars
  <2>2. QED
    BY <1>2, <1>3, <1>5, <1>6, <1>9, <2>1 DEF Output, Threads, Queues
<1>10. CASE Return \/ SpuriousWakeup \/ Finished \/ UNCHANGED vars
  BY <1>10, SameBound DEF Return, SpuriousWakeup, Finished, vars, queueVars
<1>11. QED
  BY <1>7, <1>8, <1>9, <1>10 DEF Next

(* For any sizes and limits a queue holds at most its limit, and one item  *)
(* more: a producer that finds or leaves the queue above it goes to sleep  *)
(* (PackedRepositoryBase.cpp:364-383).                                     *)
THEOREM MemoryBounded == Spec => []OvershootByOneItem
<1>1. BoundInv => OvershootByOneItem
  BY DEF BoundInv, BoundOf, OvershootByOneItem
<1>2. IInv /\ BoundInv /\ [Next]_vars => BoundInv'
  BY NextBound
<1>3. QED
  BY <1>1, <1>2, InitBound, InductiveInvariant, PTL DEF Spec
=============================================================================
