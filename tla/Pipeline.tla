------------------------------ MODULE Pipeline ------------------------------
(***************************************************************************)
(* The three threads behind PackedRepositoryBase::GetContentObjectsImpl.   *)
(* The read thread slices batches into chunks, the process thread checks   *)
(* and unpacks each chunk, and the output thread calls the callback.  Two  *)
(* ProducerConsumerQueues with a limit on the bytes pending connect them,  *)
(* and one ErrorState stops all three when any of them fails.              *)
(*                                                                         *)
(* A step is one critical section of a queue or of the error state, or one *)
(* access to the atomic error flag.  The notification that follows a       *)
(* critical section belongs to its step: a queue has one producer and one  *)
(* consumer, so a later notification finds the same waiter, or finds none  *)
(* and is lost, and the consumer of a late one sees a spurious wake-up.    *)
(***************************************************************************)
EXTENDS Integers, Sequences

CONSTANTS
  ChunkCount,              \* chunks requested, numbered in package order
  BatchStarts,             \* the chunks that begin a BatchReadRequest
  InputSize,               \* bytes of each chunk in the package
  OutputSize,              \* bytes of each chunk after processing
  MaxPendingProcessSize,   \* limit of processRequestQueue
  MaxPendingOutputSize     \* limit of outputRequestQueue

Chunks == 1..ChunkCount

ASSUME PipelineAssumption ==
  /\ ChunkCount \in Nat
  /\ BatchStarts \subseteq Chunks
  /\ ChunkCount > 0 => 1 \in BatchStarts
  /\ InputSize \in [Chunks -> Nat]
  /\ OutputSize \in [Chunks -> Nat]
  /\ MaxPendingProcessSize \in Nat \ {0}
  /\ MaxPendingOutputSize \in Nat \ {0}

Threads == {"read", "process", "output"}
Queues == {"processRequests", "outputRequests"}

Terminator == 0            \* a default-constructed request: no requestData
NoThread == "none"

VARIABLES
  corrupted,               \* chunks that fail decryption, hash, or unpacking
  pc,                      \* where each thread is
  chunk,                   \* the last chunk each thread took up, 0 before any
  queue,                   \* queue_ of each ProducerConsumerQueue
  pendingItemValue,        \* its pendingItemValue_
  poisoned,                \* its poisoned_
  waiting,                 \* threads asleep on its conditionVariable_
  blocked,                 \* threads inside the wait loop of Insert
  errorOccurred,           \* ErrorState::errorOccurred_
  errorMutex,              \* holder of ErrorState::mutex_
  exception,               \* thread whose exception is in exception_
  delivered,               \* chunks whose callback returned
  result                   \* how GetContentObjects ended

queueVars == <<queue, pendingItemValue, poisoned, waiting, blocked>>
errorVars == <<errorOccurred, errorMutex, exception>>
vars == <<corrupted, pc, chunk, queueVars, errorVars, delivered, result>>

-----------------------------------------------------------------------------
(* ProducerConsumerQueue                                                   *)

Limit(q) == IF q = "processRequests" THEN MaxPendingProcessSize
                                     ELSE MaxPendingOutputSize

(* itemValueFunction_: the terminator carries no bytes.                    *)
ItemValue(q, item) ==
  IF item = Terminator THEN 0
  ELSE IF q = "processRequests" THEN InputSize[item] ELSE OutputSize[item]

Awake(t) == \A q \in Queues : t \notin waiting[q]

NotifyOne(q) ==
  \/ waiting[q] = {} /\ UNCHANGED waiting
  \/ \E t \in waiting[q] : waiting' = [waiting EXCEPT ![q] = @ \ {t}]

Sleep(t, q) == waiting' = [waiting EXCEPT ![q] = @ \cup {t}]

(* Mutant: the wait of Insert tests its condition once, not in a loop.     *)
MutantWaitOnce(t, q) ==
  /\ ~poisoned[q] /\ ~blocked[t]
  /\ pendingItemValue[q] > Limit(q)

(* The first test of Insert lets a queue exactly at its limit pass; the    *)
(* predicate of the wait does not.                                         *)
MustWait(t, q) ==
  /\ ~poisoned[q]
  /\ IF blocked[t] THEN pendingItemValue[q] >= Limit(q)
                   ELSE pendingItemValue[q] > Limit(q)

InsertWait(t, q) ==
  /\ MustWait(t, q)
  /\ blocked' = [blocked EXCEPT ![t] = TRUE]
  /\ Sleep(t, q)
  /\ UNCHANGED <<queue, pendingItemValue, poisoned>>

(* A poisoned queue drops what is inserted.                                *)
InsertItem(t, q, item) ==
  /\ ~MustWait(t, q)
  /\ blocked' = [blocked EXCEPT ![t] = FALSE]
  /\ UNCHANGED poisoned
  /\ IF poisoned[q]
       THEN UNCHANGED <<queue, pendingItemValue, waiting>>
       ELSE /\ queue' = [queue EXCEPT ![q] = Append(@, item)]
            /\ pendingItemValue' =
                 [pendingItemValue EXCEPT ![q] = @ + ItemValue(q, item)]
            /\ NotifyOne(q)

GetWait(t, q) ==
  /\ queue[q] = <<>> /\ ~poisoned[q]
  /\ Sleep(t, q)
  /\ UNCHANGED <<queue, pendingItemValue, poisoned, blocked>>

(* Mutant: Get does not tell the producer that there is space again.       *)
MutantGetSilent(q, item) ==
  /\ UNCHANGED <<poisoned, blocked, waiting>>
  /\ \/ /\ poisoned[q]
        /\ item = Terminator
        /\ UNCHANGED <<queue, pendingItemValue>>
     \/ /\ ~poisoned[q] /\ queue[q] # <<>>
        /\ item = Head(queue[q])
        /\ queue' = [queue EXCEPT ![q] = Tail(@)]
        /\ pendingItemValue' =
             [pendingItemValue EXCEPT ![q] = @ - ItemValue(q, item)]

(* A poisoned queue answers every Get with T{}, the terminator.            *)
GetItem(q, item) ==
  /\ UNCHANGED <<poisoned, blocked>>
  /\ \/ /\ poisoned[q]
        /\ item = Terminator
        /\ UNCHANGED <<queue, pendingItemValue, waiting>>
     \/ /\ ~poisoned[q] /\ queue[q] # <<>>
        /\ item = Head(queue[q])
        /\ queue' = [queue EXCEPT ![q] = Tail(@)]
        /\ pendingItemValue' =
             [pendingItemValue EXCEPT ![q] = @ - ItemValue(q, item)]
        /\ NotifyOne(q)

Poison(q) ==
  /\ poisoned' = [poisoned EXCEPT ![q] = TRUE]
  /\ pendingItemValue' = [pendingItemValue EXCEPT ![q] = 0]
  /\ waiting' = [waiting EXCEPT ![q] = {}]
  /\ UNCHANGED <<queue, blocked>>

-----------------------------------------------------------------------------
(* ErrorState::RegisterException, run by the thread that caught the error. *)

Goto(t, label) == pc' = [pc EXCEPT ![t] = label]

(* Where a thread goes on after its catch block.                           *)
AfterCatch(t) == IF t = "output" THEN "done" ELSE "terminate"

(* Mutant: the flag is left to whoever stores the exception.               *)
MutantSignalNothing(t) ==
  /\ pc[t] = "signal"
  /\ Goto(t, "record")
  /\ UNCHANGED <<corrupted, chunk, queueVars, errorVars, delivered, result>>

SignalError(t) ==
  /\ pc[t] = "signal"
  /\ errorOccurred' = TRUE
  /\ Goto(t, "record")
  /\ UNCHANGED <<corrupted, chunk, queueVars, errorMutex, exception,
                 delivered, result>>

RecordException(t) ==
  /\ pc[t] = "record"
  /\ errorMutex = NoThread
  /\ errorMutex' = t
  /\ exception' = t
  /\ Goto(t, "poisonProcess")
  /\ UNCHANGED <<corrupted, chunk, queueVars, errorOccurred, delivered, result>>

PoisonProcessRequests(t) ==
  /\ pc[t] = "poisonProcess"
  /\ Poison("processRequests")
  /\ Goto(t, "poisonOutput")
  /\ UNCHANGED <<corrupted, chunk, errorVars, delivered, result>>

PoisonOutputRequests(t) ==
  /\ pc[t] = "poisonOutput"
  /\ Poison("outputRequests")
  /\ errorMutex' = NoThread
  /\ Goto(t, AfterCatch(t))
  /\ UNCHANGED <<corrupted, chunk, errorOccurred, exception, delivered, result>>

RegisterException(t) ==
  \/ SignalError(t)
  \/ RecordException(t)
  \/ PoisonProcessRequests(t)
  \/ PoisonOutputRequests(t)

-----------------------------------------------------------------------------
(* The blocked half of a queue operation: the thread goes (back) to sleep. *)

WaitForSpace(t, q) ==
  /\ pc[t] \in {"insert", "terminate"}
  /\ InsertWait(t, q)
  /\ UNCHANGED <<corrupted, pc, chunk, errorVars, delivered, result>>

WaitForItem(t, q) ==
  /\ pc[t] = "get"
  /\ GetWait(t, q)
  /\ UNCHANGED <<corrupted, pc, chunk, errorVars, delivered, result>>

(* Mutant: the loops rely on the poisoned queues alone.                    *)
MutantIgnoreSignal(t) ==
  /\ pc[t] = "check"
  /\ Goto(t, "get")
  /\ UNCHANGED <<corrupted, chunk, queueVars, errorVars, delivered, result>>

(* Head of the loop of the process and output threads.                     *)
CheckSignal(t) ==
  /\ pc[t] = "check"
  /\ Goto(t, IF errorOccurred THEN AfterCatch(t) ELSE "get")
  /\ UNCHANGED <<corrupted, chunk, queueVars, errorVars, delivered, result>>

(* The terminator closes the queue a thread feeds; its loop is over.       *)
InsertTerminator(t, q) ==
  /\ pc[t] = "terminate"
  /\ InsertItem(t, q, Terminator)
  /\ Goto(t, "done")
  /\ UNCHANGED <<corrupted, chunk, errorVars, delivered, result>>

(* Mutant: the request is used without a look at its requestData.          *)
MutantTakeAnything(t, q, work) ==
  /\ pc[t] = "get"
  /\ \E item \in Chunks \cup {Terminator} :
       /\ GetItem(q, item)
       /\ Goto(t, work) /\ chunk' = [chunk EXCEPT ![t] = item]
  /\ UNCHANGED <<corrupted, errorVars, delivered, result>>

(* A thread takes the next request; a request without data ends its loop.  *)
TakeRequest(t, q, work) ==
  /\ pc[t] = "get"
  /\ \E item \in Chunks \cup {Terminator} :
       /\ GetItem(q, item)
       /\ IF item = Terminator
            THEN Goto(t, AfterCatch(t)) /\ UNCHANGED chunk
            ELSE Goto(t, work) /\ chunk' = [chunk EXCEPT ![t] = item]
  /\ UNCHANGED <<corrupted, errorVars, delivered, result>>

-----------------------------------------------------------------------------
(* ReadThread                                                              *)

(* The error flag is looked at between batches only.                       *)
ReadCheck ==
  /\ pc["read"] = "check"
  /\ Goto("read", IF chunk["read"] = ChunkCount \/ errorOccurred
                  THEN "terminate" ELSE "fetch")
  /\ UNCHANGED <<corrupted, chunk, queueVars, errorVars, delivered, result>>

(* Opening the package or reading the batch may throw.                     *)
FetchBatch ==
  /\ pc["read"] = "fetch"
  /\ \/ Goto("read", "insert")
     \/ Goto("read", "signal")
  /\ UNCHANGED <<corrupted, chunk, queueVars, errorVars, delivered, result>>

InsertSlice ==
  LET next == chunk["read"] + 1 IN
  /\ pc["read"] = "insert"
  /\ InsertItem("read", "processRequests", next)
  /\ chunk' = [chunk EXCEPT !["read"] = next]
  /\ Goto("read", IF next = ChunkCount \/ next + 1 \in BatchStarts
                  THEN "check" ELSE "insert")
  /\ UNCHANGED <<corrupted, errorVars, delivered, result>>

Read ==
  /\ Awake("read")
  /\ \/ ReadCheck
     \/ FetchBatch
     \/ InsertSlice
     \/ WaitForSpace("read", "processRequests")
     \/ InsertTerminator("read", "processRequests")
     \/ RegisterException("read")

(* ProcessThread                                                           *)

(* Mutant: the chunk is passed on unchecked.                               *)
MutantUnchecked ==
  /\ pc["process"] = "process"
  /\ Goto("process", "insert")
  /\ UNCHANGED <<corrupted, chunk, queueVars, errorVars, delivered, result>>

(* Mutant: a bad chunk is skipped and the loop goes on.                    *)
MutantSkipBadChunk ==
  /\ pc["process"] = "process"
  /\ Goto("process", IF chunk["process"] \in corrupted
                     THEN "check" ELSE "insert")
  /\ UNCHANGED <<corrupted, chunk, queueVars, errorVars, delivered, result>>

(* Decryption, hash check, and decompression of one chunk.                 *)
ProcessChunk ==
  /\ pc["process"] = "process"
  /\ Goto("process", IF chunk["process"] \in corrupted
                     THEN "signal" ELSE "insert")
  /\ UNCHANGED <<corrupted, chunk, queueVars, errorVars, delivered, result>>

InsertOutput ==
  /\ pc["process"] = "insert"
  /\ InsertItem("process", "outputRequests", chunk["process"])
  /\ Goto("process", "check")
  /\ UNCHANGED <<corrupted, chunk, errorVars, delivered, result>>

Process ==
  /\ Awake("process")
  /\ \/ CheckSignal("process")
     \/ TakeRequest("process", "processRequests", "process")
     \/ WaitForItem("process", "processRequests")
     \/ ProcessChunk
     \/ InsertOutput
     \/ WaitForSpace("process", "outputRequests")
     \/ InsertTerminator("process", "outputRequests")
     \/ RegisterException("process")

(* OutputThread                                                            *)

(* The callback writes files and a database: it may throw.                 *)
Callback ==
  /\ pc["output"] = "callback"
  /\ \/ /\ delivered' = Append(delivered, chunk["output"])
        /\ Goto("output", "check")
     \/ /\ UNCHANGED delivered
        /\ Goto("output", "signal")
  /\ UNCHANGED <<corrupted, chunk, queueVars, errorVars, result>>

Output ==
  /\ Awake("output")
  /\ \/ CheckSignal("output")
     \/ TakeRequest("output", "outputRequests", "callback")
     \/ WaitForItem("output", "outputRequests")
     \/ Callback
     \/ RegisterException("output")

-----------------------------------------------------------------------------
(* RethrowException tests exception_ the wrong way round: it would rethrow *)
(* a null pointer, which is undefined, and passes over a recorded one.     *)
RethrowException == IF exception = NoThread THEN "undefined" ELSE "returned"

(* The caller joins the three threads and looks at the error state.        *)
Return ==
  /\ result = "running"
  /\ \A t \in Threads : pc[t] = "done"
  /\ result' = IF errorOccurred THEN RethrowException ELSE "returned"
  /\ UNCHANGED <<corrupted, pc, chunk, queueVars, errorVars, delivered>>

(* A condition variable may wake a thread for no reason.                   *)
SpuriousWakeup ==
  /\ \E q \in Queues : \E t \in waiting[q] :
       waiting' = [waiting EXCEPT ![q] = @ \ {t}]
  /\ UNCHANGED <<corrupted, pc, chunk, queue, pendingItemValue, poisoned,
                 blocked, errorVars, delivered, result>>

Finished == result # "running" /\ UNCHANGED vars

Init ==
  /\ corrupted \in SUBSET Chunks
  /\ pc = [t \in Threads |-> "check"]
  /\ chunk = [t \in Threads |-> 0]
  /\ queue = [q \in Queues |-> <<>>]
  /\ pendingItemValue = [q \in Queues |-> 0]
  /\ poisoned = [q \in Queues |-> FALSE]
  /\ waiting = [q \in Queues |-> {}]
  /\ blocked = [t \in Threads |-> FALSE]
  /\ errorOccurred = FALSE
  /\ errorMutex = NoThread
  /\ exception = NoThread
  /\ delivered = <<>>
  /\ result = "running"

Next ==
  \/ Read
  \/ Process
  \/ Output
  \/ Return
  \/ SpuriousWakeup
  \/ Finished

Spec == Init /\ [][Next]_vars

(* The operating system runs every runnable thread, and the caller.        *)
Fairness ==
  /\ WF_vars(Read)
  /\ WF_vars(Process)
  /\ WF_vars(Output)
  /\ WF_vars(Return)

FairSpec == Spec /\ Fairness
-----------------------------------------------------------------------------
(* Properties                                                              *)

(* Types of the variables.  In particular the callback gets chunks only,   *)
(* never the terminator that closes a queue.                               *)
Labels == {"check", "fetch", "insert", "get", "process", "callback",
           "terminate", "done",
           "signal", "record", "poisonProcess", "poisonOutput"}

TypeOK ==
  /\ corrupted \in SUBSET Chunks
  /\ pc \in [Threads -> Labels]
  /\ chunk \in [Threads -> Chunks \cup {0}]
  /\ queue \in [Queues -> Seq(Chunks \cup {Terminator})]
  /\ pendingItemValue \in [Queues -> Int]
  /\ poisoned \in [Queues -> BOOLEAN]
  /\ waiting \in [Queues -> SUBSET Threads]
  /\ blocked \in [Threads -> BOOLEAN]
  /\ errorOccurred \in BOOLEAN
  /\ errorMutex \in Threads \cup {NoThread}
  /\ exception \in Threads \cup {NoThread}
  /\ delivered \in Seq(Chunks)
  /\ result \in {"running", "returned", "undefined"}

(* The callback sees the chunks in package order without a gap, whatever   *)
(* fails and whenever the queues are poisoned: file staging in             *)
(* DeployedRepository counts on offsets that only grow.                    *)
DeliveredInOrder == \A i \in DOMAIN delivered : delivered[i] = i

(* No chunk that failed its check reaches the callback, nor one behind it. *)
NothingCorruptDelivered ==
  \A i \in DOMAIN delivered : \A c \in 1..delivered[i] : c \notin corrupted

(* An error stops the transfer promptly: after the flag is up at most one  *)
(* more chunk reaches the callback, however many are queued.               *)
StopsPromptly ==
  \A k \in 0..ChunkCount :
    [](errorOccurred /\ Len(delivered) = k => [](Len(delivered) <= k + 1))

(* The bytes of the first n items of a queue.                              *)
BytesOfFirst(q, items, n) ==
  LET sum[i \in 0..n] == IF i = 0 THEN 0 ELSE sum[i - 1] + ItemValue(q, items[i])
  IN  sum[n]

(* Memory stays bounded: without the item inserted last, a queue holds no  *)
(* more than its limit (PackedRepositoryBase.cpp:364-383).                 *)
OvershootByOneItem ==
  \A q \in Queues :
    queue[q] # <<>> => BytesOfFirst(q, queue[q], Len(queue[q]) - 1) <= Limit(q)

(* GetContentObjects returns: no combination of full queues, empty queues, *)
(* and poisoning leaves a thread asleep for ever.                          *)
Termination == <>(result # "running")

(* The threads and queues implement the promise of module Delivery.        *)
Promise == INSTANCE Delivery
             WITH failed <- errorOccurred, ended <- (result # "running")
DeliveryPromise == Promise!Spec

(* What the tests of damaged packages expect: a transfer that was cut      *)
(* short ends with an exception in the caller.                             *)
FailureReported ==
  result # "running" /\ Len(delivered) < ChunkCount => result # "returned"
=============================================================================
