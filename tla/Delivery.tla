------------------------------ MODULE Delivery ------------------------------
(***************************************************************************)
(* What a packed repository promises to the caller of GetContentObjects:  *)
(* the chunks that were requested are handed to the callback one by one,   *)
(* in package order, and none that failed its hash check.  The call ends   *)
(* either complete, or short of a suffix and with an error on record.      *)
(*                                                                         *)
(* Threads, queues, and locks do not appear here: module Pipeline is the   *)
(* implementation.                                                         *)
(***************************************************************************)
EXTENDS Naturals, Sequences

CONSTANT ChunkCount     \* chunks of the requested contents, in package order

Chunks == 1..ChunkCount

VARIABLES
  corrupted,            \* chunks whose stored bytes do not match their hash
  delivered,            \* chunks whose callback returned, in call order
  failed,               \* an error has been recorded
  ended                 \* GetContentObjects has returned

vars == <<corrupted, delivered, failed, ended>>

Init ==
  /\ corrupted \in SUBSET Chunks
  /\ delivered = <<>>
  /\ failed = FALSE
  /\ ended = FALSE

(* The next chunk in order, if it is sound, reaches the callback.          *)
Deliver ==
  LET next == Len(delivered) + 1 IN
  /\ ~ended
  /\ next \in Chunks \ corrupted
  /\ delivered' = Append(delivered, next)
  /\ UNCHANGED <<corrupted, failed, ended>>

(* Something goes wrong while there is still a chunk to deliver.           *)
Fail ==
  /\ ~ended
  /\ Len(delivered) < ChunkCount
  /\ failed' = TRUE
  /\ UNCHANGED <<corrupted, delivered, ended>>

End ==
  /\ ~ended
  /\ failed <=> Len(delivered) < ChunkCount
  /\ ended' = TRUE
  /\ UNCHANGED <<corrupted, delivered, failed>>

Next == Deliver \/ Fail \/ End

Spec == Init /\ [][Next]_vars
=============================================================================
