------------------------------ MODULE Staging ------------------------------
(***************************************************************************)
(* The GetContent phase of DeployedRepository::ConfigureImpl, one callback *)
(* at a time: chunks, in the order of the batches (module Batching), come  *)
(* together in a staging file, which becomes the first file with this      *)
(* content and is copied to the others; a content that arrives whole is    *)
(* written to each.  Rows belong to a transaction, files do not; a crash   *)
(* or a failure may cut an attempt anywhere, and the next Configure goes   *)
(* on with what is there.                                                  *)
(*                                                                         *)
(* Module Deployed has all phases, with a content as one event; here the   *)
(* source stays the same and all its features are wanted.                  *)
(***************************************************************************)
EXTENDS Batching, SequencesExt

CONSTANTS
  Paths,
  TotalSize,               \* bytes of each content
  Targets,                 \* getTargetFilesQuery: the paths with a content, in its order
  TransactionDataSize,
  MaxAttempts              \* bound on the number of Configures

Wanted == {c \in Contents : Targets[c] # <<>>}

NoContent == "none"

Begins(chunk, c) == chunk.content = c /\ chunk.sourceOffset = 0

Completes(chunk) ==
  chunk.sourceOffset + chunk.sourceSize = TotalSize[chunk.content]

Continues(chunk, next) ==
  next.content = chunk.content /\ next.sourceOffset = chunk.sourceOffset + chunk.sourceSize

(* The builder writes one content after the other, and each in one go from *)
(* its first byte to its last; only the chunk of an empty one is empty.    *)
WrittenInOrder(chunks) ==
  /\ chunks # <<>> => chunks[1].sourceOffset = 0
  /\ \A i \in DOMAIN chunks :
       /\ chunks[i].sourceOffset + chunks[i].sourceSize <= TotalSize[chunks[i].content]
       /\ chunks[i].sourceSize = 0 => TotalSize[chunks[i].content] = 0
       /\ IF Completes(chunks[i])
            THEN i + 1 \in DOMAIN chunks => chunks[i + 1].sourceOffset = 0
            ELSE i + 1 \in DOMAIN chunks /\ Continues(chunks[i], chunks[i + 1])

(* fs_chunks: "Any given content can be stored once in a package".         *)
StoredOnce(chunks) ==
  \A i, j \in DOMAIN chunks :
    chunks[i].content = chunks[j].content /\ chunks[i].sourceOffset = chunks[j].sourceOffset
      => i = j

(* The path of a file is its key; what a file consists of is in a package. *)
ASSUME StagingAssumption ==
  /\ NoContent \notin Contents
  /\ TotalSize \in [Contents -> Nat]
  /\ Targets \in [Contents -> Seq(Paths)]
  /\ \A c, d \in Contents : \A i \in DOMAIN Targets[c], j \in DOMAIN Targets[d] :
       Targets[c][i] = Targets[d][j] => c = d /\ i = j
  /\ \A layout \in Layouts :
       /\ \A p \in Packages : WrittenInOrder(layout[p]) /\ StoredOnce(layout[p])
       /\ \A c \in Wanted : \E p \in Packages : \E i \in DOMAIN layout[p] :
            Begins(layout[p][i], c)
  /\ TransactionDataSize \in Nat /\ MaxAttempts \in Nat

Absent == [content |-> NoContent, bytes |-> {}]

NoChunk ==
  [content |-> NoContent, packageOffset |-> 0, packageSize |-> 0,
   sourceOffset |-> 0, sourceSize |-> 0]

VARIABLES
  kind,                    \* the source: a packed repository or a deployed one
  db, saved,               \* k.db as the connection sees it, and as last committed
  disk,                    \* files at their paths
  temporary,               \* files *.kytmp, by content
  stagingFile,             \* the content whose staging file is open
  pc,
  arriving,                \* chunks whose callback is to come
  current,                 \* the chunk in the callback
  staged,                  \* current completes a staging file
  targets,                 \* paths left in the loop over them
  deployedSize,            \* currentTransactionDeployedSize
  attempts,
  ending,                  \* how the last Configure ended
  cuts,                    \* what has cut Configures short so far
  lost                     \* contents of which a write got lost without an error

fileVars == <<disk, temporary, stagingFile>>
dbVars == <<db, saved, deployedSize>>
callVars == <<current, staged, targets>>
historyVars == <<kind, attempts>>
vars ==
  <<planVars, fileVars, dbVars, callVars, historyVars, pc, arriving, ending, cuts, lost>>

-----------------------------------------------------------------------------
Bytes(chunk) == chunk.sourceOffset .. (chunk.sourceOffset + chunk.sourceSize - 1)

AllOf(c) == [content |-> c, bytes |-> 0 .. (TotalSize[c] - 1)]

(* Mutant: a content counts as referenced when all files refer to it.      *)
MutantReferenced == {c \in db.contents : \A p \in DOMAIN db.files : db.files[p] = c}

(* Contents without a file are dropped by the phase before.                *)
Referenced == {c \in db.contents : \E p \in DOMAIN db.files : db.files[p] = c}

Goto(label) == pc' = label

Ends(how) ==
  /\ Goto("idle") /\ ending' = how
  /\ cuts' = cuts \cup ({how} \ {"ok"})
  /\ stagingFile' = NoContent
  /\ arriving' = <<>>
  /\ targets' = <<>> /\ staged' = FALSE

(* Mutant: the last transaction is left to its destructor.                 *)
MutantCommit == saved' = saved /\ UNCHANGED db

Commit == saved' = db /\ UNCHANGED db
Rollback == db' = saved /\ UNCHANGED saved

(* Whether an exception reaches Configure: that of the output thread does  *)
(* not (see Pipeline), and what there is gets committed.                   *)
CommitOrRollback == IF kind = "packed" THEN Commit ELSE Rollback

-----------------------------------------------------------------------------
(* A deployed source hands out whole files in the order it is asked.       *)
WholeFile(c) ==
  [content |-> c, packageOffset |-> 0, packageSize |-> 0,
   sourceOffset |-> 0, sourceSize |-> TotalSize[c]]

Configure ==
  /\ pc = "idle" /\ attempts < MaxAttempts
  /\ attempts' = attempts + 1
  /\ db' = [db EXCEPT !.contents = Referenced] /\ saved' = db'
  /\ deployedSize' = 0
  /\ IF kind = "packed"
       THEN Prepare(Wanted \ Referenced) /\ arriving' = <<>>
       ELSE /\ \E order \in SetToSeqs(Wanted \ Referenced) :
                 arriving' = [i \in DOMAIN order |-> WholeFile(order[i])]
            /\ UNCHANGED planVars
  /\ Goto(IF kind = "packed" THEN "plan" ELSE "transfer")
  /\ UNCHANGED <<fileVars, callVars, kind, ending, cuts, lost>>

Plan ==
  /\ pc = "plan"
  /\ PlanStep
  /\ UNCHANGED <<fileVars, dbVars, callVars, historyVars, pc, arriving, ending, cuts, lost>>

StartThreads ==
  /\ pc = "plan" /\ Planned
  /\ arriving' = FlattenSeq([k \in DOMAIN batchReadRequests |->
                              batchReadRequests[k].requests])
  /\ Goto("transfer")
  /\ UNCHANGED <<planVars, fileVars, dbVars, callVars, historyVars, ending, cuts, lost>>

(* Without the key of an encrypted repository, or when a query fails.      *)
PlanFails ==
  /\ pc = "plan"
  /\ Rollback /\ UNCHANGED deployedSize
  /\ Ends("failure")
  /\ UNCHANGED <<planVars, disk, temporary, current, historyVars, lost>>

-----------------------------------------------------------------------------
(* The callback                                                            *)

(* Mutant: only the offset tells a chunk from a whole content.             *)
MutantWhole(chunk) == chunk.sourceOffset = 0

Whole(chunk) ==
  chunk.sourceOffset = 0 /\ chunk.sourceSize = TotalSize[chunk.content]

Written(file, c, bytes) == [content |-> c, bytes |-> file.bytes \cup bytes]

Losing(c) == lost' = lost \cup {c}

(* The first chunk opens the staging file, which may be left from an       *)
(* earlier attempt; for all others it is open (an assertion).  Neither an  *)
(* open nor a write that fails is reported.                                *)
StageChunk(chunk) ==
  LET c == chunk.content IN
  \/ /\ chunk.sourceOffset = 0 \/ temporary[c] # Absent
     /\ \/ /\ temporary' = [temporary EXCEPT ![c] = Written(@, c, Bytes(chunk))]
           /\ UNCHANGED lost
        \/ temporary' = [temporary EXCEPT ![c] = Written(@, c, {})] /\ Losing(c)
  \/ UNCHANGED temporary /\ Losing(c)

(* The content has arrived.  Whether there is a staging file to close      *)
(* decides how its files are made.                                         *)
Persist(chunk, open) ==
  /\ chunk.content \notin db.contents
  /\ db' = [db EXCEPT !.contents = @ \cup {chunk.content}]
  /\ staged' = (open # NoContent)
  /\ stagingFile' = NoContent
  /\ targets' = Targets[chunk.content]
  /\ Goto("targets")

(* assert (stagingFile), assert (hash == stagingFileHash)                  *)
Stray(chunk) == chunk.sourceOffset # 0 /\ stagingFile # chunk.content

Receive ==
  LET chunk == Head(arriving)
      open == IF Whole(chunk) THEN stagingFile ELSE chunk.content
  IN
  /\ pc = "transfer" /\ arriving # <<>>
  /\ ~Stray(chunk)
  /\ current' = chunk
  /\ IF Whole(chunk) THEN UNCHANGED <<temporary, lost>> ELSE StageChunk(chunk)
  /\ IF Whole(chunk) \/ Completes(chunk)
       THEN Persist(chunk, open)
       ELSE stagingFile' = open /\ UNCHANGED <<db, staged, targets, pc>>
  /\ arriving' = Tail(arriving)
  /\ UNCHANGED <<planVars, disk, saved, deployedSize, historyVars, ending, cuts>>

(* The hash of a content is unique; a second one ends the transfer and,    *)
(* in the destructor of the statement, the process.                        *)
ReceiveTwice ==
  LET chunk == Head(arriving) IN
  /\ pc = "transfer" /\ arriving # <<>>
  /\ Whole(chunk) \/ Completes(chunk)
  /\ ~Stray(chunk)
  /\ chunk.content \in db.contents
  /\ CommitOrRollback
  /\ Ends("duplicate")
  /\ UNCHANGED <<planVars, disk, temporary, deployedSize, current, historyVars, lost>>

First == Len(targets) = Len(Targets[current.content])

(* What is made of a staging file: itself renamed, then copies of the file *)
(* before.                                                                 *)
StagedFile ==
  LET c == current.content IN
  IF First THEN temporary[c] ELSE disk[Targets[c][Len(Targets[c]) - Len(targets)]]

(* Renaming a staging file that could not be opened throws: TransferFails. *)
PlaceStaged(p) ==
  /\ staged
  /\ First => temporary[current.content] # Absent
  /\ disk' = [disk EXCEPT ![p] = StagedFile]
  /\ temporary' = IF First THEN [temporary EXCEPT ![current.content] = Absent]
                            ELSE temporary
  /\ UNCHANGED lost

(* The content is in memory; again no failure is reported.                 *)
WriteFile(p) ==
  LET c == current.content IN
  /\ ~staged
  /\ \/ /\ disk' = [disk EXCEPT ![p] = Written(@, c, Bytes(current))]
        /\ UNCHANGED lost
     \/ disk' = [disk EXCEPT ![p] = Written(@, c, {})] /\ Losing(c)
     \/ UNCHANGED disk /\ Losing(c)
  /\ UNCHANGED temporary

(* copy_file does not replace a file.                                      *)
InTheWay(p) == staged /\ ~First /\ disk[p] # Absent

WriteTarget ==
  LET p == Head(targets) IN
  /\ pc = "targets" /\ targets # <<>>
  /\ ~InTheWay(p)
  /\ PlaceStaged(p) \/ WriteFile(p)
  /\ db' = [db EXCEPT !.files =
              [q \in DOMAIN @ \cup {p} |-> IF q = p THEN current.content ELSE @[q]]]
  /\ targets' = Tail(targets)
  /\ UNCHANGED <<planVars, saved, deployedSize, stagingFile, current, staged,
                 historyVars, pc, arriving, ending, cuts>>

CopyBlocked ==
  /\ pc = "targets" /\ targets # <<>>
  /\ InTheWay(Head(targets))
  /\ CommitOrRollback
  /\ Ends("blocked")
  /\ UNCHANGED <<planVars, disk, temporary, deployedSize, current, historyVars, lost>>

(* Past the limit there is a commit.                                       *)
Count(size) ==
  IF size > TransactionDataSize
    THEN Commit /\ deployedSize' = 0
    ELSE UNCHANGED <<db, saved>> /\ deployedSize' = size

(* Only the chunk that came last is counted.                               *)
CallbackReturns ==
  /\ pc = "targets" /\ targets = <<>>
  /\ Count(deployedSize + current.sourceSize)
  /\ Goto("transfer")
  /\ UNCHANGED <<planVars, fileVars, callVars, historyVars, arriving, ending, cuts, lost>>

(* A file that was being written or copied may be there in part.           *)
WrittenInPart ==
  \/ UNCHANGED disk
  \/ /\ pc = "targets" /\ targets # <<>>
     /\ ~(staged /\ First) /\ ~InTheWay(Head(targets))
     /\ disk' = [disk EXCEPT ![Head(targets)] =
                   [content |-> current.content, bytes |-> {}]]

(* A read, a check or the callback throws, as the rename of a staging file *)
(* that is not there does.                                                 *)
TransferFails ==
  /\ pc \in {"transfer", "targets"}
  /\ WrittenInPart
  /\ CommitOrRollback /\ UNCHANGED deployedSize
  /\ Ends("failure")
  /\ UNCHANGED <<planVars, temporary, current, historyVars, lost>>

TransferEnds ==
  /\ pc = "transfer" /\ arriving = <<>>
  /\ Commit /\ UNCHANGED deployedSize
  /\ Ends("ok")
  /\ UNCHANGED <<planVars, disk, temporary, current, historyVars, lost>>

Crash ==
  /\ pc # "idle"
  /\ WrittenInPart
  /\ Rollback /\ UNCHANGED deployedSize
  /\ Ends("crash")
  /\ UNCHANGED <<planVars, temporary, current, historyVars, lost>>

Finished == pc = "idle" /\ attempts = MaxAttempts /\ UNCHANGED vars

Empty == [contents |-> {}, files |-> [p \in {} |-> NoContent]]

Init ==
  /\ PlanInit
  /\ kind \in {"packed", "deployed"}
  /\ db = Empty /\ saved = Empty /\ deployedSize = 0
  /\ disk = [p \in Paths |-> Absent]
  /\ temporary = [c \in Contents |-> Absent]
  /\ stagingFile = NoContent
  /\ pc = "idle" /\ arriving = <<>>
  /\ current = NoChunk /\ staged = FALSE /\ targets = <<>>
  /\ attempts = 0 /\ ending = "none" /\ cuts = {} /\ lost = {}

Work ==
  \/ Plan \/ StartThreads
  \/ Receive \/ ReceiveTwice
  \/ WriteTarget \/ CopyBlocked \/ CallbackReturns \/ TransferEnds

Next == Configure \/ Work \/ PlanFails \/ TransferFails \/ Crash \/ Finished

Spec == Init /\ [][Next]_vars

-----------------------------------------------------------------------------
(***************************************************************************)
(* A file in the database has its content in the table, and is on disk     *)
(* with every byte of it, in whatever pieces it came, and whatever was cut *)
(* short before (DeployedRepository.cpp:695-809); unless an open or a      *)
(* write of this content failed, which is not noticed (FileIO.cpp:80,141). *)
(***************************************************************************)
RecordedFilesWhole ==
  \A d \in {db, saved} : \A p \in DOMAIN d.files :
    /\ d.files[p] \in d.contents
    /\ d.files[p] \in lost \/ disk[p] = AllOf(d.files[p])

(***************************************************************************)
(* There is one handle for staging files.  The chunks of a content follow  *)
(* each other although contents without bytes share the offset of their    *)
(* neighbour, so the assertions hold (DeployedRepository.cpp:715-716), no  *)
(* content that arrives whole is taken for a staged one (:759), and what   *)
(* is renamed is complete if no write to it got lost.                      *)
(***************************************************************************)
StagedAlone ==
  /\ pc = "transfer" /\ arriving # <<>> => ~Stray(Head(arriving))
  /\ pc = "targets" => (staged <=> ~Whole(current))
  /\ pc = "targets" /\ staged /\ First /\ current.content \notin lost
       => temporary[current.content] = AllOf(current.content)

InTwoPackages(c) ==
  \E p, q \in Packages : p # q /\ Holds(p, {c}) # {} /\ Holds(q, {c}) # {}

(***************************************************************************)
(* A source that keeps a content in two packages has it delivered twice,   *)
(* which ends the process (PackedRepositoryBase.cpp:763, schema:           *)
(* fs_contents.Hash UNIQUE); no other source does.  A file in the way of a *)
(* copy is always the trace of an attempt that was cut short               *)
(* (DeployedRepository.cpp:785).                                           *)
(***************************************************************************)
CutsExplained ==
  /\ "duplicate" \in cuts => kind = "packed" /\ \E c \in Wanted : InTwoPackages(c)
  /\ "blocked" \in cuts => kind = "packed" /\ cuts \cap {"crash", "failure"} # {}

(***************************************************************************)
(* When the phase ends by itself, every wanted file is in the database,    *)
(* also after crashes: unless an earlier attempt was left by an exception  *)
(* that got lost on its way, with the content saved and some of its files  *)
(* not (DeployedRepository.cpp:733-749, :828).                             *)
(***************************************************************************)
CrashesHeal ==
  (pc = "idle" /\ ending = "ok" /\ (kind = "packed" => cuts \cap {"failure", "blocked"} = {}))
    => \A c \in Wanted : \A i \in DOMAIN Targets[c] : Targets[c][i] \in DOMAIN saved.files

=============================================================================
