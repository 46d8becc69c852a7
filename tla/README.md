# kyla, specified

kyla is an installer: a *builder* packs files into a *packed repository* (a SQLite
database and package files), and the installer brings a directory, a *deployed
repository*, to the features a user selects, from a packed repository on disk or on a
web server.  This directory holds TLA+ specifications of its core, the TLC
configurations that check them, and proofs for TLAPS.

    tlc -config pipeline.cfg MCPipeline      model-check one configuration
    tlapm DeployedProofs.tla                 check the proofs of a module

Paths below are relative to the repository; `base/` stands for `src/base/src/`.

## Inventory

| Component | State | Operations | Interacts with |
|---|---|---|---|
| Content transfer, `base/PackedRepositoryBase.cpp` 223-897 | two queues with pending bytes, error flag and exception, three threads | read batch, process chunk, callback, poison, rethrow | calls the callback of its caller from the output thread; reads packages |
| Packed verification, same file 900-989 | none | Repair (verify only) | database |
| Configure, `base/DeployedRepository.cpp` 202-1215 | `k.db` (features, contents, files), files on disk, temporary tables, attached source database | CreateFrom, Configure in seven phases, each simulated and executed | pulls contents from the source; SQL transactions; file system |
| Repair and Verify, same file 48-202 | reads `k.db` and files | Repair, Verify, GetContentObjects | source repository |
| SQL wrapper, `base/sql/Database.cpp` | connection, transactions, statements, attached databases | Execute, Step, Begin, Commit, Rollback | SQLite |
| Schema, `src/sql/install-db-structure.sql` | tables, keys, the reference count view | | every repository |
| File I/O, `base/FileIO.cpp` | descriptors | Create, Open, Write, Map, Stat | operating system |
| Package access, `base/PackedRepository.cpp`, `WebRepository.cpp` | open file or HTTP session | read at offset | content transfer |
| Repository interface, `base/Repository.cpp`, `BaseRepository.cpp` | progress counter | open, query features | C API |
| C API, `src/kyla/src/Kyla.cpp` | handles, options, callbacks | open, close, query, execute | clients |
| Builder, `src/build/src/RepositoryBuilder.cpp` | files, groups, features, packages, chunks | parse, hash, link, write packages | schema |
| Setup UI, `src/ui` | feature tree, required space, worker threads | select, install, progress | C API |
| CLI, `src/cli/src/main.cpp` | handles of one command, exit code | install, configure, validate, repair, query | C API |
| Python generator, test runner, `txttoheader` | none worth a model | | |

What is hard in this program:

* *Concurrency.*  Three threads, two bounded queues with one condition variable each,
  and an error that must stop all of them.  In the setup program a GUI thread and two
  workers that share an installer without a lock.  Other processes that change the files
  a Verify looks at.
* *Crashes and partial failure.*  Configure changes two stores, a database and a
  directory, and only one has transactions; some statements commit on their own.
* *Errors across layers.*  An exception in a thread, in a callback, in a destructor.
* *Sequences.*  Configure is run again and again, by different versions of a program,
  over whatever the previous run left.
* *Boundaries.*  Limits of queues and batches, gaps between chunks, empty and shared contents.

`PROJECT.json` lists each hazard at its line with the properties that cover it.

What makes each component correct:

* Transfer: chunks arrive in order, sound, without a gap; it ends; it stops after an
  error; memory is bounded; the caller learns of the error.
* Configure: references in the database resolve at all times; a tracked file exists and
  has its content; success means that every requested content has arrived; it ends; the next
  one can go on after a crash.
* Repair: what is broken is found, and restored.
* C API: a call gets the repository it needs, or an error; a source is never written; a
  success can be relied on.
* Builder: every file of the database is in one package, nothing is left out, and a content is
  stored twice only where the description asks for it.
* UI: calls do not overlap, objects outlive their threads, whoever leaves sees the program
  end; the space shown is that of the selected features, which have their parents.

## Modules

| Module | Models |
|---|---|
| `Delivery` | the promise of `GetContentObjects`, without threads |
| `Pipeline` | its implementation by three threads and two queues |
| `MCPipeline` | the instance for TLC |
| `PipelineProofs` | theorems about `Pipeline` |
| `Deployed` | Configure over a database, a disk and crashes |
| `MCDeployed` | two families of small installers for TLC |
| `DeployedProofs` | theorems about `Deployed` |
| `Builder` | from a description to packages and the database of a packed repository |
| `MCBuilder` | the descriptions with two files, a group, two features and two packages |
| `BuilderProofs` | theorems about `Builder` |
| `Batching` | which packages and chunks a transfer reads, and how they form batches |
| `BatchingProofs` | theorems about `Batching` |
| `Staging` | the GetContent phase, chunk by chunk, over the reads `Batching` plans |
| `MCStaging` | packages with a content of three chunks, one of one, an empty one, one nobody wants |
| `StagingProofs` | `Staging` implements `Batching`, what follows, and theorems about the bytes that arrive |
| `Repair` | Verify and Repair of a deployed repository, file by file |
| `MCRepair` | databases of two and three files |
| `RepairProofs` | theorems about `Repair` |
| `InstallerApi` | the C API: handles, options, and the outcome of each call |
| `Cli` | the command line client, a program of API calls per command |
| `MCCli` | two handles, a packed and an empty directory |
| `CliProofs` | theorems about `InstallerApi` under its clients |
| `Setup` | the setup program, three threads and a feature tree, on `InstallerApi` |
| `MCSetup` | a tree of four features |
| `SetupProofs` | theorems about the threads and the tree of `Setup`, and that its calls are those of `InstallerApi` |

    Batching <- Staging        Pipeline: any partition into batches -> Delivery
    InstallerApi <- Cli, Setup        Deployed, Repair: what Execute does inside

### Pipeline and Delivery

A step of `Pipeline` is a critical section of a queue or of the error state, or an
access to the atomic error flag; `pc` says where in its loop each thread is.

| Code | Model |
|---|---|
| `ProducerConsumerQueue::Insert`, `Get`, `Poison` | `InsertWait`/`InsertItem`, `GetWait`/`GetItem`, `Poison` |
| `conditionVariable_` | `waiting`: threads asleep; `Sleep`, `NotifyOne`, `SpuriousWakeup` |
| first test and wait predicate of `Insert` (`>`, then `<`) | `blocked`, `MustWait` |
| `ErrorState::RegisterException` | `SignalError`, `RecordException`, `PoisonProcessRequests`, `PoisonOutputRequests` |
| `ReadThread::Run` | `ReadCheck`, `FetchBatch`, `InsertSlice` |
| `ProcessThread::Run` | `CheckSignal`, `TakeRequest`, `ProcessChunk`, `InsertOutput` |
| `OutputThread::Run` | `CheckSignal`, `TakeRequest`, `Callback` |
| end marker inserted at the end of a thread | `InsertTerminator` |
| join, `RethrowException` | `Return` |

Abstractions.  The chunks that fail a check are chosen in `Init`; reading a batch and the
callback may throw at any time.  Batches are any partition of the chunks.  The
notification at the end of `Insert` and `Get` is part of their step: each queue
has one producer and one consumer, so a later notification finds the same sleeper, or
none.  All exceptions derive from `std::exception`, as the catch blocks require.
`RethrowException` tests its pointer the wrong way round; to rethrow a null pointer is
undefined, and the model ends with `result = "undefined"` if it could happen.

`DeliveryPromise` is the refinement: `Pipeline` implements `Delivery` with `failed`
mapped to the error flag and `ended` to the return.  It says that a transfer ends complete,
or short *and* with an error on record.  That the error is lost on its way to the caller is
the violation run `pipeline_error_lost`.

### Deployed

`db` is what a statement of Configure sees, `saved` what was last committed, `disk` the
files.  A statement outside a transaction changes `db` and `saved` (`Autocommit`), one
inside changes `db`, and `CommitTransaction` copies it.  A crash sets `db` back
to `saved`; an exception does the same and leaves the handle in `"failed"`, where the
next Configure fails because the source is still attached (`ConfigureAgain`).

| Code | Model |
|---|---|
| `CreateFrom` | `Init` |
| `ConfigureImpl` until the phases | `Start` |
| simulation of all phases and rollback | `Simulate` |
| `UpdateFeaturesPhase` | `InsertFeatures`, `UpdateParents` |
| `UpdateFeatureIdsForExistingFilesPhase` | `UpdateFileFeatures` |
| `RemoveChangedFilesPhase` | `DropChangedRow`, `RemoveFile`, `ChangedRemoved` |
| `GetContentPhase` | `CreateDirectories`, `ReceiveContent`, `WriteTarget`, `WriteThrows`, `ContentDone`, `TransferEnds` |
| `CopyExistingFilesPhase` | `CopyFile`, `CopyFails`, `NoExemplar`, `CopyDone` |
| `CleanupPhase` | `DropUnusedRow`, `RemoveFile`, `DropFeatures`, `Finish` |
| exception, process death | `Throw`, `Die`, `Crash` |

Abstractions, each allowing at least what the code does:

* A row is named by its Uuid, hash or path; integer ids are left out.  Rows are taken in
  any order, where SQLite has one that the code does not fix.
* A file on disk is the content it begins with and its length, because `CreateFile` does
  not truncate.  A lost write leaves the file as it was; partial writes are left out.
* A content of several chunks (`Staged`) arrives in one event and differs in how it
  reaches its targets: rename and copy instead of a write.  How its chunks come
  together, and leftover `.kytmp` files, are module `Staging`.
* The commit after 4 MiB may come after any content.
* The source is a packed repository whose contents are each in one package.  Its failure
  is not seen by Configure (see `Pipeline`): `TransferEnds` may come at any time.
* A path made of a null pointer (`NoExemplar`) ends the process.
* A destructor that throws while an exception passes ends the process (`Simulate`,
  `InsertConflicts`).
* The file system and the write path are those of the Linux build.
* Not modelled: titles and descriptions, PRAGMA and VACUUM, progress, log, features passed
  twice (the insert throws before anything happens).  Updates of parents are one step.

### Builder

A behaviour is one build.  `document` is the description, `pending` the links that
`RepositoryObjectLinker` has prepared, `referencedFiles` and `packageId` the two ends of the
relation between packages and files.  The database is `packages`, `rows` and `chunks`: each
statement commits on its own, so what has been written stays when a build fails.

| Code | Model |
|---|---|
| `FileTreeWalker`, constructors of `Feature`, `File`, `Package` | `IsDocument`, `Objects`, `Children` |
| `RepositoryObjectLinker::Prepare`, `Link` | `Links`, `LinkPackage` |
| `Repository::CreateFeatures` | `CreateFeatures` |
| `FileStorage::PopulatePackages` | `CreatePackage`, `PackagesCreated`, `PackagesLinked`, `CreateMain`, `TrimPackages` |
| `Package::AddLinkImpl`, `File::OnLinkAddedImpl` | `AddLink` (packages), `LinkFeatures` (features) |
| `FileStorage::Persist` | `StoreFile`, `FilesStored`, `WritePackage`, `Finish` |
| failed statement, whose destructor throws again | `Terminate` |

Abstractions:

* The descriptions are those with different Ids, an Id on every group, and no reference
  given twice.  A reference to something that is not there is skipped (`Objects`), as in the
  code.  The links of a package, and the rows of files, are made in any order.
* `debug` says whether assertions are compiled in; both builds are explored.
* A group inside a group keeps its files to itself, as `FileTreeWalker` adds no child for it;
  hence the one innermost group per file.
* `packages_.back ()` of no packages is undefined (`TrimPackages`), and the model ends there.
* A package is written in one step, as the set of its contents: sizes, offsets, chunks,
  compression and encryption are left out, as are errors of reading the description and the
  files.

`CopiesAreMeant` is what connects the builder with the transfer: a content in two packages is
delivered twice, and its second delivery ends the process that installs it
(`Staging!CutsExplained`).  The builder stores a content twice only for two files that are
alike and that the description puts into different packages; never because a file is reached
by its Id and by its group, or because of the order of the links.  That the rows are ones
`Deployed!IsSource` accepts, each content in fs_contents and each path once, is what the keys
of the schema enforce (`Storable`), so no property repeats it.

### Batching and Staging

| Code | Model |
|---|---|
| `findSourcePackagesQuery`, `contentObjectsInPackageQuery` | `Prepare`, `NextPackage`, `InOrder` |
| `CreateReadRequests`: first request, `slack`, `remainingSize` | `FirstOfBatch`, `Slack`, `Fits`, `Join`, `CloseBatch` |
| start of the threads, queue of batches | `StartThreads` |
| callback: staging file, completion | `StageChunk`, `Completes`, `Receive`, `ReceiveTwice` |
| callback: rename and copy, write, rows | `PlaceStaged`, `WriteFile`, `WriteTarget`, `InTheWay`, `CopyBlocked` |
| open and write that fail without an error | `Written` with no bytes, `Losing` |
| `currentTransactionDeployedSize` | `Count`, `CallbackReturns` |
| `GetContentObjectsImpl` of a deployed source | `WholeFile`, and `Configure` for such a `kind` |
| exception, process death | `TransferFails`, `PlanFails`, `Crash` |

`Staging` adds to `Batching` what happens to the bytes.  A file is the content it has and
the set of its bytes that are there, so that a hole or a lost chunk is seen.  The threads
between the two are left to `Pipeline`, which shows that they change neither order nor
completeness; here a transfer may fail between any two callbacks.  From a packed source the
exception is lost on the way and what there is gets committed (`CommitOrRollback`), from a
deployed one it reaches Configure, which rolls back.

Neither the open of a file nor a write to it reports that it failed (`base/FileIO.cpp`
80-83, 141-146).  So `StageChunk` and `WriteFile` may leave a file as it was, open it and
write nothing, or write; the row is inserted in each case, and `lost` remembers the content.
What the module promises of files holds for contents that are not in `lost`.  A write that is
short counts as one that wrote nothing.  A staging file that was never made is noticed after
all, because its rename throws (`TransferFails`).

Contents without bytes share the offset of their neighbour.  SQLite returns rows with equal
offsets in the order they are stored, which puts the empty content first; the assumption
`InPackageOrder` says so, and in the other order slices would leave the buffer.

### Repair

A step is an access to a file or a call: `Exists`, `Measure` (Stat), `Hash`.  `Change` is
another process.  `seen` records every image a file has had during its turn, which is what
a report can be compared with.  `Damage` and `Report` are the two ends of a turn, `Advance`
the progress with its assertion, `Fetch` and `FetchDies` the call to the source.  The
restoring loop is over a map that is always empty, so `Fetch` changes nothing.  `objects` are
the rows of fs_contents, which the progress counts: the contents of all files, and any that
a Configure that was interrupted or failed has left without a file.

### InstallerApi, Cli, Setup

A call of the API is one action with its possible results.  `disk` tells apart only what
later calls depend on: no database, an empty one, part of a schema (`"partial"`), one that a
Configure was interrupted in or failed on (`"mixed"`), and one whose last Configure ended by
itself (`"clean"`).  The last says nothing of files that got lost.  What a Configure does
between is `Deployed`.  `OpenRepository` may fail at any time; so may every query.

A call ends with a result, or the process ends in it (`fault`): `"null"`, a null repository
is dereferenced; `"assertion"`, the one of a packed repository that is asked to be repaired,
or the one on the progress of Repair and Verify (`Repair!Advance`); `"died"`, the deaths of
`Deployed` (`NoExemplar`, `InsertConflicts`, `Simulate`) in an Install or Configure, and those
of `Repair` (`HashFails`, `FetchDies`); `"crash"`, from outside.  `DiesConfiguring` and
`FilesFault` allow them wherever the databases let the call come so far.  `CleansUp` is when a
Configure comes to its first writes, `PRAGMA journal_mode` and the deletion of unused contents, which
it commits before it attaches the source: from there on the database counts as `"mixed"`,
also if the attachment fails.

| Code | Model |
|---|---|
| `KylaRepositoryImpl` | `handle` |
| `kylaCreateInstaller`, `kylaDestroyInstaller`, callbacks, variables | `CreateInstaller`, `DestroyInstaller`, `SetCallback`, `SetVariable`, `GetVariable` |
| `kylaOpenSourceRepository`, `kylaOpenTargetRepository`, `kylaCloseRepository` | `OpenSource`, `OpenTarget`, `CloseRepository` |
| `kylaGetRepositoryProperty`, `kylaGetFeatureProperty` | `GetProperty` |
| `kylaExecute` | `Execute` with `Install`, `Configure`, `Repair`, `Verify` |
| commands of `main.cpp` (install, configure, repair, validate, query) | `Program` |
| `SetupContext`, `SplashDialog`, `OpenSourceRepositoryThread` | `CreateContext`, `ShowSplash`, `OpenSourceRepository`, `OnRepositoryOpened`, `DestroySplash`, ... |
| `SetupDialog`, `InstallThread` | `FillTree`, `Toggle`, `StartInstallation`, `TryOpen` ... `EmitInstallationFinished`, `DestroyDialog` |
| `OnFeatureSelectionItemChanged` | `stack`, `EnterHandler`, `HandlerChanges`, `LeaveHandler` |

`Cli` also has programs of its own (`OwnCall`): any calls in any order, as the API allows.
`created`, `installed` and `readOnly` are history variables for the properties.  A handle
that has been closed is not used again, and handles of a destroyed installer are not used
with another one: that is the contract of a C API.

In `Setup` the events of the GUI thread are a queue; the close event that ends an event loop
stands behind those that are there.  `Execute` begins when `worker` becomes `"execute"` and
ends with the action, so that a call that is running overlaps with what the others do.

## Runs

| Run | Specification | Shows |
|---|---|---|
| `pipeline` | `FairSpec` | all properties of the transfer: order, soundness, bound on memory, prompt stop, end (hence no lost wake-up), and the refinement of `Delivery` |
| `pipeline_error_lost` | `Spec` | **violated** `FailureReported` |
| `deployed_files` | `FairSpec` | rows have files and files their contents, across crashes and updates; every Configure ends |
| `deployed_database` | `Spec` | types, references, no silent partial install, with lost writes and shared contents |
| `deployed_update` | `CalmSpec` | **violated** `SimulationSurvives` |
| `builder` | `Spec` | every file in one package, "main" exactly the remainder, nothing left out, contents stored twice only where that is meant |
| `staging` | `MCSpec` | reads cover what is sliced and keep their limit; recorded files are whole unless a write got lost; staging files do not mix; what can end a transfer; crashes heal |
| `repair` | `Spec` | reports are true, Verify finds all damage, and what can end the process |
| `repair_restores` | `Spec` | **violated** `RepairRestores` |
| `repair_progress` | `Spec` | **violated** `ProgressWithinTarget` |
| `cli` | `CliSpec` | how calls and commands can end the process, what an exit code says, spoiled handles, and who writes, for all commands and for free programs |
| `setup` | `SetupSpec` | total of the tree, calls do not overlap, threads end first, what is installed, what a report of success says, an end for whoever leaves |

A violated run states what a comment, a document or a test of the repository says and the
code does not do; `PROJECT.json` quotes the line.  `CalmSpec` removes crashes, exceptions
and incomplete transfers, so that its counterexamples are ordinary uses; it turns the
deadlock check off because a Configure that can only fail has no calm step.  `MCSpec` is `Spec`
with one layout of the packages if the source is a deployed one, which has none, and with the
bound `MaxLost`.

Some results are worth a remark.  A failed transfer reports no error, yet
`NoSilentPartialInstall` holds: a Configure that lacks a content does not return success,
because the copy phase looks for an installed file with that content, finds none, and dies
of a null pointer.  The tests of damaged packages still see the install fail, for that reason.
What a failed transfer has committed may be a content with some of its files only; the next
Configure does not ask for the content again and does not notice.  `CrashesHeal` shows that
crashes alone never lead there.

`CutsExplained`: a content that two packages hold is delivered twice, and the second row in
`fs_contents` ends the process; a packed source with overlapping packages cannot be
installed.  A crash between the copies of a staged content and the commit leaves a copy in
the way of every later attempt.

`ProgressWithinTarget`, the assertion of `base/inc/Repository.h:65`, is violated: Verify and
Repair advance by one for each file, and the target is the number of rows of fs_contents
(`base/DeployedRepository.cpp:80-87`).  `DeathsExplained` says when: the assertion fails only if two
files share a content, and in a build with assertions no Verify or Repair gets through a
database with more files than rows.  Between the two lie databases where rows without a file, left
by an interrupted Configure, make up for the files that share.

### Deviations without a run

The modules contain what the code does in these places too; the first seven name the
formula that states what the comment promises.  Put in place of the properties of a
configuration it gives a counterexample: that of `deployed_update`, for `LinkedOnce` that
of `builder`, for the two after it that of `cli`.

* `KeptFilesFollowFeature`: a file that is kept while it moves to another feature does not
  follow it (`base/DeployedRepository.cpp:417`, comment at 412-416).
* `CopiesRecorded`: files copied from an installed content get no row, because the INSERT is
  bound and never stepped (`:990`, comment at 945-950).
* `ParentsResolve`: removing a feature leaves its installed child with a parent that is gone
  (`:1108`, comment at 1071-1072).
* `LeftoversReplaced`: after a crash between a file and its row, the next Configure writes a
  shorter file over the leftover, whose end stays (`base/FileIO.cpp:144`; needs `Spec` and
  `SharedSources`).
* `LinkedOnce`: a file with an Id in a group with an Id, neither in a package, fails an
  assertion of the builder (`RepositoryBuilder.cpp:579`, comment at 1051-1054).
* `ReadOnlyAllowsVerifyOnly`: a target opened with `kylaRepositoryOption_ReadOnly` can be
  installed, configured and repaired, because its handle does not keep the options
  (`src/kyla/src/Kyla.cpp:189-207`, `src/kyla/inc/Kyla.h:259-260`).
* `CreateOverwrites`: a target that is opened with `kylaRepositoryOption_Create` and holds an
  installation is not overwritten; the install opens its database and fails to create the
  tables that are there (`base/DeployedRepository.cpp:1200-1213`, `Kyla.h:106-107`).
  `ExitOkMeansDone` states what the code does: an install that succeeds has begun from nothing.
* `RowsHoldContent` with `SharedSources`: a content that a pending feature shares with
  another one is written over a file of that feature (`base/DeployedRepository.cpp:678`).
* Verify of a packed repository always fails in its first query
  (`base/PackedRepositoryBase.cpp:917`), although `src/doc/source/repository-types.rst` says
  that packed repositories support it (`InstallerApi!Verify`).

### Bounds

* Four chunks in two batches of two, sizes between 0 and 3 and both limits 2: a queue
  is empty, below, exactly at and above its limit, a producer waits with the consumer asleep
  on the other queue, and chunks remain in the read thread, both queues and the output
  thread at once when an error strikes.  Every subset of the chunks may be corrupt.
* Three paths, three contents (one staged), two features, two versions.  In `MCSources`
  a file changes to a content that is already installed, one moves to another feature and
  one changes to a new content; the parent relation changes as well.  In `SharedSources` a
  content passes from one path to another and two features come to share one.  The number
  of Configures, failures and crashes is not bounded: the state space is finite without.
* Two files, one group, at most two packages and two features.  The packages refer to files
  and group in all ways: a file is reached by its own Id, by its group, by both, from one
  package or from two, or not at all; packages come out empty, share a name, or take the name
  "main".  Of features and contents there are three cases each: features that share a file,
  have none, or lack a dependency; contents that coincide, differ, or clash in their path.
* Batches: at most two requested bytes and one of slack, with chunks of 0, 1 and 3 bytes and
  a chunk nobody asked for after the first content: single requests above the limit, exactly at
  it, gaps that are bridged and gaps that are not.  One package in the orders that have the big
  content first or last, or two packages, apart or overlapping.  Writes of one content, any one of
  them, may get lost, any number of times (`MaxLost`); the others are then held to their promise.
* Three Configures (`MaxAttempts`): one that is cut, one over what it left, and one more.
  `TransactionDataSize` of one byte commits after some contents and not after others.
* Two calls and two changes from outside (`MaxCalls`, `MaxChanges`) on databases of two and
  three files, where two share a content: a file can be damaged before its turn, within it,
  and put back.  A second call sees the damage of the first.  A third content may be in
  fs_contents without a file, which is when two files that share a content pass the assertion.
* Two handles are what every command and the setup program use at once, and enough for one
  to be spoiled while another works; a packed directory and one that is empty at first.
* Four features in three levels, one of size zero; two threads are all there are.
* `Size` of `MCDeployed` gives one content twice the length of the others, so that an older file can
  show behind a newer one.

### Fairness

* `Pipeline`: weak fairness of each thread's next step and of the caller.  The operating
  system schedules runnable threads; a thread asleep is not runnable, so nothing assumes
  that a wake-up comes, and none is assumed to be spurious.
* `Deployed`: weak fairness of `Work`, the steps of a Configure that runs.  A start, a
  crash or a reopening is never forced.
* `Setup`: weak fairness of both workers and of what the GUI thread does by itself.  A call
  of `Execute` returns; that it does is `ConfigureEnds`, `Termination`.  The user need never
  do anything, and no crash is assumed away.

## Proofs

For all constants that satisfy the assumptions of the modules (`PipelineAssumption`,
`DeployedAssumption`, `BuilderAssumption`, `ApiAssumption`, `SetupAssumption`,
`BatchingAssumption`, `StagingAssumption`, `RepairAssumption`, which say how constants are
typed, that a source is what the builder writes, that chunks lie one after the other in a
package, and what a description is).  `StagingAssumption` says what `FileStorage::Persist`
makes of a package: its chunks are those of one content after the other, each from its first
byte to its last, a content is in it once, every content that may be wanted is in some package, and
no two files have the same path.  TLC evaluates all of them on the instances.

| Theorem | Says |
|---|---|
| `PipelineProofs!TypeCorrect` | `Spec => []TypeOK` |
| `PipelineProofs!OrderCorrect` | `Spec => []DeliveredInOrder` |
| `PipelineProofs!SoundDelivery` | `Spec => []NothingCorruptDelivered` |
| `PipelineProofs!PromiseKept` | `Spec => DeliveryPromise`: `Pipeline` implements `Delivery` |
| `PipelineProofs!PromptStop` | `Spec => StopsPromptly` |
| `PipelineProofs!MemoryBounded` | `Spec => []OvershootByOneItem` |
| `DeployedProofs!TypeCorrect` | `Spec => []TypeOK` |
| `DeployedProofs!ReferencesCorrect` | `Spec => []ReferencesResolve` |
| `DeployedProofs!FilesPresent` | `Spec => []RowsHaveFiles`, if writes are not lost |
| `DeployedProofs!ContentsPresent` | `Spec => []RowsHoldContent`, if in addition no two features of a source share a content |
| `DeployedProofs!NoPartialInstall` | `Spec => []NoSilentPartialInstall`: no requested content is left over; of rows for the copies it says nothing (`CopiesRecorded`) |
| `BuilderProofs!TypeCorrect` | `Spec => []TypeOK` |
| `BuilderProofs!OnePackageCorrect` | `Spec => []OnePackagePerFile` |
| `BuilderProofs!CopiesCorrect` | `Spec => []CopiesAreMeant` |
| `BuilderProofs!NothingLeftOutCorrect` | `Spec => []NothingLeftOut` |
| `BuilderProofs!MainCorrect` | `Spec => []MainIsRemainder` |
| `StagingProofs!StagingPlans` | `Spec => PlanSpec`: the transfer plans as `Batching` says |
| `StagingProofs!TransferSlices` | `Spec => []SlicesInRange` |
| `StagingProofs!TransferReads` | `Spec => []ReadsBounded` |
| `StagingProofs!TransferCorrect` | `Spec => []TransferInv`, the invariant the next four follow from |
| `StagingProofs!FilesWhole` | `Spec => []RecordedFilesWhole`, for contents of which no write got lost |
| `StagingProofs!StagingSound` | `Spec => []StagedAlone` |
| `StagingProofs!CutsCorrect` | `Spec => []CutsExplained` |
| `StagingProofs!HealCorrect` | `Spec => []CrashesHeal` |
| `RepairProofs!TypeCorrect` | `Spec => []RepairTypeOK` |
| `RepairProofs!ReportsCorrect` | `Spec => []ReportsTrue` |
| `RepairProofs!VerifyCorrect` | `Spec => []VerifyFindsDamage` |
| `RepairProofs!DeathsCorrect` | `Spec => []DeathsExplained` |
| `CliProofs!TypeCorrect` | `Spec => []TypeOK` of `InstallerApi` |
| `CliProofs!FaultsCorrect` | `Spec => []FaultsExplained` |
| `CliProofs!SpoiledCorrect` | `Spec => SpoiledStaysSpoiled` |
| `CliProofs!WritesCorrect` | `Spec => OnlyTargetsWritten` |
| `CliProofs!CliImplementsApi` | `CliSpec => Spec` |
| `CliProofs!CommandFaultsCorrect` | `CliSpec => []CommandFaultsExplained` |
| `CliProofs!ExitCodeCorrect` | `CliSpec => []ExitOkMeansDone` |
| `SetupProofs!OneCallCorrect` | `SetupSpec => []OneCallAtATime` |
| `SetupProofs!ThreadsCorrect` | `SetupSpec => []ThreadsEndFirst` |
| `SetupProofs!SetupImplementsApi` | `SetupSpec => Spec` of `InstallerApi` |
| `SetupProofs!SelectionCorrect` | `SetupSpec => []InstallsWhatIsChecked` |
| `SetupProofs!ReportCorrect` | `SetupSpec => []ReportIsTrue` |
| `SetupProofs!TotalCorrect` | `SetupSpec => []TotalOfChecked` |

*Pipeline.*  `DeliveredInOrder` is not inductive: what the callback sees next depends on
what lies in the queues.  The invariant says that each queue is a run of consecutive
chunks, perhaps closed by the end marker, and that the places meet: the output queue begins
one past the chunk the output thread has, the request queue one past that of the process
thread, and the read thread continues where the request queue ends.  Once a queue
is poisoned or a thread has left its loop the runs need not meet any more, because nothing
more is taken from them; that is where the error handling comes in.  Soundness follows
with the fact that what lies behind `ProcessChunk` is not corrupt.

The refinement of `Delivery` needs the other direction, that nothing is missing when a
transfer ends without an error, and that nothing is complete when it ends with one.  Without
an error an end marker stands behind the last chunk only (`QueuesEnd`), and a thread that has
left its loop has passed everything on (`ThreadsEnd`).  An error leaves the thread it comes from with
a chunk that it never passes on (`CutShort`), and as no thread is ahead of the one before it
(`NobodyAhead`), the callback never gets that chunk; queues are poisoned by errors only
(`ErrorsCut`).  `StopsPromptly` holds because the output thread tests the flag before it takes
the next chunk: once it is set, at most the one in hand is called back (`AtMost`).

The bound on memory: the pending value of a queue that is not poisoned is the sum over its
items (`BoundInv`), `Get` takes from both what `Insert` has added, and `Insert` appends only
below the limit or at it, so everything but the last item fits.

*Deployed.*  References: the invariant holds both of `db` and `saved`, and per phase adds
what the loop variables promise: the targets of a content that is being written are paths
of the source with this content, which is in the table.  The features go last, when no
file names them.  Files: between the deletion of a row and of its file `doomed` is the one
path whose file may go, and it is not tracked; a row enters `saved` only with a commit, and
all rows of `db` have files since each is inserted after its write.
Contents: a target that is already tracked would be written over.  The invariant shows that
there is none: a requested content is in no row yet, its targets have pending features
(this is where nothing may be shared), and a tracked pending path with another content has
been removed before.  With `SharedSources` TLC
finds it violated, so the assumption is needed.
No partial install: `todo` follows the requested contents through the phases (`LackInv`).
Every path of a changed file has been dropped before the transfer; a requested content that
does not come keeps its paths pending, the copy phase meets one of them, and as no row has
the content, the missing exemplar ends the process.  So `todo` is empty when the phase ends.

*Builder.*  That a file has a package and is in it has to be known both ways (`Bond`): only
then is it clear that removing an empty last package leaves no file with its Id.
For `NothingLeftOut` the invariant follows a file through the linker: it is in a package, or a
link to it waits (`PlacedInv`), first for the objects that packages have been assigned, and
from "main" on for all.  A row has a feature, so its file has been referenced by
one (`OwnedInv`) and is one of these; at the end no link waits, and every package has been
written as it then was (`WrittenInv`).
For `MainIsRemainder` the other packages' files are those some package refers to (`NamedInv`);
the links still waiting tell where each file will go (`Destined`), so that "main" takes exactly
what no link of a package has claimed.
`CopiesAreMeant` needs `Bond` and `WrittenInv` together: what lies in a package is the content of a
file that is referenced there, and such a file has no other package, so two packages with the
same content got it from two files.

*Batching, Staging.*  A slice lies in its batch because the requests of a package come in
package order: the next one begins behind the end of the range, so the slack is not
negative and the range only grows.  The invariant (`PlanInv`) keeps this order for the
requests that are left, and that what a batch has read and what remains of both limits add
up.  `Staging` reaches the same states of the plan, by the refinement.

What arrives is followed from the packages to the files.  While batches are made, the
requests of the closed batches, of the open one and those not yet read form one sequence (`Coming`) whose
chunks can be delivered in turn, each content from its first byte to its last, and every
requested content begins in it or in a package still to visit (`ComingInv`).  When the threads
start this becomes `ArrivingInv`: the next chunk begins a content if no staging file is open, and
goes on with the open one otherwise, which already holds all bytes before it.  So a content is
complete when its files are made.  `BytesInv` says that a file has no bytes beyond its content,
`RowsInv` that a row names a file with all of them, `LoopInv` which of the files of the current
content are done.  A content that is in `lost` once stays there; what these say of its bytes
is not claimed then, while the order of its chunks and the rows of its files are not affected.  `CutsInv` and `HealInv` say what an attempt leaves behind that did not end:
files without a row, from a packed source, only after a crash or an error, and a recorded content with some of its
files only after an error that was lost on its way.  `Repeated` are the contents that two packages
hold; they are the exception in each of these, and end in `ReceiveTwice`.

*Repair.*  The reports and the contents on the list are the turns that are over, so that
their numbers and the rows to come add up to the files; as every turn reports or lists one
path and the listing has no path twice, each is reported once.  The image a report is about
is in `seen` when it is made.  Nothing of this holds step by step without the phase: what
has been found out about the current file is tied to `pc`.

*InstallerApi.*  The invariant ties the history variables to the handles: a handle without a
repository has been created and not installed.  That only a directory with a package has a packed repository behind its handle tells the
two assertions apart, and that no handle keeps its options is why every target may write.  The action properties follow by cases over calls, the clients by refinement.  For the commands of the client the invariant (`CommandInv`)
says what is known at each place of its script: between its opening and its use a target is open on
the directory of the command (`TargetOpened`), only Execute changes the database and settles
the exit code of install and configure (`InstallProgress`), and the code of validate is
settled when all calls are made (`ValidateProgress`).

*Setup.*  No lock keeps the threads apart, only what the GUI thread waits for.  The invariant
therefore follows the events: while `opened` waits in the queue its thread has ended
(`OpenerInv`), likewise `finished` (`WorkerInv`), and the GUI thread gets behind the splash
screen and behind the dialog only by such an event or by a destructor that joins the thread.
While a thread installs, the controls stay locked, so it starts once and the directory
does not change; the handles it opens are others than the source, so closing them leaves
the source open (`ObjectsInv`).  That the target directory, the action and the handles are
in range whenever they are used makes every call one of `InstallerApi`.
`InstallsWhatIsChecked` needs the tree: while handlers run, a checked feature may lack its
parent, but only if a frame of `stack` is about to change that (`TreeInv`); when the stack is empty
the selection is closed, and the controls keep it so until the call (`SelectionInv`).  An
"Ok" on its way to the report says that the last Configure of the directory that is shown ended
by itself, for the features that are checked (`OutcomeInv`, `SelectionInv`).
`TotalOfChecked` relates a running sum to a set: between a change of state and the call of the handler
that adds the size, the two differ by one feature, that of the topmost call, as all calls
below it have counted theirs (`SpaceInv`).  The lemmas before it show that the sum over a set is
the size of any of its features and the sum over the others (`SizesTakeAny`), so the order of
clicks does not matter.

Model-checked only: the liveness properties `Termination`, `ConfigureEnds` and `LeavingEnds`,
because liveness under fairness and `ENABLED` are out of the prover's reach; so are the
statements of the violated runs.  Every other property of a passing run is a theorem,
under the conditions the table names.

The provers cannot use induction over data.  Where a theorem needs it, for the chunks of a
sequence of batches, the sum over a queue and the sum over a set of features, the proof takes
a smallest counterexample instead (`WFMin` of the library on natural numbers).  The modules with
theorems have no `RECURSIVE` operator.

## Plan

Done: all modules above, in the order `Pipeline`, `Deployed`, `Builder`, `InstallerApi` with
`Cli` and `Setup`, `Batching` with `Staging`, `Repair`.  To come:

1. Theorems about an instance of `Pipeline` that delivers the batches of `Batching`: the two
   are proved apart, and joined by the remark that any partition into batches will do.
2. An abstract store (a selection of features, installed atomically or not) that Configure
   implements in calm runs.
3. The values that queries of features and sizes return, and the costs of each phase of
   Configure against its progress.

## Not modelled

Hashing, compression and encryption (a chunk is sound or not), identifiers, logging, option
parsing and output, HTTP, the Windows file layer, vendored libraries, the test runner and
the Python generator: they keep no state the properties depend on.  Of the modelled parts:
titles, descriptions and sizes that queries return, variables of the API (their only use is
to decrypt packages), progress of Configure and of the setup dialog, and a deployed source
whose files have changed since they were installed, which the code installs as they are.
