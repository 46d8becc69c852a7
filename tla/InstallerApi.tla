---------------------------- MODULE InstallerApi ----------------------------
(***************************************************************************)
(* The C API of kyla (src/src/kyla/src/Kyla.cpp): one installer, the       *)
(* repository handles it gives out, and the databases on disk that the     *)
(* handles are connected to. Every call is one action: the API has no      *)
(* threads of its own that outlive a call. A call ends with a result code, *)
(* or with a fault of the process: a null repository is dereferenced, an   *)
(* assertion fails, or it dies in the places that Deployed and Repair      *)
(* name. The process may also crash within Execute.                        *)
(*                                                                         *)
(* Installing and configuring are modelled in full in Deployed, repairing  *)
(* and verifying in Repair; here they only tell apart what the calls that  *)
(* follow depend on. `disk' says what k.db of a directory is: "absent",    *)
(* "empty" (just created), "partial" (some of install_db_structure),       *)
(* "mixed" (a Configure was interrupted or failed), "clean" (the last      *)
(* Configure ended by itself, which says nothing of files that got lost).  *)
(***************************************************************************)
EXTENDS Naturals

CONSTANTS
    Handle,      \* the KylaRepositoryImpl objects that can be allocated
    NoHandle,    \* the null handle
    Path,        \* directories
    NoPath,      \* the path of a handle that is not allocated
    PackedPath   \* those that hold a repository.db

ASSUME ApiAssumption ==
    /\ NoHandle \notin Handle
    /\ NoPath \notin Path
    /\ PackedPath \subseteq Path

VARIABLES
    installer,   \* is there an installer
    callbacks,   \* the callbacks that are set
    handle,      \* the allocated handles
    disk,        \* k.db of every directory
    reports,     \* what the validation callback has been told: "none", "ok", "bad"
    last,        \* the last call, the handle of an Execute, and the result
    fault,       \* how the process ended, "none" while it runs
    created,     \* history: open handles that were opened with Create
    installed,   \* history: open handles on which an Install has succeeded
    readOnly     \* history: open handles that were opened with ReadOnly

vars == <<installer, callbacks, handle, disk, reports, last, fault, created, installed, readOnly>>

-----------------------------------------------------------------------------
(* Values *)

Callback == {"validation"}               \* the one whose calls are seen, in `reports'
Result == {"Ok", "Error", "InvalidArgument", "UnsupportedApiVersion"}
Option == {"create", "readonly"}
ReadOnlyBit == 2
DbState == {"absent", "empty", "partial", "mixed", "clean"}
HasSchema == {"mixed", "clean"}

Repository == [kind : {"null", "packed", "deployed"}, write : BOOLEAN, attached : BOOLEAN]
NullRepository == [kind |-> "null", write |-> FALSE, attached |-> FALSE]
Packed == [kind |-> "packed", write |-> FALSE, attached |-> FALSE]
Deployed(write) == [kind |-> "deployed", write |-> write, attached |-> FALSE]

\* A source handle does not keep its path: there, `path' is where its database is.
KylaRepositoryImpl ==
    [type : {"source", "target"}, path : Path, options : {0, ReadOnlyBit}, p : Repository]
Free == [type |-> "free", path |-> NoPath, options |-> 0, p |-> NullRepository]

Open(h) == h \in Handle /\ handle[h] # Free
IsType(h, type) == Open(h) /\ handle[h].type = type

-----------------------------------------------------------------------------
(* Calls *)

\* Every call needs a process that runs and, but for kylaCreateInstaller, an installer.
Running == fault = "none"
Callable == Running /\ installer

\* Only the calls of Execute are told apart; the others share one name.
Executed(call, h, result) == last' = [call |-> call, h |-> h, result |-> result]
Return(result) == Executed("other", NoHandle, result)

\* What a call that only returns leaves alone.
Keep == UNCHANGED <<installer, callbacks, handle, disk, reports, fault, created, installed, readOnly>>

Reject == Return("InvalidArgument") /\ Keep

CreateInstaller(supported) ==
    /\ Running /\ ~installer
    /\ IF supported
       THEN /\ Return("Ok")
            /\ installer' = TRUE /\ callbacks' = {} /\ reports' = "none"
            /\ UNCHANGED <<handle, disk, fault, created, installed, readOnly>>
       ELSE Return("UnsupportedApiVersion") /\ Keep

\* The repositories stay: handles that are still open are not closed.
DestroyInstaller ==
    /\ Callable
    /\ Return("Ok")
    /\ installer' = FALSE /\ callbacks' = {}
    /\ UNCHANGED <<handle, disk, reports, fault, created, installed, readOnly>>

SetCallback(c, set) ==
    /\ Callable
    /\ Return("Ok")
    /\ callbacks' = IF set THEN callbacks \union {c} ELSE callbacks \ {c}
    /\ UNCHANGED <<installer, handle, disk, reports, fault, created, installed, readOnly>>

\* The values of variables are left out: all they do is to let encrypted packages be read.
\* No variable is read-only, Variable::readOnly_ is never set; but a name may be missing.
SetVariable(named) ==
    /\ Callable
    /\ IF named THEN Return("Ok") /\ Keep ELSE Reject

GetVariable(found) ==
    /\ Callable
    /\ IF found THEN Return("Ok") /\ Keep ELSE Reject

-----------------------------------------------------------------------------
(* Handles *)

\* kyla::OpenRepository: what it may return; NullRepository stands for an exception.
OpenRepository(path, write) ==
    {NullRepository} \union
        IF path \in PackedPath THEN {Packed}
        ELSE IF disk[path] # "absent" THEN {Deployed(write)}
        ELSE {}

\* A mutant: the option is kept as a flag instead of its bit.
MutantAllocateFlag(h, type, path, repository) ==
    handle' = [handle EXCEPT ![h] = [type |-> type, path |-> path, options |-> 1, p |-> repository]]

Allocate(h, type, path, repository) ==
    handle' = [handle EXCEPT ![h] =
                  [type |-> type, path |-> path, options |-> 0, p |-> repository]]

OpenSource(h, path, options) ==
    /\ Callable /\ h \in Handle /\ ~Open(h)
    /\ \/ "create" \in options /\ Reject
       \/ /\ "create" \notin options
          /\ \E p \in OpenRepository(path, FALSE) :
                IF p = NullRepository
                THEN Return("Error") /\ Keep
                ELSE /\ Return("Ok")
                     /\ Allocate(h, "source", path, p)
                     /\ UNCHANGED <<installer, callbacks, disk, reports, fault, created, installed, readOnly>>

\* options & kylaRepositoryOption_ReadOnly is 0 or 2, and compared with 1.
OpensForWriting(options) == (IF "readonly" \in options THEN ReadOnlyBit ELSE 0) # 1

OpenTarget(h, path, options) ==
    /\ Callable /\ h \in Handle /\ ~Open(h)
    /\ \E p \in IF "create" \in options THEN {NullRepository}
                ELSE OpenRepository(path, OpensForWriting(options)) :
          IF p = NullRepository /\ "create" \notin options
          THEN Return("Error") /\ Keep
          ELSE /\ Return("Ok")
               /\ Allocate(h, "target", path, p)
               /\ created' = IF "create" \in options THEN created \union {h} ELSE created
               /\ readOnly' = IF "readonly" \in options THEN readOnly \union {h} ELSE readOnly
               /\ UNCHANGED <<installer, callbacks, disk, reports, fault, installed>>

\* A mutant: the repository is reset, and the handle kept.
MutantCloseKeeps(h) ==
    /\ Callable /\ h \in Handle /\ Open(h)
    /\ handle[h].p # NullRepository
    /\ Return("Ok")
    /\ handle' = [handle EXCEPT ![h].p = NullRepository]
    /\ UNCHANGED <<installer, callbacks, disk, reports, fault, created, installed, readOnly>>

\* A handle without a repository is taken for one that is closed already: it stays.
CloseRepository(h) ==
    /\ Callable /\ (h \in Handle => Open(h))
    /\ \/ h \notin Handle /\ Reject
       \/ /\ h \in Handle /\ handle[h].p = NullRepository
          /\ Reject
       \/ /\ h \in Handle /\ handle[h].p # NullRepository
          /\ Return("Ok")
          /\ handle' = [handle EXCEPT ![h] = Free]
          /\ created' = created \ {h} /\ installed' = installed \ {h} /\ readOnly' = readOnly \ {h}
          /\ UNCHANGED <<installer, callbacks, disk, reports, fault>>

-----------------------------------------------------------------------------
(* Properties of repositories and features *)

\* KylaGet: the caller asks for the size, or passes a buffer that is large enough or not.
Buffer == {"size", "enough", "small", "none"}
KylaGet(buffer) == IF buffer \in {"size", "enough"} THEN "Ok" ELSE "InvalidArgument"

\* Does the database of a source have the tables that are asked for?
Readable(s) == handle[s].p.kind = "deployed" => disk[handle[s].path] \in HasSchema

\* kylaGetRepositoryProperty and kylaGetFeatureProperty: the query runs before the
\* arguments are looked at, and fails on a database without the schema.
GetProperty(h, known, buffer) ==
    /\ Callable /\ (h \in Handle => Open(h))
    /\ IF ~IsType(h, "source") \/ ~known THEN Reject
       ELSE \/ /\ Return(KylaGet(buffer))
               /\ Readable(h)
               /\ Keep
            \/ Return("Error") /\ Keep

-----------------------------------------------------------------------------
(* Execute *)

Action == {"install", "configure", "repair", "verify", "invalid"}
DesiredState == {"null", "bad", "good"}

Rejected(action, target, source, desired) ==
    \/ ~IsType(target, "target")
    \/ ~IsType(source, "source")
    \/ desired = "null" /\ action \in {"install", "configure"}
    \/ desired = "bad"
    \/ action = "invalid"

Fail(action, t) == Executed(action, t, "Error") /\ Keep

\* CreateFrom opens k.db without emptying it, so that its CREATE TABLE statements fail where
\* a table is there already.
MutantCreatable(path) == TRUE   \* a mutant: the tables that are there are dropped first
Creatable(path) == disk[path] \in {"absent", "empty"}

\* The process ends within the call: what the handle is connected to does not matter any more.
Faults(action, t, how) ==
    /\ Executed(action, t, "Error")
    /\ fault' = how
    /\ UNCHANGED <<installer, callbacks, handle, reports, created, installed, readOnly>>

\* A Configure dies with the database it has so far (Deployed!Die).
DiesConfiguring(action, t) ==
    /\ disk' = [disk EXCEPT ![handle[t].path] = "mixed"]
    /\ Faults(action, t, "died")

\* The handle gets its repository only when Configure has returned.
Install(t, s) ==
    LET path == handle[t].path IN
    \/ Fail("install", t)
    \/ /\ Creatable(path)
       /\ \E d \in {"empty", "partial", "mixed"} : disk' = [disk EXCEPT ![path] = d]
       /\ Executed("install", t, "Error")
       /\ UNCHANGED <<installer, callbacks, handle, reports, fault, created, installed, readOnly>>
    \/ Creatable(path) /\ Readable(s) /\ DiesConfiguring("install", t)
    \/ /\ Creatable(path) /\ Readable(s)
       /\ disk' = [disk EXCEPT ![path] = "clean"]
       /\ handle' = [handle EXCEPT ![t].p = Deployed(TRUE)]
       /\ installed' = installed \union {t}
       /\ Executed("install", t, "Ok")
       /\ UNCHANGED <<installer, callbacks, reports, fault, created, readOnly>>

ReadOnlyHandle(t) == handle[t].options = ReadOnlyBit

\* ConfigureImpl deletes unused contents before it attaches the source, in a transaction of
\* its own, whether the attachment that follows fails or not. It does not come so far in a
\* packed repository, on a read-only connection, or without the schema.
CleansUp(t) ==
    /\ handle[t].p.kind = "deployed" /\ handle[t].p.write
    /\ disk[handle[t].path] \in HasSchema

\* With the copy of a source still attached, a second one cannot be.
Configure(t, s) ==
    LET p == handle[t].p IN
    \/ ReadOnlyHandle(t) /\ Fail("configure", t)
    \/ ~ReadOnlyHandle(t) /\ p = NullRepository /\ Faults("configure", t, "null") /\ disk' = disk
    \/ /\ ~ReadOnlyHandle(t) /\ p # NullRepository
       /\ \/ Fail("configure", t)
          \/ /\ CleansUp(t)
             /\ disk' = [disk EXCEPT ![handle[t].path] = "mixed"]
             /\ \E a \in BOOLEAN : /\ p.attached => a
                                   /\ handle' = [handle EXCEPT ![t].p.attached = a]
             /\ Executed("configure", t, "Error")
             /\ UNCHANGED <<installer, callbacks, reports, fault, created, installed, readOnly>>
          \/ CleansUp(t) /\ ~p.attached /\ Readable(s) /\ DiesConfiguring("configure", t)
          \/ /\ CleansUp(t) /\ ~p.attached /\ Readable(s)
             /\ disk' = [disk EXCEPT ![handle[t].path] = "clean"]
             /\ Executed("configure", t, "Ok")
             /\ UNCHANGED <<installer, callbacks, handle, reports, fault, created, installed, readOnly>>

\* How looking at the files of a deployed repository may end the process (module Repair):
\* the assertion on the progress, or hashing a file that cannot be read, or the source.
FilesFault(action, t) == \E how \in {"assertion", "died"} : Faults(action, t, how)

\* Repair with restore: a packed repository asserts that it is not asked for it. What it
\* does to files is module Repair; it leaves the database alone.
Repair(t) ==
    LET p == handle[t].p IN
    \/ ReadOnlyHandle(t) /\ Fail("repair", t)
    \/ /\ ~ReadOnlyHandle(t) /\ disk' = disk
       /\ \/ p = NullRepository /\ Faults("repair", t, "null")
          \/ p.kind = "packed" /\ Faults("repair", t, "assertion")
          \/ /\ p.kind = "deployed" /\ disk[handle[t].path] \in HasSchema
             /\ FilesFault("repair", t)
    \/ /\ ~ReadOnlyHandle(t) /\ p.kind = "deployed"
       /\ \/ disk[handle[t].path] \in HasSchema /\ Executed("repair", t, "Ok") /\ Keep
          \/ Fail("repair", t)

MutantVerifyWrites(t) == ~ReadOnlyHandle(t)   \* a mutant: the option is taken as documented
VerifyWrites(t) == ReadOnlyHandle(t)

\* What the callback has been told when the last file has been looked at.
Reported == IF "validation" \in callbacks THEN reports' \in {"ok", "bad"} ELSE UNCHANGED reports

\* Verify opens the repository anew, for reading because `options' is 0, and keeps it in the
\* handle. A packed repository fails in a query for a table the schema does not have; a
\* deployed one may fail after some files have been reported.
Verify(t) ==
    LET path == handle[t].path IN
    \E p \in OpenRepository(path, VerifyWrites(t)) :
       \/ p = NullRepository /\ Fail("verify", t)
       \/ /\ p # NullRepository
          /\ handle' = [handle EXCEPT ![t].p = p]
          /\ \/ Executed("verify", t, "Error") /\ UNCHANGED reports
             \/ /\ p.kind = "deployed" /\ disk[path] \in HasSchema /\ Reported
                /\ \E result \in {"Ok", "Error"} : Executed("verify", t, result)
          /\ UNCHANGED <<installer, callbacks, disk, fault, created, installed, readOnly>>
       \/ /\ p.kind = "deployed" /\ disk[path] \in HasSchema /\ disk' = disk
          /\ FilesFault("verify", t)

Execute(action, target, source, desired) ==
    /\ Callable
    /\ (target \in Handle => Open(target))
    /\ (source \in Handle => Open(source))
    /\ IF Rejected(action, target, source, desired) THEN Reject
       ELSE \/ action = "install" /\ Install(target, source)
            \/ action = "configure" /\ Configure(target, source)
            \/ action = "repair" /\ Repair(target)
            \/ action = "verify" /\ Verify(target)

-----------------------------------------------------------------------------
(* The process *)

\* What a crash within Execute can leave of the database at `path'.
Interrupted(path) ==
    IF Creatable(path) THEN {"empty", "partial", "mixed"}
    ELSE IF disk[path] \in HasSchema THEN {"mixed"}
    ELSE {disk[path]}

Crash(t) ==
    /\ Callable /\ IsType(t, "target")
    /\ \/ Creatable(handle[t].path)
       \/ CleansUp(t)
    /\ \E d \in Interrupted(handle[t].path) : disk' = [disk EXCEPT ![handle[t].path] = d]
    /\ fault' = "crash"
    /\ Executed("crash", t, "Error")
    /\ UNCHANGED <<installer, callbacks, handle, reports, created, installed, readOnly>>

\* A new process starts from what is on disk.
Restart ==
    /\ installer' = FALSE /\ callbacks' = {} /\ reports' = "none"
    /\ handle' = [h \in Handle |-> Free]
    /\ created' = {} /\ installed' = {} /\ readOnly' = {}
    /\ fault' = "none"
    /\ Return("Ok")
    /\ UNCHANGED disk

Init ==
    /\ installer = FALSE /\ callbacks = {} /\ reports = "none"
    /\ handle = [h \in Handle |-> Free]
    /\ disk = [p \in Path |-> "absent"]
    /\ last = [call |-> "other", h |-> NoHandle, result |-> "Ok"]
    /\ fault = "none"
    /\ created = {} /\ installed = {} /\ readOnly = {}

Call ==
    \/ \E supported \in BOOLEAN : CreateInstaller(supported)
    \/ DestroyInstaller
    \/ \E c \in Callback, set \in BOOLEAN : SetCallback(c, set)
    \/ \E named \in BOOLEAN : SetVariable(named) \/ GetVariable(named)
    \/ \E h \in Handle, path \in Path, options \in SUBSET Option :
          OpenSource(h, path, options) \/ OpenTarget(h, path, options)
    \/ \E h \in Handle \union {NoHandle} : CloseRepository(h)
    \/ \E h \in Handle \union {NoHandle}, known \in BOOLEAN, buffer \in Buffer :
          GetProperty(h, known, buffer)
    \/ \E a \in Action, t, s \in Handle \union {NoHandle}, d \in DesiredState :
          Execute(a, t, s, d)

Next == Call \/ (\E t \in Handle : Crash(t)) \/ Restart

Spec == Init /\ [][Next]_vars

-----------------------------------------------------------------------------
(* Properties *)

TypeOK ==
    /\ installer \in BOOLEAN
    /\ callbacks \subseteq Callback
    /\ handle \in [Handle -> KylaRepositoryImpl \union {Free}]
    /\ disk \in [Path -> DbState]
    /\ reports \in {"none", "ok", "bad"}
    /\ last.h \in Handle \union {NoHandle} /\ last.result \in Result
    /\ fault \in {"none", "null", "assertion", "died", "crash"}
    /\ created \subseteq Handle /\ installed \subseteq Handle /\ readOnly \subseteq Handle

(***************************************************************************)
(* How a call can end the process. The only handles without a repository   *)
(* are targets opened with Create on which no Install has succeeded, so a  *)
(* null repository is dereferenced only by a Configure or Repair before    *)
(* the Install (Kyla.cpp:196-207, :319-352). An assertion fails in the     *)
(* Repair of a packed repository, and in Repair and Verify of a deployed   *)
(* one (PackedRepositoryBase.cpp:906, Repository.h:65). Of anything else a *)
(* process dies only over a directory that then holds a database with its  *)
(* schema: a Configure of a new handle can go on from there.               *)
(***************************************************************************)
FaultsExplained ==
    LET path == handle[last.h].path IN
    /\ \A h \in Handle :
          Open(h) /\ handle[h].p = NullRepository => h \in created \ installed
    /\ fault = "null" => /\ last.call \in {"configure", "repair"}
                         /\ last.h \in created \ installed
    /\ fault = "assertion" =>
          \/ last.call = "repair" /\ path \in PackedPath
          \/ /\ last.call \in {"repair", "verify"}
             /\ path \notin PackedPath /\ disk[path] \in HasSchema
    /\ fault = "died" => IsType(last.h, "target") /\ disk[path] \in HasSchema

\* A handle through which Configure cannot succeed any more.
Spoiled(h) ==
    /\ IsType(h, "target")
    /\ handle[h].p # NullRepository
    /\ handle[h].p.attached \/ ~handle[h].p.write

(***************************************************************************)
(* Once Verify has replaced the repository of a handle (Kyla.cpp:359), or  *)
(* a failed Configure has left the copy of the source attached             *)
(* (DeployedRepository.cpp:1147, :1187), no Configure succeeds through     *)
(* this handle any more, and no call repairs it: it has to be closed. What *)
(* such a Configure may still do is to delete unused contents, before it   *)
(* fails to attach its source (:1133-1147); without write access not even  *)
(* that.                                                                   *)
(***************************************************************************)
SpoiledStaysSpoiled ==
    [][ \A h \in Handle :
          (Spoiled(h) /\ disk[handle[h].path] \in HasSchema) =>
              /\ (last'.h = h /\ disk' # disk) =>
                    /\ last'.result # "Ok" /\ handle[h].p.write
                    /\ disk' = [disk EXCEPT ![handle[h].path] = "mixed"]
              /\ (last'.h = h /\ last'.call = "configure" => last'.result # "Ok")
              /\ (Open(h)' => Spoiled(h)') ]_vars

(***************************************************************************)
(* A source is never written: a database changes only in an Install or     *)
(* Configure, or a crash in one, made on a target handle of its directory; *)
(* and once it has its schema, it never loses it: whatever fails, a        *)
(* Configure of a new handle can go on from there (Kyla.cpp:328-343,       *)
(* DeployedRepository.cpp:1200-1213).                                      *)
(***************************************************************************)
OnlyTargetsWritten ==
    [][ \A path \in Path : (disk'[path] # disk[path]) =>
          /\ last'.call \in {"install", "configure", "crash"}
          /\ IsType(last'.h, "target") /\ handle[last'.h].path = path
          /\ (disk[path] \in HasSchema => disk'[path] \in HasSchema) ]_vars

(***************************************************************************)
(* Kyla.h:259-260: "Opening a target repository using                      *)
(* kylaRepositoryOption_ReadOnly allows only verify to be called on the    *)
(* repository."                                                            *)
(***************************************************************************)
ReadOnlyAllowsVerifyOnly ==
    last.call \in {"install", "configure", "repair"} /\ last.result = "Ok"
        => last.h \notin readOnly

(***************************************************************************)
(* Kyla.h:106-107: "Create the repository. If it's present already, it     *)
(* will be overwritten by subsequent operations." An Install on a handle   *)
(* opened with Create could succeed whatever the directory holds. The code *)
(* opens the database that is there and creates its tables once more       *)
(* (DeployedRepository.cpp:1200-1213), which fails where they exist.       *)
(***************************************************************************)
CreateOverwrites ==
    \A t, s \in Handle :
       Callable /\ t \in created /\ IsType(s, "source") /\ Readable(s)
           => ENABLED (Install(t, s) /\ last'.result = "Ok")
=============================================================================
