----------------------------- MODULE CliProofs ------------------------------
(***************************************************************************)
(* Theorems about the C API for any number of handles and directories, and *)
(* about its clients: every step of Cli is a step of InstallerApi, so that *)
(* what is proved of the API holds for the commands and for any program    *)
(* that follows the rules of OwnCall.                                      *)
(*                                                                         *)
(* The inductive invariant adds three facts to the type invariant and to   *)
(* FaultsExplained: what the history variables name is open, only a handle *)
(* on a directory with a package has a packed repository, and the options  *)
(* of a handle are 0 whatever it was opened with.                          *)
(*                                                                         *)
(* What a command relies on is a second invariant over it, CommandInv: it  *)
(* follows the script of each command, call by call, and says what is open *)
(* and what is known of the target's database at each place of it.         *)
(***************************************************************************)
EXTENDS Cli, TLAPS

HistoryIsOpen == \A h \in created \union installed \union readOnly : handle[h] # Free

PackedWhereItIs == \A h \in Handle : handle[h].p.kind = "packed" => handle[h].path \in PackedPath

OptionsUnset == \A h \in Handle : handle[h].options = 0

IInv == TypeOK /\ FaultsExplained /\ HistoryIsOpen /\ PackedWhereItIs /\ OptionsUnset

-----------------------------------------------------------------------------
(* Values *)

USE ApiAssumption

LEMMA RepositoryValues ==
    /\ NullRepository \in Repository /\ Packed \in Repository
    /\ \A w \in BOOLEAN : Deployed(w) \in Repository
    /\ Packed # NullRepository
    /\ \A w \in BOOLEAN : Deployed(w) # NullRepository
    /\ NullRepository.kind = "null" /\ Packed.kind = "packed"
    /\ \A w \in BOOLEAN : Deployed(w).kind = "deployed"
  BY DEF NullRepository, Packed, Deployed, Repository

\* A handle that has a type is an allocated one.
LEMMA FreeIsNoHandle == Free \notin KylaRepositoryImpl
  BY DEF Free, KylaRepositoryImpl

LEMMA FreeValues == Free.type = "free" /\ Free.p = NullRepository /\ Free.options = 0
  BY DEF Free

LEMMA OpenValues ==
  ASSUME TypeOK, NEW h \in Handle, Open(h)
  PROVE  handle[h] \in KylaRepositoryImpl
  BY DEF TypeOK, Open

LEMMA OpenedValues ==
  ASSUME NEW path \in Path, NEW w \in BOOLEAN, NEW p \in OpenRepository(path, w)
  PROVE  /\ p \in Repository
         /\ p.kind = "packed" => path \in PackedPath
  BY RepositoryValues DEF OpenRepository

-----------------------------------------------------------------------------
(* Steps *)

\* The handles and their history stay, while the process goes on.
LEMMA SameHandlesInv ==
  ASSUME IInv, Running, UNCHANGED <<handle, fault, created, installed, readOnly>>,
         installer' \in BOOLEAN, callbacks' \subseteq Callback, disk' \in [Path -> DbState],
         reports' \in {"none", "ok", "bad"},
         last'.h \in Handle \union {NoHandle}, last'.result \in Result
  PROVE  IInv'
<1>1. TypeOK'
  BY DEF IInv, TypeOK
<1>2. FaultsExplained'
  BY DEF IInv, FaultsExplained, Running, Open
<1>3. HistoryIsOpen' /\ PackedWhereItIs' /\ OptionsUnset'
  BY DEF IInv, HistoryIsOpen, PackedWhereItIs, OptionsUnset
<1> QED  BY <1>1, <1>2, <1>3 DEF IInv

LEMMA KeepInv ==
  ASSUME IInv, Callable, Keep, last'.h \in Handle \union {NoHandle}, last'.result \in Result
  PROVE  IInv'
  BY SameHandlesInv DEF Keep, Callable, IInv, TypeOK

LEMMA RejectInv ==
  ASSUME IInv, Callable, Reject
  PROVE  IInv'
  BY KeepInv DEF Reject, Return, Executed, Result

LEMMA ReturnInv ==
  ASSUME IInv, Callable, Keep, NEW r \in Result, Return(r)
  PROVE  IInv'
  BY KeepInv DEF Return, Executed

LEMMA FailInv ==
  ASSUME IInv, Callable, NEW a, NEW t \in Handle, Fail(a, t)
  PROVE  IInv'
  BY KeepInv DEF Fail, Executed, Result

\* One handle is given the value v, while the process goes on.
LEMMA HandleInv ==
  ASSUME IInv, Callable, UNCHANGED fault,
         NEW h \in Handle, NEW v \in KylaRepositoryImpl,
         handle' = [handle EXCEPT ![h] = v],
         v.p.kind = "packed" => v.path \in PackedPath,
         v.p = NullRepository => h \in created' \ installed', v.options = 0,
         installer' \in BOOLEAN, callbacks' \subseteq Callback, disk' \in [Path -> DbState],
         reports' \in {"none", "ok", "bad"},
         last'.h \in Handle \union {NoHandle}, last'.result \in Result,
         created \subseteq created', created' \subseteq created \union {h},
         installed' \subseteq installed \union {h}, readOnly' \subseteq readOnly \union {h}
  PROVE  IInv'
<1>1. fault' = "none"
  BY DEF Callable, Running
<1>2. handle' \in [Handle -> KylaRepositoryImpl \union {Free}] /\ handle'[h] = v
  BY DEF IInv, TypeOK
<1>3. \A g \in Handle \ {h} : handle'[g] = handle[g]
  BY DEF IInv, TypeOK
<1>4. TypeOK'
  BY <1>1, <1>2 DEF IInv, TypeOK
<1>5. FaultsExplained'
  <2>1. ASSUME NEW g \in Handle, Open(g)', handle'[g].p = NullRepository
        PROVE  g \in created' \ installed'
    <3>1. CASE g = h  BY <3>1, <2>1, <1>2
    <3>2. CASE g # h
      <4>1. g \in created \ installed
        BY <3>2, <2>1, <1>3 DEF IInv, FaultsExplained, Open
      <4> QED  BY <4>1, <3>2
    <3> QED  BY <3>1, <3>2
  <2> QED  BY <2>1, <1>1 DEF FaultsExplained, Open
<1>6. HistoryIsOpen'
  <2>1. v # Free  BY FreeIsNoHandle
  <2>2. SUFFICES ASSUME NEW g \in created' \union installed' \union readOnly'
                 PROVE  handle'[g] # Free
    BY DEF HistoryIsOpen
  <2>3. CASE g = h  BY <2>3, <2>1, <1>2
  <2>4. CASE g # h
    <3>1. g \in created \union installed \union readOnly  BY <2>4
    <3>2. handle[g] # Free  BY <3>1 DEF IInv, HistoryIsOpen
    <3> QED  BY <3>1, <3>2, <2>4, <1>3 DEF IInv, TypeOK
  <2> QED  BY <2>3, <2>4
<1>7. PackedWhereItIs'
  <2>1. ASSUME NEW g \in Handle, handle'[g].p.kind = "packed"
        PROVE  handle'[g].path \in PackedPath
    <3>1. CASE g = h  BY <3>1, <2>1, <1>2
    <3>2. CASE g # h  BY <3>2, <2>1, <1>3 DEF IInv, PackedWhereItIs
    <3> QED  BY <3>1, <3>2
  <2> QED  BY <2>1 DEF PackedWhereItIs
<1>8. OptionsUnset'
  BY <1>2, <1>3 DEF IInv, OptionsUnset
<1> QED  BY <1>4, <1>5, <1>6, <1>7, <1>8 DEF IInv

-----------------------------------------------------------------------------
(* The installer and its handles *)

LEMMA InstallerInv ==
  ASSUME IInv, NEW supported \in BOOLEAN, CreateInstaller(supported)
  PROVE  IInv'
<1>1. last'.h \in Handle \union {NoHandle} /\ last'.result \in Result
  BY DEF CreateInstaller, Return, Executed, Result
<1>2. Running /\ UNCHANGED <<handle, disk, fault, created, installed, readOnly>>
  BY DEF CreateInstaller, Keep
<1>3. installer' \in BOOLEAN /\ callbacks' \subseteq Callback /\ reports' \in {"none", "ok", "bad"}
  <2>1. CASE supported  BY <2>1 DEF CreateInstaller
  <2>2. CASE ~supported  BY <2>2 DEF CreateInstaller, Keep, IInv, TypeOK
  <2> QED  BY <2>1, <2>2
<1> QED  BY <1>1, <1>2, <1>3, SameHandlesInv DEF IInv, TypeOK

LEMMA DestroyInv ==
  ASSUME IInv, DestroyInstaller
  PROVE  IInv'
<1>1. last'.h \in Handle \union {NoHandle} /\ last'.result \in Result
  BY DEF DestroyInstaller, Return, Executed, Result
<1> QED  BY <1>1, SameHandlesInv DEF DestroyInstaller, Callable, IInv, TypeOK

LEMMA CallbackInv ==
  ASSUME IInv, NEW c \in Callback, NEW set \in BOOLEAN, SetCallback(c, set)
  PROVE  IInv'
<1>1. last'.h \in Handle \union {NoHandle} /\ last'.result \in Result
  BY DEF SetCallback, Return, Executed, Result
<1>2. callbacks' \subseteq Callback
  BY DEF SetCallback, IInv, TypeOK
<1> QED  BY <1>1, <1>2, SameHandlesInv DEF SetCallback, Callable, IInv, TypeOK

LEMMA VariableInv ==
  ASSUME IInv, NEW named \in BOOLEAN, SetVariable(named) \/ GetVariable(named)
  PROVE  IInv'
  BY RejectInv, ReturnInv DEF SetVariable, GetVariable, Result

LEMMA GetPropertyInv ==
  ASSUME IInv, NEW h \in Handle \union {NoHandle}, NEW known \in BOOLEAN,
         NEW buffer \in Buffer, GetProperty(h, known, buffer)
  PROVE  IInv'
<1>1. KylaGet(buffer) \in Result  BY DEF KylaGet, Result
<1>2. "Error" \in Result  BY DEF Result
<1> QED  BY <1>1, <1>2, RejectInv, ReturnInv DEF GetProperty

LEMMA OpenSourceInv ==
  ASSUME IInv, NEW h \in Handle, NEW path \in Path, NEW options \in SUBSET Option,
         OpenSource(h, path, options)
  PROVE  IInv'
<1>1. CASE "create" \in options
  BY <1>1, RejectInv DEF OpenSource
<1>2. CASE "create" \notin options
  <2>1. PICK p \in OpenRepository(path, FALSE) :
           IF p = NullRepository THEN Return("Error") /\ Keep
           ELSE /\ Return("Ok")
                /\ Allocate(h, "source", path, p)
                /\ UNCHANGED <<installer, callbacks, disk, reports, fault, created, installed, readOnly>>
    BY <1>2 DEF OpenSource
  <2>2. Callable  BY DEF OpenSource
  <2>3. CASE p = NullRepository
    BY <2>1, <2>2, <2>3, ReturnInv DEF Result
  <2>4. CASE p # NullRepository
    <3> DEFINE v == [type |-> "source", path |-> path, options |-> 0, p |-> p]
    <3>1. p \in Repository /\ (p.kind = "packed" => path \in PackedPath)
      BY OpenedValues
    <3>2. v \in KylaRepositoryImpl
      BY <3>1 DEF KylaRepositoryImpl
    <3>3. handle' = [handle EXCEPT ![h] = v] /\ last' = [call |-> "other", h |-> NoHandle, result |-> "Ok"]
      BY <2>1, <2>4 DEF Allocate, Return, Executed
    <3>4. v.p # NullRepository /\ v.options = 0 /\ (v.p.kind = "packed" => v.path \in PackedPath)
      BY <3>1, <2>4
    <3>5. UNCHANGED <<installer, callbacks, disk, reports, fault, created, installed, readOnly>>
      BY <2>1, <2>4
    <3>6. last'.h \in Handle \union {NoHandle} /\ last'.result \in Result
      BY <3>3 DEF Result
    <3> HIDE DEF v
    <3> QED  BY <2>2, <3>2, <3>3, <3>4, <3>5, <3>6, HandleInv DEF IInv, TypeOK
  <2> QED  BY <2>3, <2>4
<1> QED  BY <1>1, <1>2

LEMMA OpenTargetInv ==
  ASSUME IInv, NEW h \in Handle, NEW path \in Path, NEW options \in SUBSET Option,
         OpenTarget(h, path, options)
  PROVE  IInv'
<1> DEFINE new == "create" \in options
<1>1. OpensForWriting(options) \in BOOLEAN
  BY DEF OpensForWriting, ReadOnlyBit
<1>2. PICK p \in IF new THEN {NullRepository} ELSE OpenRepository(path, OpensForWriting(options)) :
         IF p = NullRepository /\ "create" \notin options
         THEN Return("Error") /\ Keep
         ELSE /\ Return("Ok")
              /\ Allocate(h, "target", path, p)
              /\ created' = IF "create" \in options THEN created \union {h} ELSE created
              /\ readOnly' = IF "readonly" \in options THEN readOnly \union {h} ELSE readOnly
              /\ UNCHANGED <<installer, callbacks, disk, reports, fault, installed>>
  BY DEF OpenTarget
<1>3. Callable /\ ~Open(h)  BY DEF OpenTarget
<1>4. CASE p = NullRepository /\ ~new
  BY <1>2, <1>3, <1>4, ReturnInv DEF Result
<1>5. CASE ~(p = NullRepository /\ ~new)
  <2> DEFINE v == [type |-> "target", path |-> path, options |-> 0, p |-> p]
  <2>1. p \in Repository /\ (p.kind = "packed" => path \in PackedPath)
    BY <1>1, <1>2, OpenedValues, RepositoryValues
  <2>2. v \in KylaRepositoryImpl
    BY <2>1 DEF KylaRepositoryImpl
  <2>3. handle' = [handle EXCEPT ![h] = v] /\ last' = [call |-> "other", h |-> NoHandle, result |-> "Ok"]
    BY <1>2, <1>5 DEF Allocate, Return, Executed
  <2>4. /\ UNCHANGED <<installer, callbacks, disk, reports, fault, installed>>
        /\ created' = IF new THEN created \union {h} ELSE created
        /\ readOnly' = IF "readonly" \in options THEN readOnly \union {h} ELSE readOnly
    BY <1>2, <1>5
  <2>5. last'.h \in Handle \union {NoHandle} /\ last'.result \in Result
    BY <2>3 DEF Result
  <2>6. v.options = 0 /\ (v.p.kind = "packed" => v.path \in PackedPath)
    BY <2>1
  <2>7. h \notin installed
    BY <1>3 DEF IInv, HistoryIsOpen, Open
  <2>8. v.p = NullRepository => h \in created' \ installed'
    BY <2>4, <2>7, <1>5
  <2> HIDE DEF v, new
  <2> QED  BY <1>3, <2>2, <2>3, <2>4, <2>5, <2>6, <2>8, HandleInv DEF IInv, TypeOK
<1> QED  BY <1>4, <1>5

LEMMA CloseInv ==
  ASSUME IInv, NEW h \in Handle \union {NoHandle}, CloseRepository(h)
  PROVE  IInv'
<1>1. Callable  BY DEF CloseRepository
<1>2. CASE Reject  BY <1>1, <1>2, RejectInv
<1>3. CASE h \in Handle /\ handle' = [handle EXCEPT ![h] = Free] /\ Return("Ok")
           /\ created' = created \ {h} /\ installed' = installed \ {h} /\ readOnly' = readOnly \ {h}
           /\ UNCHANGED <<installer, callbacks, disk, reports, fault>>
  <2>1. fault' = "none"  BY <1>1, <1>3 DEF Callable, Running
  <2>2. TypeOK'
    BY <1>3 DEF IInv, TypeOK, Return, Executed, Result
  <2>3. \A g \in Handle : handle'[g] = IF g = h THEN Free ELSE handle[g]
    BY <1>3 DEF IInv, TypeOK
  <2>4. FaultsExplained'
    <3>1. ASSUME NEW g \in Handle, Open(g)', handle'[g].p = NullRepository
          PROVE  g \in created' \ installed'
      <4>1. g # h /\ Open(g) /\ handle[g].p = NullRepository
        BY <3>1, <2>3 DEF Open
      <4> QED  BY <4>1, <1>3 DEF IInv, FaultsExplained
    <3> QED  BY <3>1, <2>1 DEF FaultsExplained, Open
  <2>5. HistoryIsOpen'
    BY <1>3, <2>3 DEF IInv, TypeOK, HistoryIsOpen
  <2>6. PackedWhereItIs'
    BY <2>3, FreeValues, RepositoryValues DEF IInv, PackedWhereItIs
  <2>7. OptionsUnset'
    BY <2>3, FreeValues DEF IInv, OptionsUnset
  <2> QED  BY <2>2, <2>4, <2>5, <2>6, <2>7 DEF IInv
<1> QED  BY <1>2, <1>3 DEF CloseRepository

-----------------------------------------------------------------------------
(* Execute *)

\* The process ends; what FaultsExplained says of that place holds.
LEMMA FaultInv ==
  ASSUME IInv, Callable, NEW t \in Handle, IsType(t, "target"),
         NEW a \in {"install", "configure", "repair", "verify"},
         NEW how \in {"null", "assertion", "died"}, Faults(a, t, how),
         disk' \in [Path -> DbState], NEW path, path = handle[t].path,
         how = "null" => a \in {"configure", "repair"} /\ handle[t].p = NullRepository,
         how = "assertion" =>
            \/ a = "repair" /\ path \in PackedPath
            \/ a \in {"repair", "verify"} /\ path \notin PackedPath /\ disk'[path] \in HasSchema,
         how = "died" => disk'[path] \in HasSchema
  PROVE  IInv'
<1>1. /\ last' = [call |-> a, h |-> t, result |-> "Error"] /\ fault' = how
      /\ UNCHANGED <<installer, callbacks, handle, reports, created, installed, readOnly>>
  BY DEF Faults, Executed
<1>2. last'.call = a /\ last'.h = t /\ last'.result = "Error"
  BY <1>1
<1>3. TypeOK'
  BY <1>1, <1>2 DEF IInv, TypeOK, Result
<1>4. how = "null" => t \in created \ installed
  BY DEF IInv, FaultsExplained, IsType
<1>5. IsType(t, "target")' /\ handle'[t].path = path
  BY <1>1 DEF IsType, Open
<1>6. FaultsExplained'
  <2>1. \A h \in Handle :
           Open(h)' /\ handle'[h].p = NullRepository => h \in created' \ installed'
    BY <1>1 DEF IInv, FaultsExplained, Open
  <2>2. fault' = "null" => last'.call \in {"configure", "repair"} /\ last'.h \in created' \ installed'
    BY <1>1, <1>2, <1>4
  <2>3. fault' = "assertion" =>
              \/ last'.call = "repair" /\ path \in PackedPath
              \/ /\ last'.call \in {"repair", "verify"}
                 /\ path \notin PackedPath /\ disk'[path] \in HasSchema
    BY <1>1, <1>2
  <2>4. fault' = "died" => disk'[path] \in HasSchema
    BY <1>1
  <2>5. handle'[last'.h].path = path /\ IsType(last.h, "target")'
    BY <1>2, <1>5 DEF IsType, Open
  <2> QED  BY <2>1, <2>2, <2>3, <2>4, <2>5 DEF FaultsExplained
<1>7. HistoryIsOpen' /\ PackedWhereItIs' /\ OptionsUnset'
  BY <1>1 DEF IInv, HistoryIsOpen, PackedWhereItIs, OptionsUnset
<1> QED  BY <1>3, <1>6, <1>7 DEF IInv

LEMMA DiesInv ==
  ASSUME IInv, Callable, NEW t \in Handle, IsType(t, "target"),
         NEW a \in {"install", "configure"}, DiesConfiguring(a, t)
  PROVE  IInv'
<1>1. handle[t].path \in Path /\ disk \in [Path -> DbState]
  BY OpenValues DEF IInv, TypeOK, IsType, KylaRepositoryImpl
<1>2. disk' \in [Path -> DbState] /\ disk'[handle[t].path] \in HasSchema
  BY <1>1 DEF DiesConfiguring, DbState, HasSchema
<1> QED  BY <1>2, FaultInv DEF DiesConfiguring

LEMMA FilesFaultInv ==
  ASSUME IInv, Callable, NEW t \in Handle, IsType(t, "target"),
         NEW a \in {"repair", "verify"}, FilesFault(a, t), disk' = disk,
         disk[handle[t].path] \in HasSchema, a = "verify" => handle[t].path \notin PackedPath
  PROVE  IInv'
<1>1. PICK how \in {"assertion", "died"} : Faults(a, t, how)
  BY DEF FilesFault
<1> QED  BY <1>1, FaultInv DEF IInv, TypeOK

LEMMA InstallInv ==
  ASSUME IInv, Callable, NEW t \in Handle, IsType(t, "target"), NEW s \in Handle, Install(t, s)
  PROVE  IInv'
<1> DEFINE path == handle[t].path
<1>1. CASE Fail("install", t)
  BY <1>1, FailInv
<1>2. CASE /\ \E d \in {"empty", "partial", "mixed"} : disk' = [disk EXCEPT ![path] = d]
           /\ Executed("install", t, "Error")
           /\ UNCHANGED <<installer, callbacks, handle, reports, fault, created, installed, readOnly>>
  <2>1. disk' \in [Path -> DbState]
    BY <1>2 DEF IInv, TypeOK, DbState
  <2>2. last'.h \in Handle \union {NoHandle} /\ last'.result \in Result
    BY <1>2 DEF Executed, Result
  <2> QED  BY <1>2, <2>1, <2>2, SameHandlesInv DEF Callable, IInv, TypeOK
<1>3. CASE /\ disk' = [disk EXCEPT ![path] = "clean"]
           /\ handle' = [handle EXCEPT ![t].p = Deployed(TRUE)]
           /\ installed' = installed \union {t}
           /\ Executed("install", t, "Ok")
           /\ UNCHANGED <<installer, callbacks, reports, fault, created, readOnly>>
  <2> DEFINE v == [handle[t] EXCEPT !.p = Deployed(TRUE)]
  <2>1. handle[t] \in KylaRepositoryImpl
    BY OpenValues DEF IInv, IsType
  <2>2. v \in KylaRepositoryImpl /\ v.p = Deployed(TRUE) /\ handle' = [handle EXCEPT ![t] = v]
    BY <2>1, <1>3, RepositoryValues DEF KylaRepositoryImpl
  <2>6. v.options = 0
    BY <2>1 DEF IInv, OptionsUnset, KylaRepositoryImpl
  <2>3. v.p # NullRepository /\ v.p.kind # "packed"
    BY <2>2, RepositoryValues
  <2>4. disk' \in [Path -> DbState]
    BY <1>3 DEF IInv, TypeOK, DbState
  <2>5. last'.h \in Handle \union {NoHandle} /\ last'.result \in Result
    BY <1>3 DEF Executed, Result
  <2> HIDE DEF v
  <2> QED  BY <1>3, <2>2, <2>3, <2>4, <2>5, <2>6, HandleInv DEF IInv, TypeOK
<1>4. CASE DiesConfiguring("install", t)
  BY <1>4, DiesInv
<1> QED  BY <1>1, <1>2, <1>3, <1>4 DEF Install

LEMMA ConfigureInv ==
  ASSUME IInv, Callable, NEW t \in Handle, IsType(t, "target"), NEW s \in Handle, Configure(t, s)
  PROVE  IInv'
<1> DEFINE path == handle[t].path
<1>1. CASE Fail("configure", t)
  BY <1>1, FailInv
<1>2. CASE handle[t].p = NullRepository /\ Faults("configure", t, "null") /\ disk' = disk
  BY <1>2, FaultInv DEF IInv, TypeOK
<1>3. CASE /\ CleansUp(t)
           /\ disk' = [disk EXCEPT ![path] = "mixed"]
           /\ \E a \in BOOLEAN : /\ handle[t].p.attached => a
                                 /\ handle' = [handle EXCEPT ![t].p.attached = a]
           /\ Executed("configure", t, "Error")
           /\ UNCHANGED <<installer, callbacks, reports, fault, created, installed, readOnly>>
  <2>1. PICK a \in BOOLEAN : handle' = [handle EXCEPT ![t].p.attached = a]
    BY <1>3
  <2> DEFINE v == [handle[t] EXCEPT !.p = [handle[t].p EXCEPT !.attached = a]]
  <2>2. handle[t] \in KylaRepositoryImpl
    BY OpenValues DEF IInv, IsType
  <2>3. handle[t].p \in Repository
    BY <2>2 DEF KylaRepositoryImpl
  <2>4. [handle[t].p EXCEPT !.attached = a] \in Repository
        /\ [handle[t].p EXCEPT !.attached = a].kind = handle[t].p.kind
        /\ [handle[t].p EXCEPT !.attached = a].write = handle[t].p.write
    BY <2>3 DEF Repository
  <2>5. v \in KylaRepositoryImpl /\ v.p = [handle[t].p EXCEPT !.attached = a] /\ v.options = 0
    BY <2>2, <2>4 DEF KylaRepositoryImpl, IInv, OptionsUnset
  <2>6. handle' = [handle EXCEPT ![t] = v]
    BY <2>1
  <2>7. v.p # NullRepository /\ v.p.kind # "packed"
    <3>1. v.p.kind = handle[t].p.kind /\ v.p.write = handle[t].p.write
      BY <2>4, <2>5
    <3>2. handle[t].p.kind # "packed" /\ handle[t].p.write
      BY <1>3 DEF CleansUp
    <3>3. ~NullRepository.write  BY DEF NullRepository
    <3> HIDE DEF v
    <3> QED  BY <3>1, <3>2, <3>3
  <2>8. disk' \in [Path -> DbState]
    BY <1>3 DEF IInv, TypeOK, DbState
  <2>9. last'.h \in Handle \union {NoHandle} /\ last'.result \in Result
    BY <1>3 DEF Executed, Result
  <2> HIDE DEF v
  <2> QED  BY <1>3, <2>5, <2>6, <2>7, <2>8, <2>9, HandleInv DEF IInv, TypeOK
<1>4. CASE /\ disk' = [disk EXCEPT ![path] = "clean"]
           /\ Executed("configure", t, "Ok")
           /\ UNCHANGED <<installer, callbacks, handle, reports, fault, created, installed, readOnly>>
  <2>1. disk' \in [Path -> DbState]
    BY <1>4 DEF IInv, TypeOK, DbState
  <2>2. last'.h \in Handle \union {NoHandle} /\ last'.result \in Result
    BY <1>4 DEF Executed, Result
  <2> QED  BY <1>4, <2>1, <2>2, SameHandlesInv DEF Callable, IInv, TypeOK
<1>5. CASE DiesConfiguring("configure", t)
  BY <1>5, DiesInv
<1> QED  BY <1>1, <1>2, <1>3, <1>4, <1>5 DEF Configure

LEMMA RepairInv ==
  ASSUME IInv, Callable, NEW t \in Handle, IsType(t, "target"), Repair(t)
  PROVE  IInv'
<1>1. CASE Fail("repair", t)
  BY <1>1, FailInv
<1>2. CASE handle[t].p = NullRepository /\ Faults("repair", t, "null") /\ disk' = disk
  BY <1>2, FaultInv DEF IInv, TypeOK
<1>3. CASE handle[t].p.kind = "packed" /\ Faults("repair", t, "assertion") /\ disk' = disk
  <2>1. handle[t].path \in PackedPath  BY <1>3 DEF IInv, PackedWhereItIs
  <2> QED  BY <1>3, <2>1, FaultInv DEF IInv, TypeOK
<1>4. CASE Executed("repair", t, "Ok") /\ Keep
  BY <1>4, KeepInv DEF Executed, Result
<1>5. CASE FilesFault("repair", t) /\ disk' = disk /\ disk[handle[t].path] \in HasSchema
  BY <1>5, FilesFaultInv
<1> QED  BY <1>1, <1>2, <1>3, <1>4, <1>5 DEF Repair

LEMMA VerifyInv ==
  ASSUME IInv, Callable, NEW t \in Handle, IsType(t, "target"), Verify(t)
  PROVE  IInv'
<1> DEFINE path == handle[t].path
<1>1. handle[t] \in KylaRepositoryImpl /\ path \in Path
  BY OpenValues DEF IInv, IsType, KylaRepositoryImpl
<1>2. VerifyWrites(t) \in BOOLEAN
  BY DEF VerifyWrites, ReadOnlyHandle
<1>3. CASE Fail("verify", t)
  BY <1>3, FailInv
<1>4. ASSUME NEW p \in OpenRepository(path, VerifyWrites(t)), p # NullRepository,
             handle' = [handle EXCEPT ![t].p = p],
             \/ Executed("verify", t, "Error") /\ UNCHANGED reports
             \/ Reported /\ \E result \in {"Ok", "Error"} : Executed("verify", t, result),
             UNCHANGED <<installer, callbacks, disk, fault, created, installed, readOnly>>
      PROVE  IInv'
  <2> DEFINE v == [handle[t] EXCEPT !.p = p]
  <2>1. p \in Repository /\ (p.kind = "packed" => path \in PackedPath)
    BY <1>1, <1>2, <1>4, OpenedValues
  <2>2. v \in KylaRepositoryImpl /\ v.p = p /\ v.path = path /\ v.options = 0
    BY <1>1, <2>1 DEF KylaRepositoryImpl, IInv, OptionsUnset
  <2>3. handle' = [handle EXCEPT ![t] = v]
    BY <1>4
  <2>4. reports' \in {"none", "ok", "bad"}
    BY <1>4 DEF IInv, TypeOK, Reported
  <2>5. last'.h \in Handle \union {NoHandle} /\ last'.result \in Result
    BY <1>4 DEF Executed, Result
  <2> HIDE DEF v
  <2> QED  BY <1>4, <2>1, <2>2, <2>3, <2>4, <2>5, HandleInv DEF IInv, TypeOK
<1>5. ASSUME NEW p \in OpenRepository(path, VerifyWrites(t)), p.kind = "deployed",
             disk[path] \in HasSchema, disk' = disk, FilesFault("verify", t)
      PROVE  IInv'
  <2>1. path \notin PackedPath
    BY <1>5, RepositoryValues DEF OpenRepository
  <2> QED  BY <1>5, <2>1, FilesFaultInv
<1> QED  BY <1>3, <1>4, <1>5 DEF Verify

LEMMA ExecuteInv ==
  ASSUME IInv, NEW a \in Action, NEW t \in Handle \union {NoHandle}, NEW s \in Handle \union {NoHandle},
         NEW d \in DesiredState, Execute(a, t, s, d)
  PROVE  IInv'
<1>1. Callable  BY DEF Execute
<1>2. CASE Rejected(a, t, s, d)
  BY <1>1, <1>2, RejectInv DEF Execute
<1>3. CASE ~Rejected(a, t, s, d)
  <2>1. IsType(t, "target") /\ IsType(s, "source") /\ t \in Handle /\ s \in Handle
    BY <1>3 DEF Rejected, IsType, Open
  <2>2. Install(t, s) \/ Configure(t, s) \/ Repair(t) \/ Verify(t)
    BY <1>3 DEF Execute
  <2> QED  BY <1>1, <2>1, <2>2, InstallInv, ConfigureInv, RepairInv, VerifyInv
<1> QED  BY <1>2, <1>3

-----------------------------------------------------------------------------
(* The invariant *)

LEMMA CrashInv ==
  ASSUME IInv, NEW t \in Handle, Crash(t)
  PROVE  IInv'
<1>1. last' = [call |-> "crash", h |-> t, result |-> "Error"] /\ fault' = "crash"
  BY DEF Crash, Executed
<1>2. UNCHANGED <<installer, callbacks, handle, reports, created, installed, readOnly>>
  BY DEF Crash
<1>3. disk' \in [Path -> DbState]
  <2>1. handle[t] \in KylaRepositoryImpl
    BY OpenValues DEF IInv, Crash, IsType
  <2>2. handle[t].path \in Path /\ disk \in [Path -> DbState]
    BY <2>1 DEF KylaRepositoryImpl, IInv, TypeOK
  <2>3. Interrupted(handle[t].path) \subseteq DbState
    BY <2>2 DEF Interrupted, DbState
  <2> QED  BY <2>2, <2>3 DEF Crash
<1>4. TypeOK'
  BY <1>1, <1>2, <1>3 DEF IInv, TypeOK, Result
<1>5. FaultsExplained' /\ HistoryIsOpen' /\ PackedWhereItIs' /\ OptionsUnset'
  BY <1>1, <1>2 DEF IInv, FaultsExplained, HistoryIsOpen, PackedWhereItIs, OptionsUnset, Open
<1> QED  BY <1>4, <1>5 DEF IInv

LEMMA RestartInv ==
  ASSUME IInv, Restart
  PROVE  IInv'
<1>1. \A h \in Handle : handle'[h] = Free
  BY DEF Restart
<1>2. TypeOK'
  BY DEF Restart, IInv, TypeOK, Return, Executed, Result
<1>3. FaultsExplained' /\ HistoryIsOpen' /\ PackedWhereItIs' /\ OptionsUnset'
  BY <1>1, FreeValues, RepositoryValues
     DEF Restart, FaultsExplained, HistoryIsOpen, PackedWhereItIs, OptionsUnset, Open
<1> QED  BY <1>2, <1>3 DEF IInv

LEMMA InitInv == Init => IInv
<1> SUFFICES ASSUME Init PROVE IInv
  OBVIOUS
<1>1. \A h \in Handle : handle[h] = Free
  BY DEF Init
<1>2. TypeOK
  BY DEF Init, TypeOK, DbState, Result
<1>3. FaultsExplained /\ HistoryIsOpen /\ PackedWhereItIs /\ OptionsUnset
  BY <1>1, FreeValues, RepositoryValues
     DEF Init, FaultsExplained, HistoryIsOpen, PackedWhereItIs, OptionsUnset, Open
<1> QED  BY <1>2, <1>3 DEF IInv

LEMMA CallInv ==
  ASSUME IInv, Call
  PROVE  IInv'
  BY InstallerInv, DestroyInv, CallbackInv, VariableInv, OpenSourceInv, OpenTargetInv, CloseInv,
     GetPropertyInv, ExecuteInv DEF Call

LEMMA NextInv ==
  ASSUME IInv, [Next]_vars
  PROVE  IInv'
<1>1. CASE Call  BY <1>1, CallInv
<1>2. CASE \E t \in Handle : Crash(t)  BY <1>2, CrashInv
<1>3. CASE Restart  BY <1>3, RestartInv
<1>4. CASE UNCHANGED vars
  <2>1. TypeOK'  BY <1>4 DEF vars, IInv, TypeOK
  <2>2. FaultsExplained' /\ HistoryIsOpen' /\ PackedWhereItIs' /\ OptionsUnset'
    BY <1>4 DEF vars, IInv, FaultsExplained, HistoryIsOpen, PackedWhereItIs, OptionsUnset, IsType, Open
  <2> QED  BY <2>1, <2>2 DEF IInv
<1> QED  BY <1>1, <1>2, <1>3, <1>4 DEF Next

LEMMA Invariance == Spec => []IInv
<1>1. IInv /\ [Next]_vars => IInv'
  BY NextInv
<1> QED  BY <1>1, InitInv, PTL DEF Spec

(***************************************************************************)
(* For any number of handles and directories the state of the API stays    *)
(* well typed, whatever the sequence of calls, crashes and restarts.       *)
(***************************************************************************)
THEOREM TypeCorrect == Spec => []TypeOK
  BY Invariance, PTL DEF IInv

(***************************************************************************)
(* For any number of handles and directories, and whatever the sequence of *)
(* calls: a repository is null only between OpenTarget with Create and a   *)
(* successful Install, an assertion fails only in Repair, or in Verify of  *)
(* a deployed repository, and a process that dies otherwise leaves a       *)
(* database with its schema (Kyla.cpp:196-207, :327-357, Repository.h:65). *)
(***************************************************************************)
THEOREM FaultsCorrect == Spec => []FaultsExplained
  BY Invariance, PTL DEF IInv

-----------------------------------------------------------------------------
(* What a step does to open handles and to databases *)

\* Calls other than Execute leave the databases alone, and a handle as it is or free.
LEMMA OtherCalls ==
  ASSUME IInv, Call, ~ \E a \in Action, t, s \in Handle \union {NoHandle}, d \in DesiredState :
                          Execute(a, t, s, d)
  PROVE  /\ disk' = disk /\ last'.h = NoHandle
         /\ \A h \in Handle : Open(h) => handle'[h] \in {handle[h], Free}
<1>1. CASE \E supported \in BOOLEAN : CreateInstaller(supported)
  BY <1>1 DEF CreateInstaller, Keep, Return, Executed
<1>2. CASE DestroyInstaller
  BY <1>2 DEF DestroyInstaller, Return, Executed
<1>3. CASE \E c \in Callback, set \in BOOLEAN : SetCallback(c, set)
  BY <1>3 DEF SetCallback, Return, Executed
<1>4. CASE \E named \in BOOLEAN : SetVariable(named) \/ GetVariable(named)
  BY <1>4 DEF SetVariable, GetVariable, Reject, Keep, Return, Executed
<1>5. CASE \E h \in Handle, path \in Path, options \in SUBSET Option :
             OpenSource(h, path, options) \/ OpenTarget(h, path, options)
  <2>1. PICK h \in Handle, path \in Path, options \in SUBSET Option :
               OpenSource(h, path, options) \/ OpenTarget(h, path, options)
    BY <1>5
  <2>2. ~Open(h)  BY <2>1 DEF OpenSource, OpenTarget
  <2>3. disk' = disk /\ (handle' = handle \/ \E v : handle' = [handle EXCEPT ![h] = v])
    BY <2>1 DEF OpenSource, OpenTarget, Allocate, Reject, Keep
  <2>4. \E result : Return(result)
    BY <2>1 DEF OpenSource, OpenTarget, Reject
  <2>5. last'.h = NoHandle
    BY <2>4 DEF Return, Executed
  <2> QED  BY <2>2, <2>3, <2>5 DEF IInv, TypeOK
<1>6. CASE \E h \in Handle \union {NoHandle} : CloseRepository(h)
  BY <1>6 DEF CloseRepository, Reject, Keep, Return, Executed, IInv, TypeOK
<1>7. CASE \E h \in Handle \union {NoHandle}, known \in BOOLEAN, buffer \in Buffer :
             GetProperty(h, known, buffer)
  BY <1>7 DEF GetProperty, Reject, Keep, Return, Executed
<1> QED  BY <1>1, <1>2, <1>3, <1>4, <1>5, <1>6, <1>7 DEF Call

LEMMA ExecutedNames ==
  ASSUME NEW call, NEW h, NEW result, Executed(call, h, result)
  PROVE  last'.call = call /\ last'.h = h
  BY DEF Executed

\* An Execute that is not rejected names its target in `last'.
LEMMA ExecuteTargets ==
  ASSUME IInv, NEW a \in Action, NEW t \in Handle \union {NoHandle}, NEW s \in Handle \union {NoHandle},
         NEW d \in DesiredState, Execute(a, t, s, d)
  PROVE  \/ Reject
         \/ /\ t \in Handle /\ s \in Handle /\ IsType(t, "target") /\ last'.h = t
            /\ \/ last'.call = "install" /\ Install(t, s)
               \/ last'.call = "configure" /\ Configure(t, s)
               \/ last'.call = "repair" /\ Repair(t)
               \/ last'.call = "verify" /\ Verify(t)
<1>1. CASE Rejected(a, t, s, d)
  BY <1>1 DEF Execute
<1>2. CASE ~Rejected(a, t, s, d)
  <2>1. IsType(t, "target") /\ IsType(s, "source") /\ t \in Handle /\ s \in Handle
    BY <1>2 DEF Rejected, IsType, Open
  <2>2. Install(t, s) => last'.call = "install" /\ last'.h = t
    BY ExecutedNames DEF Install, Fail, DiesConfiguring, Faults
  <2>3. Configure(t, s) => last'.call = "configure" /\ last'.h = t
    BY ExecutedNames DEF Configure, Fail, DiesConfiguring, Faults
  <2>4. Repair(t) => last'.call = "repair" /\ last'.h = t
    BY ExecutedNames DEF Repair, Fail, FilesFault, Faults
  <2>5. Verify(t) => last'.call = "verify" /\ last'.h = t
    BY ExecutedNames DEF Verify, Fail, FilesFault, Faults
  <2>6. Install(t, s) \/ Configure(t, s) \/ Repair(t) \/ Verify(t)
    BY <1>2 DEF Execute
  <2> QED  BY <2>1, <2>2, <2>3, <2>4, <2>5, <2>6
<1> QED  BY <1>1, <1>2

\* What SpoiledStaysSpoiled says of a step and a handle.
StaysSpoiled(h) ==
    /\ (last'.h = h /\ disk' # disk) =>
          /\ last'.result # "Ok" /\ handle[h].p.write
          /\ disk' = [disk EXCEPT ![handle[h].path] = "mixed"]
    /\ (last'.h = h /\ last'.call = "configure" => last'.result # "Ok")
    /\ (Open(h)' => Spoiled(h)')

LEMMA SpoiledConfigure ==
  ASSUME IInv, NEW h \in Handle, Spoiled(h), NEW s, Configure(h, s), ~Faults("configure", h, "null")
  PROVE  /\ last'.result = "Error"
         /\ disk' # disk => /\ handle[h].p.write
                            /\ disk' = [disk EXCEPT ![handle[h].path] = "mixed"]
         /\ Spoiled(h)'
<1>1. Open(h) /\ handle[h].type = "target" /\ handle[h].p # NullRepository
      /\ (handle[h].p.attached \/ ~handle[h].p.write)
  BY DEF Spoiled, IsType
<1>2. CASE Fail("configure", h)
  BY <1>2 DEF Fail, Executed, Keep, Spoiled, IsType, Open
<1>3. CASE /\ CleansUp(h)
           /\ disk' = [disk EXCEPT ![handle[h].path] = "mixed"]
           /\ \E a \in BOOLEAN : /\ handle[h].p.attached => a
                                 /\ handle' = [handle EXCEPT ![h].p.attached = a]
           /\ Executed("configure", h, "Error")
  <2>1. handle[h].p.write  BY <1>3 DEF CleansUp
  <2>2. handle' = [handle EXCEPT ![h].p.attached = TRUE]
    BY <1>1, <1>3, <2>1
  <2>3. handle[h] \in KylaRepositoryImpl  BY <1>1, OpenValues DEF IInv
  <2>4. handle[h].p \in Repository  BY <2>3 DEF KylaRepositoryImpl
  <2>5. PICK q : q = [handle[h].p EXCEPT !.attached = TRUE]
    OBVIOUS
  <2>6. q.attached = TRUE /\ q # NullRepository
    BY <2>4, <2>5 DEF Repository, NullRepository
  <2>7. handle'[h] = [handle[h] EXCEPT !.p = q]
    BY <2>2, <2>5 DEF IInv, TypeOK
  <2>8. handle'[h].p = q /\ handle'[h].type = "target"
    BY <1>1, <2>3, <2>7 DEF KylaRepositoryImpl
  <2>9. handle'[h] # Free
    BY <2>8, FreeValues
  <2>10. Spoiled(h)'
    BY <2>6, <2>8, <2>9 DEF Spoiled, IsType, Open
  <2> QED  BY <1>3, <2>1, <2>10 DEF Executed
<1>4. ~(CleansUp(h) /\ ~handle[h].p.attached)
  BY <1>1 DEF CleansUp
<1> QED  BY <1>1, <1>2, <1>3, <1>4 DEF Configure

LEMMA SpoiledStep ==
  ASSUME IInv, Next, NEW h \in Handle, Spoiled(h), disk[handle[h].path] \in HasSchema
  PROVE  StaysSpoiled(h)
<1>1. Open(h) /\ handle[h].type = "target" /\ handle[h].p # NullRepository
  BY DEF Spoiled, IsType
<1>2. handle'[h] \in {handle[h], Free} => (Open(h)' => Spoiled(h)')
  BY DEF Spoiled, IsType, Open
<1>3. ~Creatable(handle[h].path)
  BY DEF Creatable, HasSchema
<1>4. last'.h = NoHandle /\ handle'[h] \in {handle[h], Free} => StaysSpoiled(h)
  BY <1>2 DEF StaysSpoiled
<1>5. CASE Call
  <2>1. CASE ~ \E a \in Action, t, s \in Handle \union {NoHandle}, d \in DesiredState :
                  Execute(a, t, s, d)
    BY <1>1, <1>4, <1>5, <2>1, OtherCalls
  <2>2. ASSUME NEW a \in Action, NEW t \in Handle \union {NoHandle}, NEW s \in Handle \union {NoHandle},
               NEW d \in DesiredState, Execute(a, t, s, d)
        PROVE  StaysSpoiled(h)
    <3>1. CASE Reject  BY <3>1, <1>4 DEF Reject, Keep, Return, Executed
    <3>2. CASE t \in Handle /\ last'.h = t /\ t # h
      <4>1. handle'[h] = handle[h]
        <5>0. t # h /\ DOMAIN handle = Handle
          BY <3>2 DEF IInv, TypeOK
        <5>1. CASE Install(t, s)
          BY <5>0, <5>1 DEF Install, Fail, Keep, DiesConfiguring, Faults
        <5>2. CASE Configure(t, s)
          BY <5>0, <5>2 DEF Configure, Fail, DiesConfiguring, Faults, Keep
        <5>3. CASE Repair(t)
          BY <5>3 DEF Repair, Fail, FilesFault, Faults, Keep
        <5>4. CASE Verify(t)
          BY <5>0, <5>4 DEF Verify, Fail, FilesFault, Faults, Keep
        <5>5. CASE Reject
          BY <5>5 DEF Reject, Keep
        <5> QED  BY <2>2, <5>1, <5>2, <5>3, <5>4, <5>5, ExecuteTargets
      <4> QED  BY <4>1, <3>2, <1>2 DEF StaysSpoiled
    <3>3. CASE t = h /\ last'.call = "install" /\ Install(t, s)
      BY <3>3, <1>2, <1>3 DEF Install, Fail, Keep, StaysSpoiled
    <3>4. CASE t = h /\ last'.call = "configure" /\ Configure(t, s)
      <4>1. CASE Faults("configure", h, "null") /\ disk' = disk
        BY <4>1, <1>2 DEF Faults, Executed, StaysSpoiled
      <4>2. CASE ~Faults("configure", h, "null")
        BY <3>4, <4>2, SpoiledConfigure DEF StaysSpoiled
      <4>3. CASE Faults("configure", h, "null") /\ disk' # disk
        <5>1. fault' = "null"  BY <4>3 DEF Faults
        <5>2. Callable  BY <2>2 DEF Execute
        <5>3. fault' = "died" \/ fault' = fault \/ (Faults("configure", h, "null") /\ disk' = disk)
          BY <3>4 DEF Configure, Fail, Keep, DiesConfiguring, Faults
        <5> QED  BY <4>3, <5>1, <5>2, <5>3 DEF Callable, Running
      <4> QED  BY <4>1, <4>2, <4>3
    <3>5. CASE t = h /\ last'.call = "repair" /\ Repair(t)
      BY <3>5, <1>2 DEF Repair, Fail, FilesFault, Faults, Keep, StaysSpoiled
    <3>6. CASE t = h /\ last'.call = "verify" /\ Verify(t)
      <4>1. ~VerifyWrites(t)
        BY <3>6 DEF IInv, OptionsUnset, VerifyWrites, ReadOnlyHandle, ReadOnlyBit
      <4>2. CASE Fail("verify", t)
        BY <3>6, <4>2, <1>2 DEF Fail, Keep, StaysSpoiled
      <4>3. ASSUME NEW p \in OpenRepository(handle[t].path, VerifyWrites(t)), p # NullRepository,
                   handle' = [handle EXCEPT ![t].p = p], disk' = disk
            PROVE  StaysSpoiled(h)
        <5>1. handle[h] \in KylaRepositoryImpl  BY <1>1, OpenValues DEF IInv
        <5>2. handle'[h] = [handle[h] EXCEPT !.p = p]  BY <4>3, <3>6 DEF IInv, TypeOK
        <5>3. handle'[h].p = p /\ handle'[h].type = "target"
          BY <5>1, <5>2, <1>1 DEF KylaRepositoryImpl
        <5>4. ~p.write  BY <4>1, <4>3 DEF OpenRepository, Packed, Deployed
        <5>5. Open(h)' => Spoiled(h)'  BY <4>3, <5>3, <5>4 DEF Spoiled, IsType, Open
        <5> QED  BY <3>6, <4>3, <5>5 DEF StaysSpoiled
      <4>4. CASE FilesFault("verify", t) /\ disk' = disk
        BY <3>6, <4>4, <1>2 DEF FilesFault, Faults, StaysSpoiled
      <4> QED  BY <3>6, <4>2, <4>3, <4>4 DEF Verify
    <3> QED  BY <2>2, <3>1, <3>2, <3>3, <3>4, <3>5, <3>6, ExecuteTargets
  <2> QED  BY <2>1, <2>2
<1>6. ASSUME NEW t \in Handle, Crash(t) PROVE StaysSpoiled(h)
  <2>1. last'.h = t /\ last'.call = "crash" /\ last'.result = "Error" /\ handle' = handle
    BY <1>6 DEF Crash, Executed
  <2>2. t = h => handle[h].p.write /\ disk' = [disk EXCEPT ![handle[h].path] = "mixed"]
    BY <1>3, <1>6 DEF Crash, CleansUp, Interrupted
  <2> QED  BY <2>1, <2>2, <1>2 DEF StaysSpoiled
<1>7. CASE Restart
  BY <1>7, <1>4 DEF Restart, Return, Executed
<1> QED  BY <1>5, <1>6, <1>7 DEF Next

(***************************************************************************)
(* For any number of handles and directories, a handle that Verify or a    *)
(* failed Configure has left unable to configure an installed directory    *)
(* stays so until it is closed; what is done through it to the database is *)
(* at most the deletion of unused contents that comes before the source is *)
(* attached (Kyla.cpp:359, DeployedRepository.cpp:1133-1147).              *)
(***************************************************************************)
THEOREM SpoiledCorrect == Spec => SpoiledStaysSpoiled
<1>1. IInv /\ [Next]_vars =>
        [\A h \in Handle :
          (Spoiled(h) /\ disk[handle[h].path] \in HasSchema) =>
              /\ (last'.h = h /\ disk' # disk) =>
                    /\ last'.result # "Ok" /\ handle[h].p.write
                    /\ disk' = [disk EXCEPT ![handle[h].path] = "mixed"]
              /\ (last'.h = h /\ last'.call = "configure" => last'.result # "Ok")
              /\ (Open(h)' => Spoiled(h)')]_vars
  BY SpoiledStep DEF StaysSpoiled
<1> QED  BY <1>1, Invariance, PTL DEF Spec, SpoiledStaysSpoiled

LEMMA WriteStep ==
  ASSUME IInv, [Next]_vars, NEW path \in Path, disk'[path] # disk[path]
  PROVE  /\ last'.call \in {"install", "configure", "crash"}
         /\ IsType(last'.h, "target") /\ handle[last'.h].path = path
         /\ (disk[path] \in HasSchema => disk'[path] \in HasSchema)
<1>0. disk \in [Path -> DbState]  BY DEF IInv, TypeOK
<1>1. CASE Call
  <2>1. PICK a \in Action, t \in Handle \union {NoHandle}, s \in Handle \union {NoHandle},
             d \in DesiredState : Execute(a, t, s, d)
    BY <1>1, OtherCalls
  <2>2. ~Reject  BY DEF Reject, Keep
  <2>3. t \in Handle /\ IsType(t, "target") /\ last'.h = t
    BY <2>1, <2>2, ExecuteTargets
  <2>4. CASE last'.call = "install" /\ Install(t, s)
    BY <2>3, <2>4, <1>0 DEF Install, Fail, Keep, DiesConfiguring, Creatable, HasSchema
  <2>5. CASE last'.call = "configure" /\ Configure(t, s)
    BY <2>3, <2>5, <1>0 DEF Configure, Fail, Keep, DiesConfiguring, HasSchema
  <2>6. CASE Repair(t)
    BY <2>6 DEF Repair, Fail, Keep
  <2>7. CASE Verify(t)
    BY <2>7 DEF Verify, Fail, Keep
  <2> QED  BY <2>1, <2>2, <2>4, <2>5, <2>6, <2>7, ExecuteTargets
<1>2. ASSUME NEW t \in Handle, Crash(t)
      PROVE  /\ last'.call = "crash" /\ last'.h = t /\ IsType(t, "target") /\ handle[t].path = path
             /\ (disk[path] \in HasSchema => disk'[path] \in HasSchema)
  <2>1. last'.call = "crash" /\ last'.h = t /\ IsType(t, "target")
    BY <1>2 DEF Crash, Executed
  <2>2. PICK d \in Interrupted(handle[t].path) : disk' = [disk EXCEPT ![handle[t].path] = d]
    BY <1>2 DEF Crash
  <2>3. handle[t].path = path /\ disk'[path] = d
    BY <2>2, <1>0
  <2>4. disk[path] \in HasSchema => d \in HasSchema
    BY <2>2, <2>3 DEF Interrupted, Creatable, HasSchema
  <2> QED  BY <2>1, <2>3, <2>4
<1>3. CASE Restart  BY <1>3 DEF Restart
<1>4. CASE UNCHANGED vars  BY <1>4 DEF vars
<1> QED  BY <1>1, <1>2, <1>3, <1>4 DEF Next

(***************************************************************************)
(* For any number of handles and directories, a database changes only in   *)
(* an Install or Configure of its directory and never loses its schema.    *)
(***************************************************************************)
THEOREM WritesCorrect == Spec => OnlyTargetsWritten
<1>1. IInv /\ [Next]_vars =>
        [\A path \in Path : (disk'[path] # disk[path]) =>
          /\ last'.call \in {"install", "configure", "crash"}
          /\ IsType(last'.h, "target") /\ handle[last'.h].path = path
          /\ (disk[path] \in HasSchema => disk'[path] \in HasSchema)]_vars
  BY WriteStep
<1> QED  BY <1>1, Invariance, PTL DEF Spec, OnlyTargetsWritten

-----------------------------------------------------------------------------
(* The clients *)

USE CliAssumption

HandleOrNone == Handle \union {NoHandle}

\* What a command is given and what it has opened.
CliTypeOK ==
    /\ opened \in [source : HandleOrNone, target : HandleOrNone]
    /\ command \in Command => args \in [source : Source, target : Target]

LEMMA CliTypeInv == CliSpec => []CliTypeOK
<1>1. CliInit => CliTypeOK
  BY DEF CliInit, CliTypeOK, NoOpened, HandleOrNone, Command, Program
<1>2. ASSUME CliTypeOK, [CliNext]_allVars
      PROVE  CliTypeOK'
  <2>1. ASSUME NEW c \in Command \union {"own"}, Start(c) PROVE CliTypeOK'
    BY <1>2, <2>1 DEF CliTypeOK, Start, Command, Program
  <2>2. CASE Step
    <3>1. opened' \in [source : HandleOrNone, target : HandleOrNone]
      BY <1>2, <2>2 DEF CliTypeOK, Step, CallOf, HandleOrNone
    <3>2. UNCHANGED <<command, args>>  BY <2>2 DEF Step
    <3> QED  BY <1>2, <3>1, <3>2 DEF CliTypeOK
  <2>3. CASE Parse \/ OwnCall \/ CrashDuring
    BY <1>2, <2>3 DEF CliTypeOK, Parse, OwnCall, CrashDuring, cliVars
  <2>4. CASE End
    BY <2>4 DEF CliTypeOK, End, NoOpened, HandleOrNone, Command, Program
  <2>5. CASE UNCHANGED allVars
    BY <1>2, <2>5 DEF CliTypeOK, allVars, cliVars
  <2> QED  BY <1>2, <2>1, <2>2, <2>3, <2>4, <2>5 DEF CliNext
<1> QED  BY <1>1, <1>2, PTL DEF CliSpec

LEMMA CallOfIsCall ==
  ASSUME CliTypeOK, command \in Command, NEW c, CallOf(c)
  PROVE  Call \/ UNCHANGED vars
<1> DEFINE s == opened.source
           t == opened.target
<1>1. s \in HandleOrNone /\ t \in HandleOrNone /\ args.source \in Path /\ args.target \in Path
  BY DEF CliTypeOK
<1>2. CASE \E h \in Handle : OpenSource(h, args.source, {}) \/ OpenSource(h, args.source, {"readonly"})
  BY <1>1, <1>2 DEF Call, Option
<1>3. CASE \E h \in Handle : OpenTarget(h, args.target, {}) \/ OpenTarget(h, args.target, {"create"})
  BY <1>1, <1>3 DEF Call, Option
<1>4. CASE CreateInstaller(TRUE) \/ SetCallback("validation", TRUE) \/ SetVariable(TRUE) \/ DestroyInstaller
  BY <1>4 DEF Call, Callback
<1>5. CASE GetProperty(s, TRUE, "size") \/ GetProperty(s, TRUE, "enough")
  BY <1>1, <1>5 DEF Call, Buffer, HandleOrNone
<1>6. CASE c \in Action /\ \E d \in DesiredState : Execute(c, t, s, d)
  BY <1>1, <1>6 DEF Call, HandleOrNone
<1>7. CASE CloseRepository(s) \/ CloseRepository(t)
  BY <1>1, <1>7 DEF Call, HandleOrNone
<1>8. (c \in Action /\ \E d \in IF command \in Installs THEN {"bad", "good"} ELSE {"null"} :
          Execute(c, t, s, d))
      => c \in Action /\ \E d \in DesiredState : Execute(c, t, s, d)
  BY DEF DesiredState
<1>9. CASE UNCHANGED vars  BY <1>9
<1> QED
  BY <1>2, <1>3, <1>4, <1>5, <1>6, <1>7, <1>8, <1>9 DEF CallOf

(***************************************************************************)
(* Every step of a command, of a program that follows the rules of         *)
(* OwnCall, of a crash and of the end of a process is a call of the API, a *)
(* crash or restart of it, or none of its steps (main.cpp).                *)
(***************************************************************************)
THEOREM CliImplementsApi == CliSpec => Spec
<1>1. CliInit => Init
  BY DEF CliInit
<1>2. ASSUME CliTypeOK, [CliNext]_allVars
      PROVE  [Next]_vars
  <2>1. ASSUME NEW c \in Command \union {"own"}, Start(c) PROVE UNCHANGED vars
    BY <2>1 DEF Start
  <2>2. CASE Step
    BY <1>2, <2>2, CallOfIsCall DEF Step, Next
  <2>3. CASE Parse  BY <2>3 DEF Parse
  <2>4. CASE OwnCall  BY <2>4 DEF OwnCall, Next
  <2>5. CASE CrashDuring  BY <2>5 DEF CrashDuring, Next
  <2>6. CASE End  BY <2>6 DEF End, Next
  <2>7. CASE UNCHANGED allVars  BY <2>7 DEF allVars
  <2> QED  BY <1>2, <2>1, <2>2, <2>3, <2>4, <2>5, <2>6, <2>7 DEF CliNext
<1> QED  BY <1>1, <1>2, CliTypeInv, PTL DEF CliSpec, Spec

-----------------------------------------------------------------------------
(* What commands can rely on                                               *)

\* The commands that open a target and run Execute on it, and where.
OpensTarget == {"install", "configure", "validate", "repair"}
OpenAt(c) == IF c = "repair" THEN 3 ELSE 4
ExecuteAt(c) == IF c = "repair" THEN 4 ELSE 6

AtRest ==
    /\ command = "none" => fault = "none" /\ pc = 1 /\ exit = "none"
    /\ command = "own" => pc = 1 /\ exit = "none"
    /\ command \in Command => pc \in 1..(Len(Program[command]) + 1)

\* Between the two, its handle is open on the directory the command was given.
TargetOpened ==
    command \in OpensTarget /\ OpenAt(command) < pc /\ pc <= ExecuteAt(command) =>
        /\ IsType(opened.target, "target") /\ handle[opened.target].path = args.target
        /\ command # "install" => handle[opened.target].p # NullRepository

\* install and configure: the exit code is settled by Execute, which is the first call to
\* touch the database.
InstallProgress ==
    command \in Installs =>
        /\ pc <= 6 => exit = "none"
        /\ pc <= 6 /\ fault = "none" => disk[args.target] = before
        /\ pc > 6 /\ fault = "none" => exit # "none"
        /\ pc > 6 /\ exit = "Ok" =>
              /\ disk[args.target] = "clean"
              /\ command = "install" => before \in {"absent", "empty"}
              /\ command = "configure" => before \in HasSchema

\* validate: it settled by what the callback has been told when all calls are made.
ValidateProgress ==
    command = "validate" =>
        /\ pc \in 3..6 => "validation" \in callbacks
        /\ pc <= 9 => exit = "none"
        /\ pc \in 7..9 => disk[args.target] \in HasSchema /\ reports \in {"ok", "bad"}
        /\ exit = "Ok" => disk[args.target] \in HasSchema /\ reports = "ok"

\* The other commands leave the database of their target as it was.
TargetUntouched == command \in Command \ Installs => disk[args.target] = before

CommandInv ==
    /\ AtRest /\ TargetOpened /\ InstallProgress /\ ValidateProgress /\ TargetUntouched
    /\ CommandFaultsExplained

-----------------------------------------------------------------------------
(* The scripts of the commands                                             *)

CallName ==
    {"create", "callback", "key", "open source", "open to read", "open target", "open new target",
     "parse", "size", "fetch", "install", "configure", "repair", "verify", "close source",
     "close target", "destroy"}

ScriptStep == [call : CallName, on : {"throw", "ignore", "exit"}]
QuietStep == {s \in ScriptStep : s.call \notin Action}

LEMMA StepValues ==
  ASSUME NEW c \in CallName
  PROVE  /\ Throw(c) \in ScriptStep /\ Throw(c).call = c /\ Throw(c).on = "throw"
         /\ Ignore(c) \in ScriptStep /\ Ignore(c).call = c /\ Ignore(c).on = "ignore"
         /\ Exit(c) \in ScriptStep /\ Exit(c).call = c /\ Exit(c).on = "exit"
  BY DEF Throw, Ignore, Exit, ScriptStep

LEMMA Thrown ==
  ASSUME NEW c, NEW s, s = Throw(c)
  PROVE  s.call = c /\ s.on = "throw"
  BY DEF Throw

LEMMA Ignored ==
  ASSUME NEW c, NEW s, s = Ignore(c)
  PROVE  s.call = c /\ s.on = "ignore"
  BY DEF Ignore

LEMMA Exited ==
  ASSUME NEW c, NEW s, s = Exit(c)
  PROVE  s.call = c /\ s.on = "exit"
  BY DEF Exit

LEMMA Joined ==
  ASSUME NEW S, NEW a \in Seq(S), NEW b \in Seq(S)
  PROVE  /\ a \o b \in Seq(S) /\ Len(a \o b) = Len(a) + Len(b)
         /\ Len(a) \in Nat /\ Len(b) \in Nat
         /\ \A i \in 1..Len(a) : (a \o b)[i] = a[i]
         /\ \A i \in (Len(a) + 1)..(Len(a) + Len(b)) : (a \o b)[i] = b[i - Len(a)]
  OBVIOUS

LEMMA Tuple ==
  ASSUME NEW S, NEW a \in S, NEW b \in S, NEW c \in S
  PROVE  /\ <<a, b, c>> \in Seq(S) /\ Len(<<a, b, c>>) = 3
         /\ <<a, b, c>>[1] = a /\ <<a, b, c>>[2] = b /\ <<a, b, c>>[3] = c
         /\ <<a>> \in Seq(S) /\ <<a, b>> \in Seq(S) /\ <<>> \in Seq(S)
  OBVIOUS

LEMMA CloseAllValues ==
    /\ CloseAll \in Seq(ScriptStep) /\ Len(CloseAll) = 3
    /\ CloseAll[1] = Ignore("close source") /\ CloseAll[2] = Ignore("close target")
    /\ CloseAll[3] = Throw("destroy")
<1>1. /\ Ignore("close source") \in ScriptStep /\ Ignore("close target") \in ScriptStep
      /\ Throw("destroy") \in ScriptStep
  BY DEF Throw, Ignore, Exit, ScriptStep, CallName, QuietStep, Action
<1>2. PICK S : S = ScriptStep
  OBVIOUS
<1>3. PICK x \in S, y \in S, z \in S :
        x = Ignore("close source") /\ y = Ignore("close target") /\ z = Throw("destroy")
  BY <1>1, <1>2
<1>4. CloseAll = <<x, y, z>>
  BY <1>3 DEF CloseAll
<1>5. /\ <<x, y, z>> \in Seq(S) /\ Len(<<x, y, z>>) = 3
      /\ <<x, y, z>>[1] = x /\ <<x, y, z>>[2] = y /\ <<x, y, z>>[3] = z
  BY Tuple
<1> QED  BY <1>2, <1>3, <1>4, <1>5

LEMMA SixSteps ==
  ASSUME NEW S, NEW a \in S, NEW b \in S, NEW c \in S, NEW d \in S, NEW e \in S, NEW f \in S,
         NEW s, s = <<a, b, c, d, e, f>>
  PROVE  /\ s \in Seq(S) /\ Len(s) = 6
         /\ s[1] = a /\ s[2] = b /\ s[3] = c /\ s[4] = d /\ s[5] = e /\ s[6] = f
  OBVIOUS

LEMMA ValidateScript ==
    /\ Len(Validate) = 9
    /\ Validate[1] = Throw("create") /\ Validate[2] = Ignore("callback")
    /\ Validate[3] = Throw("open source") /\ Validate[4] = Throw("open target")
    /\ Validate[5] = Ignore("key") /\ Validate[6] = Throw("verify")
    /\ Validate[7] = Ignore("close source") /\ Validate[8] = Ignore("close target")
    /\ Validate[9] = Throw("destroy")
<1>1. PICK a \in Seq(ScriptStep) :
        /\ a = <<Throw("create"), Ignore("callback"), Throw("open source"), Throw("open target"),
                 Ignore("key"), Throw("verify")>>
        /\ Len(a) = 6
        /\ a[1] = Throw("create") /\ a[2] = Ignore("callback") /\ a[3] = Throw("open source")
        /\ a[4] = Throw("open target") /\ a[5] = Ignore("key") /\ a[6] = Throw("verify")
  <2>1. /\ Throw("create") \in ScriptStep /\ Throw("open source") \in ScriptStep
        /\ Ignore("key") \in ScriptStep /\ Ignore("callback") \in ScriptStep
        /\ Throw("open target") \in ScriptStep /\ Throw("verify") \in ScriptStep
    BY DEF Throw, Ignore, Exit, ScriptStep, CallName
  <2>2. PICK x1 \in ScriptStep, x2 \in ScriptStep, x3 \in ScriptStep,
             x4 \in ScriptStep, x5 \in ScriptStep, x6 \in ScriptStep :
          /\ x1 = Throw("create") /\ x2 = Ignore("callback") /\ x3 = Throw("open source")
          /\ x4 = Throw("open target") /\ x5 = Ignore("key") /\ x6 = Throw("verify")
    BY <2>1
  <2>3. PICK a : a = <<x1, x2, x3, x4, x5, x6>>
    OBVIOUS
  <2>4. /\ a \in Seq(ScriptStep) /\ Len(a) = 6
        /\ a[1] = x1 /\ a[2] = x2 /\ a[3] = x3 /\ a[4] = x4 /\ a[5] = x5 /\ a[6] = x6
    BY <2>3, SixSteps
  <2> QED  BY <2>2, <2>3, <2>4, Zenon
<1>2. CloseAll \in Seq(ScriptStep)
  BY CloseAllValues
<1>3. Validate = a \o CloseAll
  BY <1>1 DEF Validate
<1>4. /\ Len(Validate) = 6 + 3
      /\ \A i \in 1..6 : Validate[i] = a[i]
      /\ \A i \in (6 + 1)..(6 + 3) : Validate[i] = CloseAll[i - 6]
  <2>1. Len(a) = 6 /\ Len(CloseAll) = 3
    BY <1>1, CloseAllValues
  <2>2. PICK b \in Seq(ScriptStep) : b = CloseAll
    BY <1>2
  <2>3. /\ Len(a \o b) = Len(a) + Len(b)
        /\ \A i \in 1..Len(a) : (a \o b)[i] = a[i]
        /\ \A i \in (Len(a) + 1)..(Len(a) + Len(b)) : (a \o b)[i] = b[i - Len(a)]
    BY Joined
  <2> QED  BY <1>3, <2>1, <2>2, <2>3
<1>5. /\ Len(Validate) = 9
      /\ Validate[1] = a[1] /\ Validate[2] = a[2] /\ Validate[3] = a[3]
      /\ Validate[4] = a[4] /\ Validate[5] = a[5] /\ Validate[6] = a[6]
      /\ Validate[7] = CloseAll[1] /\ Validate[8] = CloseAll[2] /\ Validate[9] = CloseAll[3]
  BY <1>4
<1> QED
  BY <1>1, <1>5, CloseAllValues, Zenon

LEMMA RepairScript ==
    /\ Len(RepairCommand) = 7
    /\ RepairCommand[1] = Throw("create") /\ RepairCommand[2] = Throw("open source")
    /\ RepairCommand[3] = Throw("open target") /\ RepairCommand[4] = Exit("repair")
    /\ RepairCommand[5] = Ignore("close source") /\ RepairCommand[6] = Ignore("close target")
    /\ RepairCommand[7] = Ignore("destroy")
  BY DEF RepairCommand

\* The commands that only ask never call Execute.
LEMMA QueryScripts ==
    /\ \A property : QueryRepository(property) \in Seq(QuietStep)
    /\ \A property : QueryFeature(property) \in Seq(QuietStep)
<1>1. /\ Ignore("create") \in QuietStep /\ Throw("open to read") \in QuietStep
      /\ Throw("size") \in QuietStep /\ Throw("fetch") \in QuietStep
      /\ Ignore("size") \in QuietStep /\ Ignore("fetch") \in QuietStep
      /\ Ignore("close source") \in QuietStep /\ Throw("destroy") \in QuietStep
      /\ Throw("parse") \in QuietStep
  BY DEF Throw, Ignore, Exit, ScriptStep, CallName, QuietStep, Action
<1>2. ASSUME NEW property PROVE QueryRepository(property) \in Seq(QuietStep)
  <2>1. PICK a \in Seq(QuietStep) : a = <<Ignore("create"), Throw("open to read")>>
    BY <1>1, Tuple, Zenon
  <2>2. PICK b \in Seq(QuietStep) :
          b = IF property = "features" THEN <<Throw("size"), Throw("fetch")>> ELSE <<>>
    <3>1. <<Throw("size"), Throw("fetch")>> \in Seq(QuietStep) /\ <<>> \in Seq(QuietStep)
      BY <1>1, Tuple, Zenon
    <3> QED  BY <3>1, Zenon
  <2>3. PICK c \in Seq(QuietStep) : c = <<Ignore("close source"), Throw("destroy")>>
    BY <1>1, Tuple, Zenon
  <2>4. QueryRepository(property) = a \o b \o c
    BY <2>1, <2>2, <2>3 DEF QueryRepository
  <2>5. a \o b \in Seq(QuietStep)  BY Joined
  <2>6. (a \o b) \o c \in Seq(QuietStep)  BY <2>5, Joined
  <2> QED  BY <2>4, <2>6
<1>3. ASSUME NEW property PROVE QueryFeature(property) \in Seq(QuietStep)
  <2>1. PICK a \in Seq(QuietStep) : a = <<Ignore("create"), Throw("open to read"), Throw("parse")>>
    BY <1>1, Tuple, Zenon
  <2>2. PICK b \in Seq(QuietStep) :
          b = CASE property = "subfeatures" -> <<Ignore("size"), Ignore("fetch")>>
                [] property = "size" -> <<Ignore("fetch")>>
                [] OTHER -> <<>>
    <3> DEFINE value == CASE property = "subfeatures" -> <<Ignore("size"), Ignore("fetch")>>
                          [] property = "size" -> <<Ignore("fetch")>>
                          [] OTHER -> <<>>
    <3>1. /\ <<Ignore("size"), Ignore("fetch")>> \in Seq(QuietStep)
          /\ <<Ignore("fetch")>> \in Seq(QuietStep) /\ <<>> \in Seq(QuietStep)
      BY <1>1, Tuple, Zenon
    <3>2. value \in {<<Ignore("size"), Ignore("fetch")>>, <<Ignore("fetch")>>, <<>>}
      OBVIOUS
    <3>3. value \in Seq(QuietStep)
      <4> HIDE DEF value
      <4> QED  BY <3>1, <3>2, Zenon
    <3> QED  BY <3>3, Zenon
  <2>3. PICK c \in Seq(QuietStep) : c = <<Ignore("close source"), Throw("destroy")>>
    BY <1>1, Tuple, Zenon
  <2>4. QueryFeature(property) = a \o b \o c
    BY <2>1, <2>2, <2>3 DEF QueryFeature
  <2>5. a \o b \in Seq(QuietStep)  BY Joined
  <2>6. (a \o b) \o c \in Seq(QuietStep)  BY <2>5, Joined
  <2> QED  BY <2>4, <2>6
<1> QED  BY <1>2, <1>3

LEMMA Commands ==
    /\ Command = {"install", "configure", "validate", "repair", "queryFeatures",
                  "queryRepository", "querySubfeatures", "querySize", "queryFeature"}
    /\ \A c \in Installs : \E open \in {"open new target", "open target"} :
          /\ Program[c] = ConfigureOrInstall(open, c)
          /\ open = "open new target" <=> c = "install"
    /\ Program["validate"] = Validate /\ Program["repair"] = RepairCommand
    /\ \A c \in Command \ OpensTarget : Program[c] \in Seq(QuietStep)
<1>1. Command = {"install", "configure", "validate", "repair", "queryFeatures",
                 "queryRepository", "querySubfeatures", "querySize", "queryFeature"}
  BY DEF Command, Program
<1>2. /\ Program["install"] = ConfigureOrInstall("open new target", "install")
      /\ Program["configure"] = ConfigureOrInstall("open target", "configure")
      /\ Program["validate"] = Validate /\ Program["repair"] = RepairCommand
      /\ Program["queryFeatures"] = QueryRepository("features")
      /\ Program["queryRepository"] = QueryRepository("other")
      /\ Program["querySubfeatures"] = QueryFeature("subfeatures")
      /\ Program["querySize"] = QueryFeature("size")
      /\ Program["queryFeature"] = QueryFeature("other")
  BY DEF Program
<1>3. \A c \in Installs : \E open \in {"open new target", "open target"} :
          /\ Program[c] = ConfigureOrInstall(open, c)
          /\ open = "open new target" <=> c = "install"
  BY <1>2 DEF Installs
<1>4. \A c \in Command \ OpensTarget : Program[c] \in Seq(QuietStep)
  BY <1>1, <1>2, QueryScripts DEF OpensTarget
<1> QED  BY <1>1, <1>2, <1>3, <1>4

\* What install and configure call, by the number of the step.
LEMMA InstallCalls ==
  ASSUME NEW c \in Installs
  PROVE
    /\ Len(Program[c]) = 9
    /\ \A i \in 1..9 : i # 6 =>
          Program[c][i].call \notin Action /\ Program[c][i].on \in {"throw", "ignore"}
    /\ \A i \in 1..9 : Program[c][i].call = "parse" => i = 5
    /\ Program[c][6].call = c /\ Program[c][6].on = "exit"
    /\ Program[c][4].call = IF c = "install" THEN "open new target" ELSE "open target"
    /\ Program[c][4].on = "throw" /\ Program[c][5].call = "parse"
    /\ \A i \in 7..9 : Program[c][i].call \in {"close source", "close target", "destroy"}
<1>0. PICK s : Program[c] = s
  OBVIOUS
<1>1. PICK open \in CallName, execute \in CallName :
        /\ open = IF c = "install" THEN "open new target" ELSE "open target"
        /\ execute = c
        /\ s = ConfigureOrInstall(open, execute)
  <2>1. PICK open \in {"open new target", "open target"} :
           Program[c] = ConfigureOrInstall(open, c) /\ (open = "open new target" <=> c = "install")
    BY Commands
  <2>2. open \in CallName /\ c \in CallName
        /\ open = IF c = "install" THEN "open new target" ELSE "open target"
    BY <2>1 DEF CallName, Installs
  <2>3. s = ConfigureOrInstall(open, c)
    BY <1>0, <2>1
  <2> QED  BY <2>2, <2>3, Zenon
<1>2. /\ Len(s) = 9
      /\ s[1] = Throw("create") /\ s[2] = Throw("open source") /\ s[3] = Ignore("key")
      /\ s[4] = Throw(open) /\ s[5] = Throw("parse") /\ s[6] = Exit(execute)
      /\ s[7] = Ignore("close source") /\ s[8] = Ignore("close target") /\ s[9] = Throw("destroy")
  <2>0. s = ConfigureOrInstall(open, execute)  BY <1>1
  <2>1. PICK a \in Seq(ScriptStep) :
          /\ a = <<Throw("create"), Throw("open source"), Ignore("key"), Throw(open), Throw("parse"),
                   Exit(execute)>>
          /\ Len(a) = 6
          /\ a[1] = Throw("create") /\ a[2] = Throw("open source") /\ a[3] = Ignore("key")
          /\ a[4] = Throw(open) /\ a[5] = Throw("parse") /\ a[6] = Exit(execute)
    <3>1. /\ Throw("create") \in ScriptStep /\ Throw("open source") \in ScriptStep
          /\ Ignore("key") \in ScriptStep /\ Throw(open) \in ScriptStep /\ Throw("parse") \in ScriptStep
          /\ Exit(execute) \in ScriptStep
      <4>1. {"create", "open source", "key", "parse"} \subseteq CallName
        BY DEF CallName
      <4> QED  BY <1>1, <4>1, StepValues
    <3>2. PICK x1 \in ScriptStep, x2 \in ScriptStep, x3 \in ScriptStep,
               x4 \in ScriptStep, x5 \in ScriptStep, x6 \in ScriptStep :
            /\ x1 = Throw("create") /\ x2 = Throw("open source") /\ x3 = Ignore("key")
            /\ x4 = Throw(open) /\ x5 = Throw("parse") /\ x6 = Exit(execute)
      BY <3>1
    <3>3. PICK a : a = <<x1, x2, x3, x4, x5, x6>>
      OBVIOUS
    <3>4. /\ a \in Seq(ScriptStep) /\ Len(a) = 6
          /\ a[1] = x1 /\ a[2] = x2 /\ a[3] = x3 /\ a[4] = x4 /\ a[5] = x5 /\ a[6] = x6
      BY <3>3, SixSteps
    <3> QED  BY <3>2, <3>3, <3>4, Zenon
  <2>2. CloseAll \in Seq(ScriptStep)
    BY CloseAllValues
  <2>3. s = a \o CloseAll
    BY <2>0, <2>1 DEF ConfigureOrInstall
  <2>4. /\ Len(s) = 6 + 3
        /\ \A i \in 1..6 : s[i] = a[i]
        /\ \A i \in (6 + 1)..(6 + 3) : s[i] = CloseAll[i - 6]
    <3>1. Len(a) = 6 /\ Len(CloseAll) = 3
      BY <2>1, CloseAllValues
    <3>2. PICK b \in Seq(ScriptStep) : b = CloseAll
      BY <2>2
    <3>3. /\ Len(a \o b) = Len(a) + Len(b)
          /\ \A i \in 1..Len(a) : (a \o b)[i] = a[i]
          /\ \A i \in (Len(a) + 1)..(Len(a) + Len(b)) : (a \o b)[i] = b[i - Len(a)]
      BY Joined
    <3> QED  BY <2>3, <3>1, <3>2, <3>3
  <2>5. /\ Len(s) = 9
        /\ s[1] = a[1] /\ s[2] = a[2] /\ s[3] = a[3]
        /\ s[4] = a[4] /\ s[5] = a[5] /\ s[6] = a[6]
        /\ s[7] = CloseAll[1] /\ s[8] = CloseAll[2] /\ s[9] = CloseAll[3]
    BY <2>4
  <2> QED
    BY <2>1, <2>5, CloseAllValues, Zenon
<1>3. /\ s[1].call = "create" /\ s[1].on = "throw" /\ s[2].call = "open source" /\ s[2].on = "throw"
      /\ s[3].call = "key" /\ s[3].on = "ignore" /\ s[4].call = open /\ s[4].on = "throw"
      /\ s[5].call = "parse" /\ s[5].on = "throw" /\ s[6].call = execute /\ s[6].on = "exit"
      /\ s[7].call = "close source" /\ s[7].on = "ignore"
      /\ s[8].call = "close target" /\ s[8].on = "ignore"
      /\ s[9].call = "destroy" /\ s[9].on = "throw"
  <2>1. s[1].call = "create" /\ s[1].on = "throw"
    <3>1. s[1] = Throw("create")  BY <1>2
    <3> QED  BY <3>1, Thrown, Zenon
  <2>2. s[2].call = "open source" /\ s[2].on = "throw"
    <3>1. s[2] = Throw("open source")  BY <1>2
    <3> QED  BY <3>1, Thrown, Zenon
  <2>3. s[3].call = "key" /\ s[3].on = "ignore"
    <3>1. s[3] = Ignore("key")  BY <1>2
    <3> QED  BY <3>1, Ignored, Zenon
  <2>4. s[4].call = open /\ s[4].on = "throw"
    <3>1. s[4] = Throw(open)  BY <1>2
    <3> QED  BY <3>1, Thrown, Zenon
  <2>5. s[5].call = "parse" /\ s[5].on = "throw"
    <3>1. s[5] = Throw("parse")  BY <1>2
    <3> QED  BY <3>1, Thrown, Zenon
  <2>6. s[6].call = execute /\ s[6].on = "exit"
    <3>1. s[6] = Exit(execute)  BY <1>2
    <3> QED  BY <3>1, Exited, Zenon
  <2>7. s[7].call = "close source" /\ s[7].on = "ignore"
    <3>1. s[7] = Ignore("close source")  BY <1>2
    <3> QED  BY <3>1, Ignored, Zenon
  <2>8. s[8].call = "close target" /\ s[8].on = "ignore"
    <3>1. s[8] = Ignore("close target")  BY <1>2
    <3> QED  BY <3>1, Ignored, Zenon
  <2>9. s[9].call = "destroy" /\ s[9].on = "throw"
    <3>1. s[9] = Throw("destroy")  BY <1>2
    <3> QED  BY <3>1, Thrown, Zenon
  <2> QED  BY <2>1, <2>2, <2>3, <2>4, <2>5, <2>6, <2>7, <2>8, <2>9
<1>4. \A i \in 1..9 : i # 6 => s[i].call \notin Action /\ s[i].on \in {"throw", "ignore"}
  <2>1. open \notin Action
    BY <1>1 DEF Action
  <2>2. SUFFICES ASSUME NEW i \in 1..9, i # 6
                 PROVE  s[i].call \notin Action /\ s[i].on \in {"throw", "ignore"}
    OBVIOUS
  <2>3. i = 1 \/ i = 2 \/ i = 3 \/ i = 4 \/ i = 5 \/ i = 7 \/ i = 8 \/ i = 9
    BY <2>2
  <2>4. CASE i = 4  BY <1>3, <2>1, <2>4
  <2>5. CASE i = 1 \/ i = 2 \/ i = 3
    <3>1. s[i].call \in {"create", "open source", "key"}  BY <1>3, <2>5
    <3>2. s[i].on \in {"throw", "ignore"}  BY <1>3, <2>5
    <3> QED  BY <3>1, <3>2 DEF Action
  <2>6. CASE i = 5 \/ i = 7 \/ i = 8 \/ i = 9
    <3>1. s[i].call \in {"parse", "close source", "close target", "destroy"}  BY <1>3, <2>6
    <3>2. s[i].on \in {"throw", "ignore"}  BY <1>3, <2>6
    <3> QED  BY <3>1, <3>2 DEF Action
  <2> QED  BY <2>3, <2>4, <2>5, <2>6
<1>5. \A i \in 7..9 : s[i].call \in {"close source", "close target", "destroy"}
  <2>1. SUFFICES ASSUME NEW i \in 7..9
                 PROVE  s[i].call \in {"close source", "close target", "destroy"}
    OBVIOUS
  <2>2. i = 7 \/ i = 8 \/ i = 9
    OBVIOUS
  <2> QED  BY <1>3, <2>2
<1>6. /\ s[6].call = c /\ s[4].call = IF c = "install" THEN "open new target" ELSE "open target"
  BY <1>1, <1>3
<1>7. Len(Program[c]) = 9
  BY <1>0, <1>2
<1>8. \A i \in 1..9 : i # 6 =>
        Program[c][i].call \notin Action /\ Program[c][i].on \in {"throw", "ignore"}
  BY <1>0, <1>4, Zenon
<1>9. \A i \in 7..9 : Program[c][i].call \in {"close source", "close target", "destroy"}
  BY <1>0, <1>5, Zenon
<1>10. /\ Program[c][6].call = c /\ Program[c][6].on = "exit"
       /\ Program[c][4].call = IF c = "install" THEN "open new target" ELSE "open target"
       /\ Program[c][4].on = "throw" /\ Program[c][5].call = "parse"
  <2>1. s[6].call = c /\ s[6].on = "exit" /\ s[4].on = "throw" /\ s[5].call = "parse"
    BY <1>3, <1>6
  <2> QED  BY <1>0, <1>6, <2>1, Zenon
<1>11. \A i \in 1..9 : Program[c][i].call = "parse" => i = 5
  <2>1. SUFFICES ASSUME NEW i \in 1..9, i # 5 PROVE s[i].call # "parse"
    BY <1>0
  <2>2. open # "parse" /\ execute # "parse"
    BY <1>1 DEF Installs
  <2>3. i = 1 \/ i = 2 \/ i = 3 \/ i = 4 \/ i = 6 \/ i = 7 \/ i = 8 \/ i = 9
    BY <2>1
  <2>4. CASE i = 1 \/ i = 2 \/ i = 3 \/ i = 4
    BY <1>3, <2>2, <2>4
  <2>5. CASE i = 6 \/ i = 7 \/ i = 8 \/ i = 9
    BY <1>3, <2>2, <2>5
  <2> QED  BY <2>3, <2>4, <2>5
<1> QED
  BY <1>7, <1>8, <1>9, <1>10, <1>11

LEMMA ValidateCalls ==
  ASSUME NEW s, s = Program["validate"]
  PROVE
    /\ Len(s) = 9
    /\ \A i \in 1..9 : i # 6 => s[i].call \notin Action /\ s[i].on \in {"throw", "ignore"}
    /\ s[6].call = "verify" /\ s[6].on = "throw"
    /\ s[2].call = "callback" /\ s[2].on = "ignore" /\ s[3].call = "open source"
    /\ s[4].call = "open target" /\ s[4].on = "throw" /\ s[5].call = "key"
    /\ \A i \in 7..9 : s[i].call \in {"close source", "close target", "destroy"}
<1>1. s = Validate
  BY Commands
<1>2. /\ Len(s) = 9
      /\ s[1] = Throw("create") /\ s[2] = Ignore("callback") /\ s[3] = Throw("open source")
      /\ s[4] = Throw("open target") /\ s[5] = Ignore("key") /\ s[6] = Throw("verify")
      /\ s[7] = Ignore("close source") /\ s[8] = Ignore("close target") /\ s[9] = Throw("destroy")
  BY <1>1, ValidateScript
<1>3. /\ s[1].call = "create" /\ s[1].on = "throw" /\ s[2].call = "callback" /\ s[2].on = "ignore"
      /\ s[3].call = "open source" /\ s[3].on = "throw"
      /\ s[4].call = "open target" /\ s[4].on = "throw"
      /\ s[5].call = "key" /\ s[5].on = "ignore" /\ s[6].call = "verify" /\ s[6].on = "throw"
      /\ s[7].call = "close source" /\ s[7].on = "ignore"
      /\ s[8].call = "close target" /\ s[8].on = "ignore"
      /\ s[9].call = "destroy" /\ s[9].on = "throw"
  <2>1. s[1].call = "create" /\ s[1].on = "throw"
    <3>1. s[1] = Throw("create")  BY <1>2
    <3> QED  BY <3>1, Thrown, Zenon
  <2>2. s[2].call = "callback" /\ s[2].on = "ignore"
    <3>1. s[2] = Ignore("callback")  BY <1>2
    <3> QED  BY <3>1, Ignored, Zenon
  <2>3. s[3].call = "open source" /\ s[3].on = "throw"
    <3>1. s[3] = Throw("open source")  BY <1>2
    <3> QED  BY <3>1, Thrown, Zenon
  <2>4. s[4].call = "open target" /\ s[4].on = "throw"
    <3>1. s[4] = Throw("open target")  BY <1>2
    <3> QED  BY <3>1, Thrown, Zenon
  <2>5. s[5].call = "key" /\ s[5].on = "ignore"
    <3>1. s[5] = Ignore("key")  BY <1>2
    <3> QED  BY <3>1, Ignored, Zenon
  <2>6. s[6].call = "verify" /\ s[6].on = "throw"
    <3>1. s[6] = Throw("verify")  BY <1>2
    <3> QED  BY <3>1, Thrown, Zenon
  <2>7. s[7].call = "close source" /\ s[7].on = "ignore"
    <3>1. s[7] = Ignore("close source")  BY <1>2
    <3> QED  BY <3>1, Ignored, Zenon
  <2>8. s[8].call = "close target" /\ s[8].on = "ignore"
    <3>1. s[8] = Ignore("close target")  BY <1>2
    <3> QED  BY <3>1, Ignored, Zenon
  <2>9. s[9].call = "destroy" /\ s[9].on = "throw"
    <3>1. s[9] = Throw("destroy")  BY <1>2
    <3> QED  BY <3>1, Thrown, Zenon
  <2> QED  BY <2>1, <2>2, <2>3, <2>4, <2>5, <2>6, <2>7, <2>8, <2>9
<1>4. \A i \in 1..9 : i # 6 => s[i].call \notin Action /\ s[i].on \in {"throw", "ignore"}
  <2>1. SUFFICES ASSUME NEW i \in 1..9, i # 6
                 PROVE  s[i].call \notin Action /\ s[i].on \in {"throw", "ignore"}
    OBVIOUS
  <2>2. i = 1 \/ i = 2 \/ i = 3 \/ i = 4 \/ i = 5 \/ i = 7 \/ i = 8 \/ i = 9
    BY <2>1
  <2>3. CASE i = 1 \/ i = 2 \/ i = 3 \/ i = 4
    <3>1. s[i].call \in {"create", "callback", "open source", "open target"}
      <4>1. CASE i = 1 \/ i = 2  BY <1>3, <4>1
      <4>2. CASE i = 3 \/ i = 4  BY <1>3, <4>2
      <4> QED  BY <2>3, <4>1, <4>2
    <3>2. s[i].on \in {"throw", "ignore"}
      <4>1. CASE i = 1 \/ i = 2  BY <1>3, <4>1
      <4>2. CASE i = 3 \/ i = 4  BY <1>3, <4>2
      <4> QED  BY <2>3, <4>1, <4>2
    <3> QED  BY <3>1, <3>2 DEF Action
  <2>4. CASE i = 5 \/ i = 7 \/ i = 8 \/ i = 9
    <3>1. s[i].call \in {"key", "close source", "close target", "destroy"}
      <4>1. CASE i = 5 \/ i = 7  BY <1>3, <4>1
      <4>2. CASE i = 8 \/ i = 9  BY <1>3, <4>2
      <4> QED  BY <2>4, <4>1, <4>2
    <3>2. s[i].on \in {"throw", "ignore"}
      <4>1. CASE i = 5 \/ i = 7  BY <1>3, <4>1
      <4>2. CASE i = 8 \/ i = 9  BY <1>3, <4>2
      <4> QED  BY <2>4, <4>1, <4>2
    <3> QED  BY <3>1, <3>2 DEF Action
  <2> QED  BY <2>2, <2>3, <2>4
<1>5. \A i \in 7..9 : s[i].call \in {"close source", "close target", "destroy"}
  <2>1. SUFFICES ASSUME NEW i \in 7..9
                 PROVE  s[i].call \in {"close source", "close target", "destroy"}
    OBVIOUS
  <2>2. i = 7 \/ i = 8 \/ i = 9
    OBVIOUS
  <2>3. /\ s[7].call = "close source" /\ s[8].call = "close target" /\ s[9].call = "destroy"
    BY <1>3
  <2> QED  BY <2>2, <2>3, Zenon
<1> QED
  BY <1>1, <1>2, <1>3, <1>4, <1>5

LEMMA RepairCalls ==
  ASSUME NEW s, s = Program["repair"]
  PROVE
    /\ Len(s) = 7
    /\ \A i \in 1..7 : i # 4 => s[i].call \notin Action
    /\ s[4].call = "repair" /\ s[3].call = "open target" /\ s[3].on = "throw"
<1>1. s = RepairCommand
  BY Commands
<1>2. /\ Len(s) = 7
      /\ s[1] = Throw("create") /\ s[2] = Throw("open source")
      /\ s[3] = Throw("open target") /\ s[4] = Exit("repair")
      /\ s[5] = Ignore("close source") /\ s[6] = Ignore("close target")
      /\ s[7] = Ignore("destroy")
  BY <1>1, RepairScript
<1>3. /\ s[1].call = "create" /\ s[2].call = "open source"
      /\ s[3].call = "open target" /\ s[3].on = "throw" /\ s[4].call = "repair"
      /\ s[5].call = "close source" /\ s[6].call = "close target" /\ s[7].call = "destroy"
  <2>1. s[1].call = "create"
    <3>1. s[1] = Throw("create")  BY <1>2
    <3> QED  BY <3>1, Thrown, Zenon
  <2>2. s[2].call = "open source"
    <3>1. s[2] = Throw("open source")  BY <1>2
    <3> QED  BY <3>1, Thrown, Zenon
  <2>3. s[3].call = "open target" /\ s[3].on = "throw"
    <3>1. s[3] = Throw("open target")  BY <1>2
    <3> QED  BY <3>1, Thrown, Zenon
  <2>4. s[4].call = "repair"
    <3>1. s[4] = Exit("repair")  BY <1>2
    <3> QED  BY <3>1, Exited, Zenon
  <2>5. s[5].call = "close source"
    <3>1. s[5] = Ignore("close source")  BY <1>2
    <3> QED  BY <3>1, Ignored, Zenon
  <2>6. s[6].call = "close target"
    <3>1. s[6] = Ignore("close target")  BY <1>2
    <3> QED  BY <3>1, Ignored, Zenon
  <2>7. s[7].call = "destroy"
    <3>1. s[7] = Ignore("destroy")  BY <1>2
    <3> QED  BY <3>1, Ignored, Zenon
  <2> QED  BY <2>1, <2>2, <2>3, <2>4, <2>5, <2>6, <2>7
<1>4. \A i \in 1..7 : i # 4 => s[i].call \notin Action
  <2>1. SUFFICES ASSUME NEW i \in 1..7, i # 4 PROVE s[i].call \notin Action
    OBVIOUS
  <2>2. i = 1 \/ i = 2 \/ i = 3 \/ i = 5 \/ i = 6 \/ i = 7
    BY <2>1
  <2> QED  BY <1>3, <2>2 DEF Action
<1> QED
  BY <1>1, <1>2, <1>3, <1>4

LEMMA QueryCalls ==
  ASSUME NEW c \in Command \ OpensTarget
  PROVE  /\ Len(Program[c]) \in Nat
         /\ \A i \in 1..Len(Program[c]) : Program[c][i].call \notin Action
<1>1. PICK s \in Seq(QuietStep) : s = Program[c]
  BY Commands, Zenon
<1>2. Len(s) \in Nat /\ \A i \in 1..Len(s) : s[i] \in QuietStep
  OBVIOUS
<1> QED  BY <1>1, <1>2 DEF QuietStep

LEMMA ScriptLengths ==
  ASSUME NEW c \in Command
  PROVE  Len(Program[c]) \in Nat
<1>1. PICK s : s = Program[c]
  OBVIOUS
<1>2. CASE c \in Installs
  <2>1. Len(Program[c]) = 9  BY <1>2, InstallCalls, Zenon
  <2> QED  BY <2>1
<1>3. CASE c = "validate"
  <2>1. Len(s) = 9  BY <1>1, <1>3, ValidateCalls
  <2> QED  BY <1>1, <2>1
<1>4. CASE c = "repair"
  <2>1. Len(s) = 7  BY <1>1, <1>4, RepairCalls
  <2> QED  BY <1>1, <2>1
<1>5. CASE c \in Command \ OpensTarget
  BY <1>5, QueryCalls, Zenon
<1> QED  BY <1>2, <1>3, <1>4, <1>5 DEF OpensTarget, Installs

\* Execute is called in one place only.
LEMMA ExecutePlace ==
  ASSUME NEW c \in Command, NEW i \in 1..Len(Program[c]), Program[c][i].call \in Action
  PROVE  /\ c \in OpensTarget /\ i = ExecuteAt(c)
         /\ Program[c][i].call = IF c = "validate" THEN "verify" ELSE c
<1>1. c \in OpensTarget
  BY QueryCalls
<1>2. c \in Installs \/ c = "validate" \/ c = "repair"
  BY <1>1 DEF OpensTarget, Installs
<1>3. CASE c \in Installs
  <2>1. PICK s : Program[c] = s  OBVIOUS
  <2>2. Len(s) = 9 /\ s[6].call = c /\ \A k \in 1..9 : k # 6 => s[k].call \notin Action
    <3>1. /\ Len(Program[c]) = 9 /\ Program[c][6].call = c
          /\ \A k \in 1..9 : k # 6 => Program[c][k].call \notin Action
      BY <1>3, InstallCalls, Zenon
    <3> QED  BY <2>1, <3>1, Zenon
  <2>3. i = 6  BY <2>1, <2>2
  <2> QED  BY <1>1, <1>3, <2>1, <2>2, <2>3 DEF ExecuteAt, Installs
<1>4. CASE c = "validate"
  <2>1. PICK s : s = Program["validate"]  OBVIOUS
  <2>2. Len(s) = 9 /\ s[6].call = "verify" /\ \A k \in 1..9 : k # 6 => s[k].call \notin Action
    BY <2>1, ValidateCalls
  <2>3. i = 6  BY <1>4, <2>1, <2>2
  <2> QED  BY <1>1, <1>4, <2>1, <2>2, <2>3 DEF ExecuteAt
<1>5. CASE c = "repair"
  <2>1. PICK s : s = Program["repair"]  OBVIOUS
  <2>2. Len(s) = 7 /\ s[4].call = "repair" /\ \A k \in 1..7 : k # 4 => s[k].call \notin Action
    BY <2>1, RepairCalls
  <2>3. i = 4  BY <1>5, <2>1, <2>2
  <2> QED  BY <1>1, <1>5, <2>1, <2>2, <2>3 DEF ExecuteAt
<1> QED  BY <1>2, <1>3, <1>4, <1>5
-----------------------------------------------------------------------------
(* What the calls of a command do                                          *)

\* Only Execute changes databases or ends the process.
LEMMA QuietCall ==
  ASSUME IInv, NEW c, CallOf(c), c \notin Action
  PROVE  disk' = disk /\ fault' = fault
<1> DEFINE s == opened.source
           t == opened.target
<1>1. CASE \E h \in Handle, options \in SUBSET Option : OpenSource(h, args.source, options)
  BY <1>1 DEF OpenSource, Reject, Keep
<1>2. CASE \E h \in Handle, options \in SUBSET Option : OpenTarget(h, args.target, options)
  BY <1>2 DEF OpenTarget, Keep
<1>3. CASE CreateInstaller(TRUE) \/ SetCallback("validation", TRUE) \/ DestroyInstaller
  BY <1>3 DEF CreateInstaller, SetCallback, DestroyInstaller
<1>4. CASE UNCHANGED vars \/ SetVariable(TRUE)
  BY <1>4 DEF vars, SetVariable, Keep
<1>5. CASE GetProperty(s, TRUE, "size") \/ GetProperty(s, TRUE, "enough")
  BY <1>5 DEF GetProperty, Reject, Keep
<1>6. CASE CloseRepository(s) \/ CloseRepository(t)
  BY <1>6 DEF CloseRepository, Reject, Keep
<1>7. {} \in SUBSET Option /\ {"readonly"} \in SUBSET Option /\ {"create"} \in SUBSET Option
  BY DEF Option
<1> QED
  BY <1>1, <1>2, <1>3, <1>4, <1>5, <1>6, <1>7 DEF CallOf

LEMMA KeyCall ==
  ASSUME CallOf("key")
  PROVE  UNCHANGED <<handle, callbacks, opened>>
  BY DEF CallOf, SetVariable, Keep, vars, Action

LEMMA CallbackCall ==
  ASSUME CallOf("callback")
  PROVE  "validation" \in callbacks'
  BY DEF CallOf, SetCallback, Action

LEMMA OpenCalls ==
  ASSUME NEW c \in {"open source", "open target", "key"}, CallOf(c)
  PROVE  callbacks' = callbacks
<1>1. CASE c = "open source"
  BY <1>1 DEF CallOf, OpenSource, Reject, Keep, Action
<1>2. CASE c = "open target"
  BY <1>2 DEF CallOf, OpenTarget, Keep, Action
<1>3. CASE c = "key"
  BY <1>3, KeyCall
<1> QED  BY <1>1, <1>2, <1>3

LEMMA CloseCalls ==
  ASSUME NEW c \in {"close source", "close target", "destroy"}, CallOf(c)
  PROVE  reports' = reports
  BY DEF CallOf, CloseRepository, DestroyInstaller, Reject, Keep, Action

LEMMA RejectedResult ==
  ASSUME Reject
  PROVE  last'.result = "InvalidArgument" /\ fault' = fault /\ disk' = disk
  BY DEF Reject, Return, Executed, Keep

LEMMA ExecutedResult ==
  ASSUME NEW call, NEW h, NEW result, Executed(call, h, result)
  PROVE  last'.result = result
  BY DEF Executed

LEMMA TargetValues ==
  ASSUME NEW path, NEW p, NEW v, v = [type |-> "target", path |-> path, options |-> 0, p |-> p]
  PROVE  v.type = "target" /\ v.path = path /\ v.p = p
  OBVIOUS

\* A target that is opened is open on its directory, and has a repository unless it is new.
LEMMA OpenTargetCall ==
  ASSUME IInv, CliTypeOK, NEW c \in {"open target", "open new target"}, CallOf(c), last'.result = "Ok"
  PROVE  /\ IsType(opened.target, "target")' /\ handle'[opened'.target].path = args.target
         /\ c = "open target" => handle'[opened'.target].p # NullRepository
<1>1. PICK h \in Handle :
        /\ OpenTarget(h, args.target, IF c = "open target" THEN {} ELSE {"create"})
        /\ opened' = [opened EXCEPT !.target = h]
  BY DEF CallOf, Action
<1>2. opened'.target = h
  BY <1>1 DEF CliTypeOK
<1>3. PICK p : /\ Allocate(h, "target", args.target, p)
               /\ c = "open target" => p # NullRepository
  <2>1. Return("Error") => last'.result = "Error"
    BY ExecutedResult DEF Return
  <2>2. PICK options : /\ OpenTarget(h, args.target, options)
                       /\ c = "open target" => "create" \notin options
    <3>1. CASE c = "open target"
      <4>1. PICK options : options = {}  OBVIOUS
      <4>2. OpenTarget(h, args.target, options)  BY <1>1, <3>1, <4>1
      <4>3. "create" \notin options  BY <4>1
      <4> QED  BY <4>2, <4>3
    <3>2. CASE c # "open target"  BY <1>1, <3>2
    <3> QED  BY <3>1, <3>2
  <2>3. PICK p : /\ ~(p = NullRepository /\ "create" \notin options)
                 /\ Allocate(h, "target", args.target, p)
    BY <2>1, <2>2 DEF OpenTarget
  <2> QED  BY <2>2, <2>3
<1>4. handle'[h] = [type |-> "target", path |-> args.target, options |-> 0, p |-> p]
  BY <1>3 DEF Allocate, IInv, TypeOK
<1>5. handle'[h].type = "target" /\ handle'[h].path = args.target /\ handle'[h].p = p
  <2>1. PICK v : handle'[h] = v
    OBVIOUS
  <2>2. v = [type |-> "target", path |-> args.target, options |-> 0, p |-> p]
    BY <1>4, <2>1
  <2>3. v.type = "target" /\ v.path = args.target /\ v.p = p
    BY <2>2, TargetValues
  <2> QED  BY <2>1, <2>3, Zenon
<1>6. handle'[h] # Free
  BY <1>5, FreeValues
<1>7. IsType(opened.target, "target")'
  BY <1>2, <1>5, <1>6 DEF IsType, Open
<1> QED  BY <1>2, <1>3, <1>5, <1>7

\* The Execute of a command.
LEMMA ActionCall ==
  ASSUME NEW c \in Action, CallOf(c)
  PROVE  \E d : Execute(c, opened.target, opened.source, d)
  BY DEF CallOf, Action

\* The result is Ok only if Configure ends by itself, and was possible before; and so is the
\* death of the process.
LEMMA InstallCall ==
  ASSUME IInv, NEW c \in Installs, CallOf(c),
         IsType(opened.target, "target"), handle[opened.target].path = args.target,
         c = "configure" => handle[opened.target].p # NullRepository
  PROVE  /\ fault' \in {"none", "died"}
         /\ last'.result = "Ok" \/ fault' = "died" =>
              /\ disk'[args.target] \in HasSchema
              /\ c = "install" => disk[args.target] \in {"absent", "empty"}
              /\ c = "configure" => disk[args.target] \in HasSchema
         /\ last'.result = "Ok" => disk'[args.target] = "clean"
<1> DEFINE t == opened.target
<1>1. PICK d : Execute(c, t, opened.source, d)
  BY ActionCall DEF Installs, Action
<1>2. fault = "none" /\ disk \in [Path -> DbState] /\ t \in Handle /\ handle[t].path \in Path
  BY <1>1, OpenValues DEF Execute, Callable, Running, IInv, TypeOK, IsType, Open, KylaRepositoryImpl
<1>3. CASE Reject
  BY <1>2, <1>3, RejectedResult
<1>4. ASSUME NEW a, DiesConfiguring(a, t)
      PROVE  fault' = "died" /\ last'.result = "Error" /\ disk'[args.target] \in HasSchema
  BY <1>2, <1>4 DEF DiesConfiguring, Faults, Executed, HasSchema
<1>5. CASE c = "install" /\ Install(t, opened.source)
  <2>1. CASE Fail("install", t)
    BY <1>2, <2>1, ExecutedResult DEF Fail, Keep
  <2>2. CASE Executed("install", t, "Error") /\ UNCHANGED fault
    BY <1>2, <2>2, ExecutedResult
  <2>3. CASE Creatable(args.target) /\ disk' = [disk EXCEPT ![args.target] = "clean"] /\ UNCHANGED fault
    BY <1>2, <1>5, <2>3 DEF Creatable, HasSchema
  <2>4. CASE Creatable(args.target) /\ DiesConfiguring("install", t)
    BY <1>4, <1>5, <2>4 DEF Creatable
  <2> QED  BY <1>5, <2>1, <2>2, <2>3, <2>4 DEF Install
<1>6. CASE c = "configure" /\ Configure(t, opened.source)
  <2>1. CASE Fail("configure", t)
    BY <1>2, <2>1, ExecutedResult DEF Fail, Keep
  <2>2. CASE Executed("configure", t, "Error") /\ UNCHANGED fault
    BY <1>2, <2>2, ExecutedResult
  <2>3. CASE CleansUp(t) /\ disk' = [disk EXCEPT ![args.target] = "clean"] /\ UNCHANGED fault
    BY <1>2, <1>6, <2>3 DEF CleansUp, HasSchema
  <2>4. CASE CleansUp(t) /\ DiesConfiguring("configure", t)
    BY <1>4, <1>6, <2>4 DEF CleansUp
  <2> QED  BY <1>6, <2>1, <2>2, <2>3, <2>4 DEF Configure
<1> QED
  BY <1>1, <1>3, <1>5, <1>6 DEF Execute, Installs

\* What looking at the files of a deployed repository may do to the process.
LEMMA FilesFaulted ==
  ASSUME NEW a, NEW t, FilesFault(a, t)
  PROVE  fault' \in {"assertion", "died"} /\ last'.result = "Error"
  BY DEF FilesFault, Faults, Executed

LEMMA VerifyCall ==
  ASSUME IInv, CallOf("verify"), "validation" \in callbacks,
         IsType(opened.target, "target"), handle[opened.target].path = args.target
  PROVE  /\ disk' = disk /\ fault' \in {"none", "assertion", "died"}
         /\ fault' = "assertion" => args.target \notin PackedPath
         /\ fault' = "died" => disk[args.target] \in HasSchema
         /\ last'.result = "Ok" => disk[args.target] \in HasSchema /\ reports' \in {"ok", "bad"}
<1> DEFINE t == opened.target
<1>1. PICK d : Execute("verify", t, opened.source, d)
  BY ActionCall DEF Action
<1>2. fault = "none"
  BY <1>1 DEF Execute, Callable, Running
<1>3. CASE Reject
  BY <1>2, <1>3, RejectedResult
<1>4. CASE Verify(t)
  <2>1. CASE Fail("verify", t)
    BY <1>2, <2>1, ExecutedResult DEF Fail, Keep
  <2>2. CASE UNCHANGED <<disk, fault>> /\ Executed("verify", t, "Error")
    BY <1>2, <2>2, ExecutedResult
  <2>3. CASE UNCHANGED <<disk, fault>> /\ disk[args.target] \in HasSchema /\ Reported
    BY <1>2, <2>3 DEF Reported
  <2>4. ASSUME NEW p \in OpenRepository(args.target, VerifyWrites(t)), p.kind = "deployed",
               disk[args.target] \in HasSchema, disk' = disk, FilesFault("verify", t)
        PROVE  /\ disk' = disk /\ fault' \in {"assertion", "died"} /\ last'.result = "Error"
               /\ args.target \notin PackedPath /\ disk[args.target] \in HasSchema
    <3>1. args.target \notin PackedPath
      BY <2>4, RepositoryValues DEF OpenRepository
    <3> QED  BY <2>4, <3>1, FilesFaulted
  <2> QED  BY <1>4, <2>1, <2>2, <2>3, <2>4 DEF Verify
<1> QED
  BY <1>1, <1>3, <1>4 DEF Execute

LEMMA RepairCall ==
  ASSUME IInv, CallOf("repair"), IsType(opened.target, "target"),
         handle[opened.target].path = args.target, handle[opened.target].p # NullRepository
  PROVE  /\ disk' = disk /\ fault' \in {"none", "assertion", "died"}
         /\ fault' = "died" => disk[args.target] \in HasSchema
<1> DEFINE t == opened.target
<1>1. PICK d : Execute("repair", t, opened.source, d)
  BY ActionCall DEF Action
<1>2. fault = "none" /\ t \in Handle
  BY <1>1 DEF Execute, Callable, Running, IsType, Open
<1>3. CASE Reject
  BY <1>2, <1>3, RejectedResult
<1>4. CASE Repair(t)
  <2>1. CASE Fail("repair", t) \/ Keep
    BY <1>2, <2>1 DEF Fail, Keep
  <2>2. CASE Faults("repair", t, "assertion") /\ disk' = disk
    BY <2>2 DEF Faults
  <2>3. CASE FilesFault("repair", t) /\ disk' = disk /\ disk[args.target] \in HasSchema
    BY <2>3, FilesFaulted
  <2> QED  BY <1>4, <2>1, <2>2, <2>3 DEF Repair
<1>5. Reject \/ Repair(t)
  BY <1>1 DEF Execute
<1> QED
  BY <1>3, <1>4, <1>5

\* A step that leaves the process and the target alone.
LEMMA QuietFaults ==
  ASSUME CommandFaultsExplained, UNCHANGED <<fault, disk, command, args, before>>
  PROVE  CommandFaultsExplained'
  BY DEF CommandFaultsExplained

-----------------------------------------------------------------------------
(* The steps of a command                                                  *)

\* What `After' makes of a step number pc of n whose result is treated as `on' says.
Outcome(on, n) ==
    /\ pc' = pc + 1 \/ pc' = n + 1
    /\ pc' # n + 1 /\ on = "throw" => last'.result = "Ok"
    /\ on # "throw" => pc' = pc + 1
    /\ on # "exit" /\ pc' # n + 1 => exit' = exit
    /\ on # "exit" /\ pc' = n + 1 /\ pc # n => exit' = IF fault' # "none" THEN exit ELSE "exception"
    /\ on # "exit" /\ (pc # n \/ exit # "none") => exit' \in {exit, "exception"}
    /\ on # "exit" /\ exit' = "Ok" /\ exit = "none" => ~(command = "validate" /\ reports = "bad")
    /\ on = "exit" => exit' = IF fault' # "none" THEN exit ELSE last'.result

LEMMA AfterStep ==
  ASSUME NEW step, After(step), NEW n \in Nat, n = Len(Program[command]), pc \in 1..n,
         NEW on, on = step.on
  PROVE  Outcome(on, n)
<1>1. pc' = IF on = "throw" /\ last'.result # "Ok" THEN n + 1 ELSE pc + 1
  BY DEF After
<1>2. exit' = IF fault' # "none" THEN exit
              ELSE IF on = "throw" /\ last'.result # "Ok" THEN "exception"
              ELSE IF on = "exit" THEN last'.result
              ELSE IF pc = n /\ exit = "none"
              THEN IF command = "validate" /\ reports = "bad" THEN "Error" ELSE "Ok"
              ELSE exit
  BY DEF After
<1>3. CASE on = "throw" /\ last'.result # "Ok"
  <2>1. pc' = n + 1
    BY <1>1, <1>3
  <2>2. exit' = IF fault' # "none" THEN exit ELSE "exception"
    BY <1>2, <1>3
  <2> QED  BY <1>3, <2>1, <2>2 DEF Outcome
<1>4. CASE on = "exit"
  <2>1. pc' = pc + 1
    BY <1>1, <1>4
  <2>2. exit' = IF fault' # "none" THEN exit ELSE last'.result
    BY <1>2, <1>4
  <2> QED  BY <1>4, <2>1, <2>2 DEF Outcome
<1>5. CASE on # "exit" /\ ~(on = "throw" /\ last'.result # "Ok")
  <2>1. pc' = pc + 1 /\ (pc' = n + 1 <=> pc = n)
    BY <1>1, <1>5
  <2>2. exit' = IF fault' # "none" THEN exit
                ELSE IF pc = n /\ exit = "none"
                THEN IF command = "validate" /\ reports = "bad" THEN "Error" ELSE "Ok"
                ELSE exit
    BY <1>2, <1>5
  <2>3. on = "throw" => last'.result = "Ok"
    BY <1>5
  <2> QED  BY <1>5, <2>1, <2>2, <2>3 DEF Outcome
<1> QED  BY <1>3, <1>4, <1>5

\* What is known of every step; `n' and `call' name what the cases below are about.
LEMMA StepFacts ==
  ASSUME AtRest, Step
  PROVE  /\ command \in Command /\ Len(Program[command]) \in Nat /\ pc \in 1..Len(Program[command])
         /\ CallOf(Program[command][pc].call) /\ After(Program[command][pc])
         /\ command' = command /\ args' = args /\ before' = before
<1>1. command \in Command /\ Len(Program[command]) \in Nat
  BY ScriptLengths DEF Step
<1>2. pc \in 1..(Len(Program[command]) + 1) /\ pc # Len(Program[command]) + 1
  BY <1>1 DEF AtRest, Step, Finished
<1> QED  BY <1>1, <1>2 DEF Step

LEMMA StepAtRest ==
  ASSUME AtRest, Step
  PROVE  AtRest'
<1>1. PICK n \in Nat : n = Len(Program[command])
  BY StepFacts
<1>2. command \in Command /\ command' = command /\ pc \in 1..n
  BY <1>1, StepFacts
<1>3. pc' = pc + 1 \/ pc' = n + 1
  <2>1. PICK step, on : step = Program[command][pc] /\ on = step.on
    OBVIOUS
  <2>2. After(Program[command][pc])
    BY StepFacts, Zenon
  <2>3. Outcome(on, n)
    BY <1>1, <1>2, <2>1, <2>2, AfterStep
  <2> QED  BY <2>3 DEF Outcome
<1>4. command # "none" /\ command # "own"
  BY <1>2, Commands
<1> QED  BY <1>1, <1>2, <1>3, <1>4 DEF AtRest

\* The steps of install and configure.
LEMMA InstallStep ==
  ASSUME IInv, IInv', CliTypeOK, CommandInv, Step, command \in Installs
  PROVE  TargetOpened' /\ InstallProgress' /\ CommandFaultsExplained'
<1>1. PICK s : Program[command] = s
  OBVIOUS
<1>2. /\ Len(s) = 9
      /\ \A i \in 1..9 : i # 6 => s[i].call \notin Action /\ s[i].on \in {"throw", "ignore"}
      /\ s[6].call = command /\ s[6].on = "exit"
      /\ s[4].call = IF command = "install" THEN "open new target" ELSE "open target"
      /\ s[4].on = "throw" /\ s[5].call = "parse"
      /\ \A i \in 7..9 : s[i].call \in {"close source", "close target", "destroy"}
  BY <1>1, InstallCalls
<1>3. /\ pc \in 1..9 /\ CallOf(s[pc].call) /\ After(s[pc]) /\ command' = command /\ args' = args
      /\ before' = before
  BY <1>1, <1>2, StepFacts DEF CommandInv
<1>4. PICK call, on : call = s[pc].call /\ on = s[pc].on
  OBVIOUS
<1>4a. CallOf(call) /\ call # "parse"
  BY <1>1, <1>3, <1>4 DEF Step
<1>4b. pc # 6 => call \notin Action /\ on \in {"throw", "ignore"}
  <2>1. \A i \in 1..9 : i # 6 => s[i].call \notin Action /\ s[i].on \in {"throw", "ignore"}
    BY <1>2
  <2> QED  BY <2>1, <1>3, <1>4
<1>4c. pc = 6 => call = command /\ on = "exit"
  BY <1>2, <1>4
<1>4d. /\ pc = 4 => call = IF command = "install" THEN "open new target" ELSE "open target"
       /\ pc = 4 => on = "throw"
       /\ pc = 5 => call = "parse"
  BY <1>2, <1>4
<1>4e. pc \in 7..9 => call \in {"close source", "close target", "destroy"}
  <2>1. \A i \in 7..9 : s[i].call \in {"close source", "close target", "destroy"}
    BY <1>2
  <2> QED  BY <2>1, <1>4
<1>5. Outcome(on, 9)
  <2>1. PICK n \in Nat : n = 9
    OBVIOUS
  <2>2. n = Len(Program[command]) /\ pc \in 1..n
    BY <1>1, <1>2, <1>3, <2>1
  <2>3. PICK step : step = s[pc]
    OBVIOUS
  <2>4. After(step) /\ on = step.on
    BY <1>3, <1>4, <2>3
  <2>5. Outcome(on, n)
    BY <2>2, <2>4, AfterStep
  <2> QED  BY <2>1, <2>5
<1>6. command # "repair" /\ command # "validate" /\ command \in OpensTarget
      /\ command \in Command /\ OpenAt(command) = 4 /\ ExecuteAt(command) = 6
  BY Commands DEF Installs, OpensTarget, OpenAt, ExecuteAt
<1>7. CASE pc \in 1..5
  <2>0. pc # 5
    BY <1>4a, <1>4d, Zenon
  <2>1. pc # 5 /\ pc # 6
    BY <1>7, <2>0
  <2>2. disk' = disk /\ fault' = fault
    BY <1>4a, <1>4b, <2>1, QuietCall
  <2>3. on \in {"throw", "ignore"}
    BY <1>4b, <2>1
  <2>4. \/ pc' = 10 /\ exit' = IF fault' # "none" THEN exit ELSE "exception"
        \/ pc' = pc + 1 /\ exit' = exit
    BY <1>5, <1>7, <2>3 DEF Outcome
  <2>5. exit = "none" /\ (fault = "none" => disk[args.target] = before)
    BY <1>7 DEF CommandInv, InstallProgress
  <2>6. InstallProgress'
    <3>1. CASE pc' = 10 /\ exit' = IF fault' # "none" THEN exit ELSE "exception"
      <4>1. ~(pc' <= 6) /\ exit' # "Ok" /\ (fault' = "none" => exit' # "none")
        BY <2>5, <3>1
      <4> QED  BY <4>1 DEF InstallProgress
    <3>2. CASE pc' = pc + 1 /\ exit' = exit
      <4>1. pc' <= 6  BY <1>7, <3>2
      <4> QED  BY <1>3, <2>2, <2>5, <3>2, <4>1 DEF InstallProgress
    <3> QED  BY <2>4, <3>1, <3>2
  <2>7. TargetOpened'
    <3>1. CASE pc' \notin 5..6
      BY <1>3, <1>6, <2>4, <3>1 DEF TargetOpened
    <3>2. CASE pc' \in 5..6
      <4>1. pc = 4 /\ last'.result = "Ok"
        <5>1. pc' = pc + 1 /\ pc' # 10  BY <1>7, <2>4, <3>2
        <5>2. pc = 4  BY <1>7, <2>1, <3>2, <5>1
        <5>3. on = "throw"  BY <1>4d, <5>2, Zenon
        <5> QED  BY <1>5, <5>1, <5>2, <5>3 DEF Outcome
      <4>2. PICK c \in {"open target", "open new target"} :
              /\ c = IF command = "install" THEN "open new target" ELSE "open target"
              /\ CallOf(c)
        BY <1>4a, <1>4d, <4>1
      <4>3. /\ IsType(opened.target, "target")' /\ handle'[opened'.target].path = args.target
            /\ c = "open target" => handle'[opened'.target].p # NullRepository
        BY <4>1, <4>2, OpenTargetCall
      <4> QED  BY <1>3, <4>2, <4>3 DEF TargetOpened
    <3> QED  BY <3>1, <3>2
  <2>8. CommandFaultsExplained'
    BY <1>3, <2>2, QuietFaults DEF CommandInv
  <2> QED  BY <2>6, <2>7, <2>8
<1>8. CASE pc = 6
  <2>1. /\ IsType(opened.target, "target") /\ handle[opened.target].path = args.target
        /\ command = "configure" => handle[opened.target].p # NullRepository
    BY <1>6, <1>8 DEF CommandInv, TargetOpened
  <2>2. CallOf(command)
    BY <1>4a, <1>4c, <1>8
  <2>3. /\ fault' \in {"none", "died"}
        /\ last'.result = "Ok" \/ fault' = "died" =>
             /\ disk'[args.target] \in HasSchema
             /\ command = "install" => disk[args.target] \in {"absent", "empty"}
             /\ command = "configure" => disk[args.target] \in HasSchema
        /\ last'.result = "Ok" => disk'[args.target] = "clean"
    BY <2>1, <2>2, InstallCall
  <2>4. fault = "none"
    <3>1. PICK d : Execute(command, opened.target, opened.source, d)
      BY <2>2, ActionCall DEF Installs, Action
    <3> QED  BY <3>1 DEF Execute, Callable, Running
  <2>5. disk[args.target] = before
    BY <1>8, <2>4 DEF CommandInv, InstallProgress
  <2>6. /\ pc' = 7 /\ exit = "none"
        /\ exit' = IF fault' = "none" THEN last'.result ELSE exit
    BY <1>4c, <1>5, <1>8 DEF CommandInv, InstallProgress, Outcome
  <2>7. last'.result # "none"
    BY DEF IInv, TypeOK, Result
  <2>8. InstallProgress'
    <3>1. ~(pc' <= 6) /\ pc' > 6  BY <2>6
    <3>2. fault' = "none" => exit' # "none"  BY <2>6, <2>7
    <3>3. exit' = "Ok" => last'.result = "Ok"  BY <2>6
    <3> QED  BY <1>3, <2>3, <2>5, <3>1, <3>2, <3>3 DEF InstallProgress
  <2>9. TargetOpened'
    BY <1>3, <1>6, <2>6 DEF TargetOpened
  <2>10. CommandFaultsExplained'
    BY <1>3, <2>3, <2>5 DEF CommandFaultsExplained
  <2> QED  BY <2>8, <2>9, <2>10
<1>9. CASE pc \in 7..9
  <2>1. disk' = disk /\ fault' = fault
    BY <1>4a, <1>4b, <1>9, QuietCall
  <2>2. on \in {"throw", "ignore"} /\ pc' \in 8..10
    BY <1>4b, <1>5, <1>9 DEF Outcome
  <2>3. fault = "none"
    BY <1>4a, <1>4e, <1>9 DEF CallOf, CloseRepository, DestroyInstaller, Callable, Running, Action
  <2>4. exit # "none" /\ exit' \in {exit, "exception"}
    BY <1>5, <1>9, <2>2, <2>3 DEF CommandInv, InstallProgress, Outcome
  <2>5. InstallProgress'
    <3>1. pc > 6 /\ ~(pc <= 6) /\ pc' > 6 /\ ~(pc' <= 6)  BY <1>9, <2>2
    <3>2. exit' # "none"  BY <2>4
    <3>3. exit' = "Ok" => exit = "Ok"  BY <2>4
    <3> QED  BY <1>3, <2>1, <3>1, <3>2, <3>3 DEF CommandInv, InstallProgress
  <2>6. TargetOpened'
    <3>1. ~(pc' <= 6)  BY <2>2
    <3> QED  BY <1>3, <1>6, <3>1 DEF TargetOpened
  <2>7. CommandFaultsExplained'
    BY <2>1, <2>3 DEF CommandFaultsExplained
  <2> QED  BY <2>5, <2>6, <2>7
<1> QED  BY <1>3, <1>7, <1>8, <1>9

\* The steps of repair.
LEMMA RepairStep ==
  ASSUME IInv, CliTypeOK, CommandInv, Step, command = "repair"
  PROVE  TargetOpened' /\ TargetUntouched' /\ CommandFaultsExplained'
<1>1. PICK s : s = Program["repair"]
  OBVIOUS
<1>2. /\ Len(s) = 7
      /\ \A i \in 1..7 : i # 4 => s[i].call \notin Action
      /\ s[4].call = "repair" /\ s[3].call = "open target" /\ s[3].on = "throw"
  BY <1>1, RepairCalls
<1>3. /\ pc \in 1..7 /\ CallOf(s[pc].call) /\ After(s[pc]) /\ command' = command /\ args' = args
      /\ before' = before
  BY <1>1, <1>2, StepFacts DEF CommandInv
<1>4. PICK call, on : call = s[pc].call /\ on = s[pc].on
  OBVIOUS
<1>5. /\ CallOf(call)
      /\ pc # 4 => call \notin Action
      /\ pc = 4 => call = "repair"
      /\ pc = 3 => call = "open target" /\ on = "throw"
  <2>1. \A i \in 1..7 : i # 4 => s[i].call \notin Action
    BY <1>2
  <2>2. pc # 4 => call \notin Action
    BY <2>1, <1>3, <1>4
  <2> QED  BY <2>2, <1>2, <1>3, <1>4
<1>6. Outcome(on, 7)
  <2>1. PICK n \in Nat : n = 7
    OBVIOUS
  <2>2. n = Len(Program[command]) /\ pc \in 1..n
    BY <1>1, <1>2, <1>3, <2>1
  <2>3. PICK step : step = s[pc]
    OBVIOUS
  <2>4. After(step) /\ on = step.on
    BY <1>3, <1>4, <2>3
  <2>5. Outcome(on, n)
    BY <2>2, <2>4, AfterStep
  <2> QED  BY <2>1, <2>5
<1>7. command \in Command /\ command \in OpensTarget /\ OpenAt(command) = 3 /\ ExecuteAt(command) = 4
  BY Commands DEF OpensTarget, OpenAt, ExecuteAt
<1>8. TargetOpened'
  <2>1. CASE pc' # 4
    <3>1. pc' \in Nat  BY <1>3, <1>6 DEF Outcome
    <3> QED  BY <1>3, <1>7, <2>1, <3>1 DEF TargetOpened
  <2>2. CASE pc' = 4
    <3>1. pc = 3  BY <1>3, <1>6, <2>2 DEF Outcome
    <3>2. call = "open target" /\ on = "throw"  BY <1>5, <3>1
    <3>3. last'.result = "Ok"
      <4>1. pc' # 7 + 1  BY <2>2
      <4>2. pc' # 7 + 1 /\ on = "throw" => last'.result = "Ok"  BY <1>6 DEF Outcome
      <4> QED  BY <3>2, <4>1, <4>2
    <3>4. PICK c \in {"open target", "open new target"} : c = "open target" /\ CallOf(c)
      BY <1>5, <3>2
    <3>5. /\ IsType(opened.target, "target")' /\ handle'[opened'.target].path = args.target
          /\ c = "open target" => handle'[opened'.target].p # NullRepository
      BY <3>3, <3>4, OpenTargetCall
    <3> QED  BY <1>3, <3>4, <3>5 DEF TargetOpened
  <2> QED  BY <2>1, <2>2
<1>9. command \notin Installs /\ disk[args.target] = before
  <2>1. command \notin Installs  BY DEF Installs
  <2> QED  BY <1>7, <2>1 DEF CommandInv, TargetUntouched
<1>10. TargetUntouched' /\ CommandFaultsExplained'
  <2>1. CASE pc # 4
    <3>1. fault' = fault /\ disk' = disk  BY <1>5, <2>1, QuietCall
    <3>2. CommandFaultsExplained'  BY <1>3, <3>1, QuietFaults DEF CommandInv
    <3> QED  BY <1>3, <1>9, <3>1, <3>2 DEF TargetUntouched
  <2>2. CASE pc = 4
    <3>1. /\ IsType(opened.target, "target") /\ handle[opened.target].path = args.target
          /\ handle[opened.target].p # NullRepository
      BY <1>7, <2>2 DEF CommandInv, TargetOpened
    <3>2. CallOf("repair")  BY <1>5, <2>2
    <3>3. /\ disk' = disk /\ fault' \in {"none", "assertion", "died"}
          /\ fault' = "died" => disk[args.target] \in HasSchema
      BY <3>1, <3>2, RepairCall
    <3>4. command # "install" /\ command # "configure"
      OBVIOUS
    <3> QED  BY <1>3, <1>9, <3>3, <3>4 DEF TargetUntouched, CommandFaultsExplained
  <2> QED  BY <2>1, <2>2
<1> QED  BY <1>8, <1>10

\* The steps of validate.
LEMMA ValidateStep ==
  ASSUME IInv, CliTypeOK, CommandInv, Step, command = "validate"
  PROVE  TargetOpened' /\ ValidateProgress' /\ TargetUntouched' /\ CommandFaultsExplained'
<1>1. PICK s : s = Program["validate"]
  OBVIOUS
<1>2. /\ Len(s) = 9
      /\ \A i \in 1..9 : i # 6 => s[i].call \notin Action /\ s[i].on \in {"throw", "ignore"}
      /\ s[6].call = "verify" /\ s[6].on = "throw"
      /\ s[2].call = "callback" /\ s[2].on = "ignore" /\ s[3].call = "open source"
      /\ s[4].call = "open target" /\ s[4].on = "throw" /\ s[5].call = "key"
      /\ \A i \in 7..9 : s[i].call \in {"close source", "close target", "destroy"}
  BY <1>1, ValidateCalls
<1>3. /\ pc \in 1..9 /\ CallOf(s[pc].call) /\ After(s[pc]) /\ command' = command /\ args' = args
      /\ before' = before
  BY <1>1, <1>2, StepFacts DEF CommandInv
<1>4. PICK call, on : call = s[pc].call /\ on = s[pc].on
  OBVIOUS
<1>5. /\ CallOf(call)
      /\ pc # 6 => call \notin Action /\ on \in {"throw", "ignore"}
      /\ pc \in 7..9 => call \in {"close source", "close target", "destroy"}
  <2>1. \A i \in 1..9 : i # 6 => s[i].call \notin Action /\ s[i].on \in {"throw", "ignore"}
    BY <1>2
  <2>2. pc # 6 => call \notin Action /\ on \in {"throw", "ignore"}
    BY <2>1, <1>3, <1>4
  <2>3. \A i \in 7..9 : s[i].call \in {"close source", "close target", "destroy"}
    BY <1>2
  <2>4. pc \in 7..9 => call \in {"close source", "close target", "destroy"}
    BY <2>3, <1>4
  <2> QED  BY <2>2, <2>4, <1>3, <1>4
<1>6. /\ pc = 2 => call = "callback"
      /\ pc = 3 => call = "open source"
      /\ pc = 4 => call = "open target" /\ on = "throw"
      /\ pc = 5 => call = "key"
      /\ pc = 6 => call = "verify" /\ on = "throw"
  BY <1>2, <1>4
<1>7. Outcome(on, 9)
  <2>1. PICK n \in Nat : n = 9
    OBVIOUS
  <2>2. n = Len(Program[command]) /\ pc \in 1..n
    BY <1>1, <1>2, <1>3, <2>1
  <2>3. PICK step : step = s[pc]
    OBVIOUS
  <2>4. After(step) /\ on = step.on
    BY <1>3, <1>4, <2>3
  <2>5. Outcome(on, n)
    BY <2>2, <2>4, AfterStep
  <2> QED  BY <2>1, <2>5
<1>8. command \in Command /\ command \in OpensTarget /\ OpenAt(command) = 4 /\ ExecuteAt(command) = 6
  BY Commands DEF OpensTarget, OpenAt, ExecuteAt
<1>9. pc' \in 2..10 /\ (pc' = pc + 1 \/ pc' = 10) /\ exit = "none" /\ on # "exit"
  <2>1. exit = "none"  BY <1>3 DEF CommandInv, ValidateProgress
  <2>2. on # "exit"  BY <1>5, <1>6
  <2> QED  BY <2>1, <2>2, <1>3, <1>7 DEF Outcome
<1>10. TargetOpened'
  <2>1. CASE pc' \notin 5..6
    BY <1>3, <1>8, <1>9, <2>1 DEF TargetOpened
  <2>2. CASE pc' = 5
    <3>1. pc = 4  BY <1>3, <1>9, <2>2
    <3>2. call = "open target" /\ on = "throw"  BY <1>6, <3>1
    <3>3. last'.result = "Ok"
      <4>1. pc' # 9 + 1  BY <2>2
      <4>2. pc' # 9 + 1 /\ on = "throw" => last'.result = "Ok"  BY <1>7 DEF Outcome
      <4> QED  BY <3>2, <4>1, <4>2
    <3>4. PICK c \in {"open target", "open new target"} : c = "open target" /\ CallOf(c)
      BY <1>5, <3>2
    <3>5. /\ IsType(opened.target, "target")' /\ handle'[opened'.target].path = args.target
          /\ c = "open target" => handle'[opened'.target].p # NullRepository
      BY <3>3, <3>4, OpenTargetCall
    <3> QED  BY <1>3, <3>4, <3>5 DEF TargetOpened
  <2>3. CASE pc' = 6
    <3>1. pc = 5  BY <1>3, <1>9, <2>3
    <3>2. UNCHANGED <<handle, opened>>  BY <1>5, <1>6, <3>1, KeyCall
    <3> QED  BY <1>3, <1>8, <3>1, <3>2 DEF CommandInv, TargetOpened, IsType, Open
  <2> QED  BY <1>9, <2>1, <2>2, <2>3
<1>11. ASSUME pc = 6
       PROVE  /\ disk' = disk /\ fault' \in {"none", "assertion", "died"}
              /\ fault' = "assertion" => args.target \notin PackedPath
              /\ fault' = "died" => disk[args.target] \in HasSchema
              /\ last'.result = "Ok" => disk[args.target] \in HasSchema /\ reports' \in {"ok", "bad"}
  <2>1. /\ IsType(opened.target, "target") /\ handle[opened.target].path = args.target
        /\ "validation" \in callbacks
    BY <1>8, <1>11 DEF CommandInv, TargetOpened, ValidateProgress
  <2>2. CallOf("verify")  BY <1>5, <1>6, <1>11
  <2> QED  BY <2>1, <2>2, VerifyCall
<1>12. TargetUntouched' /\ CommandFaultsExplained'
  <2>0. command \notin Installs /\ disk[args.target] = before
    <3>1. command \notin Installs  BY DEF Installs
    <3> QED  BY <1>8, <3>1 DEF CommandInv, TargetUntouched
  <2>1. CASE pc # 6
    <3>1. fault' = fault /\ disk' = disk  BY <1>5, <2>1, QuietCall
    <3>2. CommandFaultsExplained'  BY <1>3, <3>1, QuietFaults DEF CommandInv
    <3> QED  BY <1>3, <2>0, <3>1, <3>2 DEF TargetUntouched
  <2>2. CASE pc = 6
    <3>1. command # "install" /\ command # "configure"
      OBVIOUS
    <3> QED  BY <1>3, <1>11, <2>0, <2>2, <3>1 DEF TargetUntouched, CommandFaultsExplained
  <2> QED  BY <2>1, <2>2
<1>13. pc' \in 3..6 => "validation" \in callbacks'
  <2>1. CASE pc = 2
    BY <1>5, <1>6, <2>1, CallbackCall
  <2>2. CASE pc \in 3..5
    <3>1. pc = 3 \/ pc = 4 \/ pc = 5  BY <2>2
    <3>2. pc \in 3..6  BY <2>2
    <3>3. "validation" \in callbacks  BY <3>2 DEF CommandInv, ValidateProgress
    <3>4. PICK c \in {"open source", "open target", "key"} : CallOf(c)
      <4>1. call \in {"open source", "open target", "key"}  BY <1>6, <3>1
      <4> QED  BY <1>5, <4>1
    <3>5. callbacks' = callbacks  BY <3>4, OpenCalls
    <3> QED  BY <3>3, <3>5
  <2> QED  BY <1>3, <1>9, <2>1, <2>2
<1>14. pc' <= 9 => exit' = "none"
  BY <1>7, <1>9 DEF Outcome
<1>15. pc' \in 7..9 => disk'[args.target] \in HasSchema /\ reports' \in {"ok", "bad"}
  <2>1. CASE pc = 6
    <3>1. pc' \in 7..9 => last'.result = "Ok"
      BY <1>6, <1>7, <2>1 DEF Outcome
    <3> QED  BY <1>11, <2>1, <3>1
  <2>2. CASE pc \in 7..9
    <3>0. /\ CallOf(call) /\ call \notin Action
          /\ call \in {"close source", "close target", "destroy"}
      <4>1. pc # 6  BY <2>2
      <4> QED  BY <1>5, <2>2, <4>1, Zenon
    <3>1. disk' = disk  BY <3>0, QuietCall
    <3>2. reports' = reports  BY <3>0, CloseCalls
    <3> QED  BY <2>2, <3>1, <3>2 DEF CommandInv, ValidateProgress
  <2> QED  BY <1>3, <1>9, <2>1, <2>2
<1>16. exit' = "Ok" => disk'[args.target] \in HasSchema /\ reports' = "ok"
  <2>1. SUFFICES ASSUME exit' = "Ok" PROVE disk'[args.target] \in HasSchema /\ reports' = "ok"
    OBVIOUS
  <2>2. pc = 9
    BY <1>7, <1>9, <2>1 DEF Outcome
  <2>3. ~(reports = "bad")
    BY <1>7, <1>9, <2>1 DEF Outcome
  <2>4. disk[args.target] \in HasSchema /\ reports \in {"ok", "bad"}
    BY <2>2 DEF CommandInv, ValidateProgress
  <2>5. /\ CallOf(call) /\ call \notin Action
        /\ call \in {"close source", "close target", "destroy"}
    <3>1. pc # 6 /\ pc \in 7..9  BY <2>2
    <3> QED  BY <1>5, <3>1, Zenon
  <2>6. disk' = disk  BY <2>5, QuietCall
  <2>7. reports' = reports  BY <2>5, CloseCalls
  <2> QED  BY <2>3, <2>4, <2>6, <2>7
<1>17. ValidateProgress'
  BY <1>3, <1>13, <1>14, <1>15, <1>16 DEF ValidateProgress
<1> QED  BY <1>10, <1>12, <1>17

\* The commands that only ask cannot do wrong.
LEMMA QueryStep ==
  ASSUME IInv, CommandInv, Step, command \notin OpensTarget
  PROVE  TargetUntouched' /\ CommandFaultsExplained'
<1>1. command \in Command \ OpensTarget /\ pc \in 1..Len(Program[command])
  BY StepFacts DEF CommandInv
<1>2. /\ CallOf(Program[command][pc].call) /\ command' = command /\ args' = args
      /\ before' = before
  BY StepFacts DEF CommandInv
<1>3. Program[command][pc].call \notin Action
  BY <1>1, QueryCalls, Zenon
<1>4. fault' = fault /\ disk' = disk
  BY <1>2, <1>3, QuietCall
<1>5. CommandFaultsExplained'
  BY <1>2, <1>4, QuietFaults DEF CommandInv
<1> QED  BY <1>2, <1>4, <1>5 DEF CommandInv, TargetUntouched

LEMMA StepInv ==
  ASSUME IInv, IInv', CliTypeOK, CommandInv, Step
  PROVE  CommandInv'
<1>1. AtRest'
  BY StepAtRest DEF CommandInv
<1>2. command' = command
  BY StepFacts DEF CommandInv
<1>3. CASE command \in Installs
  <2>1. command # "validate"  BY <1>3 DEF Installs
  <2>2. ValidateProgress' /\ TargetUntouched'
    BY <1>2, <1>3, <2>1 DEF ValidateProgress, TargetUntouched
  <2> QED  BY <1>1, <1>3, <2>2, InstallStep DEF CommandInv
<1>4. CASE command = "repair"
  <2>1. InstallProgress' /\ ValidateProgress'
    BY <1>2, <1>4 DEF InstallProgress, ValidateProgress, Installs
  <2> QED  BY <1>1, <1>4, <2>1, RepairStep DEF CommandInv
<1>5. CASE command = "validate"
  <2>1. InstallProgress'
    BY <1>2, <1>5 DEF InstallProgress, Installs
  <2> QED  BY <1>1, <1>5, <2>1, ValidateStep DEF CommandInv
<1>6. CASE command \notin OpensTarget
  <2>1. TargetOpened' /\ InstallProgress' /\ ValidateProgress'
    BY <1>2, <1>6 DEF TargetOpened, InstallProgress, ValidateProgress, OpensTarget, Installs
  <2> QED  BY <1>1, <1>6, <2>1, QueryStep DEF CommandInv
<1> QED  BY <1>3, <1>4, <1>5, <1>6 DEF OpensTarget, Installs

\* Uuid::Parse is called only while the installation is prepared.
LEMMA ParsePlace ==
  ASSUME CommandInv, Parse
  PROVE  /\ command \in Command /\ Len(Program[command]) \in Nat /\ pc \in 1..Len(Program[command])
         /\ command \in Installs => pc = 5 /\ Len(Program[command]) = 9
         /\ command = "validate" => pc \notin {2, 4, 6} /\ Len(Program[command]) = 9
         /\ command = "repair" => pc # 3 /\ Len(Program[command]) = 7
<1>1. command \in Command /\ Len(Program[command]) \in Nat
  BY ScriptLengths DEF Parse
<1>2. pc \in 1..Len(Program[command]) /\ Program[command][pc].call = "parse"
  BY <1>1 DEF Parse, Finished, CommandInv, AtRest
<1>3. ASSUME command \in Installs PROVE pc = 5 /\ Len(Program[command]) = 9
  <2>1. Len(Program[command]) = 9 /\ \A i \in 1..9 : Program[command][i].call = "parse" => i = 5
    BY <1>3, InstallCalls, Zenon
  <2> QED  BY <1>2, <2>1
<1>4. ASSUME command = "validate" PROVE pc \notin {2, 4, 6} /\ Len(Program[command]) = 9
  <2>1. PICK s : s = Program["validate"]
    OBVIOUS
  <2>2. Len(s) = 9 /\ s[2].call = "callback" /\ s[4].call = "open target" /\ s[6].call = "verify"
    BY <2>1, ValidateCalls
  <2> QED  BY <1>2, <1>4, <2>1, <2>2
<1>5. ASSUME command = "repair" PROVE pc # 3 /\ Len(Program[command]) = 7
  <2>1. PICK s : s = Program["repair"]
    OBVIOUS
  <2>2. Len(s) = 7 /\ s[3].call = "open target"
    BY <2>1, RepairCalls
  <2> QED  BY <1>2, <1>5, <2>1, <2>2
<1> QED  BY <1>1, <1>2, <1>3, <1>4, <1>5

LEMMA ParseInv ==
  ASSUME CommandInv, Parse
  PROVE  CommandInv'
<1>1. PICK n \in Nat : n = Len(Program[command])
  BY ParsePlace
<1>2. /\ command \in Command /\ pc \in 1..n
      /\ command \in Installs => pc = 5 /\ n = 9
      /\ command = "validate" => pc \notin {2, 4, 6} /\ n = 9
      /\ command = "repair" => pc # 3 /\ n = 7
  BY <1>1, ParsePlace
<1>3. UNCHANGED <<vars, command, args, opened, before>>
  BY DEF Parse
<1>4. (pc' = pc + 1 /\ exit' = exit) \/ (pc' = n + 1 /\ exit' = "exception")
  BY <1>1 DEF Parse
<1>5. command # "none" /\ command # "own"
  BY <1>2, Commands
<1>6. AtRest'
  BY <1>1, <1>2, <1>3, <1>4, <1>5 DEF AtRest
<1>7. TargetOpened'
  BY <1>2, <1>3, <1>4 DEF CommandInv, TargetOpened, OpensTarget, Installs, OpenAt, ExecuteAt, vars,
                          IsType, Open
<1>8. InstallProgress'
  BY <1>2, <1>3, <1>4 DEF CommandInv, InstallProgress, vars
<1>9. ValidateProgress'
  BY <1>2, <1>3, <1>4 DEF CommandInv, ValidateProgress, vars
<1>10. TargetUntouched' /\ CommandFaultsExplained'
  BY <1>3, QuietFaults DEF CommandInv, TargetUntouched, vars
<1> QED  BY <1>6, <1>7, <1>8, <1>9, <1>10 DEF CommandInv

LEMMA CliInitInv == CliInit => CommandInv
<1>1. SUFFICES ASSUME CliInit PROVE CommandInv
  OBVIOUS
<1>2. command = "none" /\ pc = 1 /\ exit = "none" /\ fault = "none"
  BY <1>1 DEF CliInit, Init
<1>3. command \notin Command
  BY <1>2, Commands
<1> QED
  BY <1>2, <1>3 DEF CommandInv, AtRest, TargetOpened, InstallProgress, ValidateProgress,
                    TargetUntouched, CommandFaultsExplained, OpensTarget, Installs

LEMMA StartInv ==
  ASSUME CommandInv, NEW c \in Command \union {"own"}, Start(c)
  PROVE  CommandInv'
<1>1. /\ command' = c /\ pc' = 1 /\ exit' = "none" /\ fault' = "none" /\ UNCHANGED disk
      /\ c # "own" => before' = disk[args'.target]
  BY DEF CommandInv, AtRest, Start, vars
<1>2. c \in Command => Len(Program[c]) \in Nat
  BY ScriptLengths
<1>3. c # "none"
  BY Commands
<1>4. AtRest'
  BY <1>1, <1>2, <1>3 DEF AtRest
<1>5. TargetOpened' /\ ValidateProgress' /\ CommandFaultsExplained'
  BY <1>1 DEF TargetOpened, OpenAt, ValidateProgress, CommandFaultsExplained
<1>5a. TargetUntouched'
  BY <1>1, Commands DEF TargetUntouched
<1>6. InstallProgress'
  BY <1>1 DEF InstallProgress, Installs
<1> QED  BY <1>4, <1>5, <1>5a, <1>6 DEF CommandInv

LEMMA OwnCallInv ==
  ASSUME CommandInv, UNCHANGED cliVars, command = "own"
  PROVE  CommandInv'
<1>1. command \notin Command /\ command' = command /\ pc' = pc /\ exit' = exit
  BY Commands DEF cliVars
<1> QED
  BY <1>1 DEF CommandInv, AtRest, TargetOpened, InstallProgress, ValidateProgress,
              TargetUntouched, CommandFaultsExplained, OpensTarget, Installs

LEMMA CrashDuringInv ==
  ASSUME CommandInv, CrashDuring
  PROVE  CommandInv'
<1>1. CASE command = "own"
  BY <1>1, OwnCallInv DEF CrashDuring
<1>2. CASE command \in Installs /\ ~Finished /\ Program[command][pc].call = command
  <2>1. fault' = "crash" /\ UNCHANGED cliVars /\ UNCHANGED handle
    BY DEF CrashDuring, Crash
  <2>2. pc = 6
    <3>1. command \in Command /\ pc \in 1..Len(Program[command])
      <4>1. command \in Command  BY <1>2, Commands DEF Installs
      <4> QED  BY <1>2, <4>1, ScriptLengths DEF CommandInv, AtRest, Finished
    <3>2. Program[command][pc].call \in Action
      BY <1>2 DEF Action, Installs
    <3> QED  BY <1>2, <3>1, <3>2, ExecutePlace DEF ExecuteAt, Installs
  <2>3. command # "none" /\ command # "own" /\ command # "validate"
    BY <1>2 DEF Installs
  <2>4. AtRest' /\ TargetOpened'
    BY <2>1, <2>3 DEF cliVars, CommandInv, AtRest, TargetOpened, IsType, Open
  <2>5. InstallProgress'
    BY <2>1, <2>2 DEF cliVars, CommandInv, InstallProgress
  <2>6. ValidateProgress' /\ TargetUntouched' /\ CommandFaultsExplained'
    BY <1>2, <2>1, <2>3 DEF cliVars, ValidateProgress, TargetUntouched, CommandFaultsExplained
  <2> QED  BY <2>4, <2>5, <2>6 DEF CommandInv
<1> QED  BY <1>1, <1>2 DEF CrashDuring

LEMMA EndInv ==
  ASSUME End
  PROVE  CommandInv'
<1>1. command' = "none" /\ pc' = 1 /\ exit' = "none" /\ fault' = "none"
  BY DEF End, Restart
<1>2. command' \notin Command
  BY <1>1, Commands
<1> QED
  BY <1>1, <1>2 DEF CommandInv, AtRest, TargetOpened, InstallProgress, ValidateProgress,
                    TargetUntouched, CommandFaultsExplained, OpensTarget, Installs

LEMMA NextCommandInv ==
  ASSUME IInv, IInv', CliTypeOK, CommandInv, [CliNext]_allVars
  PROVE  CommandInv'
<1>1. CASE \E c \in Command \union {"own"} : Start(c)
  BY <1>1, StartInv
<1>2. CASE Step
  BY <1>2, StepInv
<1>3. CASE Parse
  BY <1>3, ParseInv
<1>4. CASE OwnCall
  BY <1>4, OwnCallInv DEF OwnCall
<1>5. CASE CrashDuring
  BY <1>5, CrashDuringInv
<1>6. CASE End
  BY <1>6, EndInv
<1>7. CASE UNCHANGED allVars
  BY <1>7 DEF allVars, vars, cliVars, CommandInv, AtRest, TargetOpened, InstallProgress,
              ValidateProgress, TargetUntouched, CommandFaultsExplained, IsType, Open
<1> QED  BY <1>1, <1>2, <1>3, <1>4, <1>5, <1>6, <1>7 DEF CliNext

LEMMA CommandInvariance == CliSpec => []CommandInv
<1>1. ASSUME IInv, IInv', CliTypeOK, CommandInv, [CliNext]_allVars PROVE CommandInv'
  BY <1>1, NextCommandInv
<1>2. CliSpec => []IInv
  BY CliImplementsApi, Invariance, PTL
<1> QED  BY <1>1, <1>2, CliInitInv, CliTypeInv, PTL DEF CliSpec

(***************************************************************************)
(* For any number of handles and directories, whatever is in them: no      *)
(* command dereferences a null repository; one fails an assertion only in  *)
(* repair, or in validate of a deployed repository; if one dies otherwise, *)
(* its target holds a database with its schema; validate and repair leave  *)
(* the database as it was (main.cpp ConfigureOrInstall, Validate, Repair;  *)
(* Kyla.cpp kylaExecute).                                                  *)
(***************************************************************************)
THEOREM CommandFaultsCorrect == CliSpec => []CommandFaultsExplained
  BY CommandInvariance, PTL DEF CommandInv

(***************************************************************************)
(* For any number of handles and directories, what an exit code of 0 says: *)
(* the last Configure of the target of install or configure ended by       *)
(* itself, and began where there was no database or where there was one;   *)
(* validate has read every row of a database and none was reported bad     *)
(* (main.cpp ConfigureOrInstall, Validate).                                *)
(***************************************************************************)
THEOREM ExitCodeCorrect == CliSpec => []ExitOkMeansDone
<1>1. CommandInv => ExitOkMeansDone
  <2>1. SUFFICES ASSUME CommandInv, Finished, exit = "Ok"
                 PROVE  /\ command \in Installs => disk[args.target] = "clean"
                        /\ command = "install" => before \in {"absent", "empty"}
                        /\ command = "configure" => before \in HasSchema
                        /\ command = "validate" => disk[args.target] \in HasSchema /\ reports = "ok"
    BY DEF ExitOkMeansDone
  <2>2. CASE command \in Installs
    <3>1. Len(Program[command]) = 9  BY <2>2, InstallCalls, Zenon
    <3>2. pc = 10  BY <2>1, <3>1 DEF Finished
    <3> QED  BY <2>1, <2>2, <3>2 DEF CommandInv, InstallProgress, Installs
  <2>3. CASE command \notin Installs
    BY <2>1, <2>3 DEF CommandInv, ValidateProgress, Installs
  <2> QED  BY <2>2, <2>3
<1> QED  BY <1>1, CommandInvariance, PTL
=============================================================================
