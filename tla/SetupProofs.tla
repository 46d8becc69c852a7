----------------------------- MODULE SetupProofs -----------------------------
(***************************************************************************)
(* The threads of the setup program keep out of each other's way: what the *)
(* GUI thread does while a worker runs is bound by the events the workers  *)
(* post, by the controls that are disabled, and by the destructors that    *)
(* wait. So its calls are a behaviour of InstallerApi, one after the other.*)
(*                                                                         *)
(* Three more theorems are about the dialog: what is installed is what was *)
(* checked, a success is shown only if the last Configure of the directory *)
(* ended by itself, and the space shown is that of the checked features.   *)
(***************************************************************************)
EXTENDS Setup, TLAPS, FiniteSetTheorems, WellFoundedInduction

Posted(e) == \E i \in DOMAIN events : events[i] = e

ControlTypeOK ==
    /\ gui \in {"start", "context", "splash", "open failed", "fill", "dialog", "report", "leaving",
                "quit", "close source", "destroy", "ended", "terminated"}
    /\ events \in Seq({"opened", "finished", "quit"})
    /\ opener \in {"none", "opening", "report", "ended"}
    /\ worker \in {"none", "open", "create", "select", "execute", "close", "report", "ended"}
    /\ source \in Handle \union {NoHandle} /\ target \in Handle \union {NoHandle}
    /\ action \in {"configure", "install"}
    /\ directory \in Path \union {NoPath}
    /\ button \in BOOLEAN /\ locked \in BOOLEAN

\* The thread behind the splash screen: it starts with it, and what follows waits for its event.
OpenerInv ==
    /\ opener = "none" => gui \in {"start", "context"}
    /\ gui \in {"start", "context"} => opener = "none"
    /\ opener \in {"opening", "report"} => gui \in {"splash", "quit"}
    /\ Posted("opened") => opener = "ended"

\* The thread behind the dialog: it starts once, and the dialog stays until it has ended.
WorkerInv ==
    /\ Posted("finished") => worker = "ended"
    /\ InstallRunning => gui \in {"dialog", "leaving"}
    /\ worker # "none" => locked /\ ~button /\ stack = <<>> /\ directory \in Path
    /\ button => directory \in Path

\* What the threads use is there.
ObjectsInv ==
    /\ handle = [h \in Handle |-> handle[h]]
    /\ gui \notin {"start", "ended"} => installer
    /\ gui \in {"fill", "dialog", "report", "leaving"} => source \in Handle
    /\ source \in Handle /\ gui \notin {"destroy", "ended"} => Open(source)
    /\ source \in Handle => opener \in {"report", "ended"}
    /\ worker \in {"select", "execute", "close"} => target \in Handle /\ target # source

SetupInv == ControlTypeOK /\ OpenerInv /\ WorkerInv /\ ObjectsInv

-----------------------------------------------------------------------------
(* What the calls of the program do to the installer and to its handles    *)

OthersStay(t) == \A h \in Handle \ {t} : handle'[h] = handle[h]
Table == handle = [h \in Handle |-> handle[h]]

LEMMA OpenSourceEffect ==
    ASSUME Table, NEW h \in Handle, NEW path \in Path, NEW options, OpenSource(h, path, options)
    PROVE  /\ UNCHANGED installer /\ Table' /\ OthersStay(h) /\ ~Open(h)
           /\ last'.result = "Ok" => Open(h)'
<1>1. CASE UNCHANGED handle /\ last'.result # "Ok" /\ UNCHANGED installer
  BY <1>1 DEF OpenSource, Table, OthersStay
<1>2. CASE UNCHANGED installer /\ \E p : Allocate(h, "source", path, p)
  BY <1>2 DEF OpenSource, Table, OthersStay, Allocate, Open, Free
<1>3. CASE Reject
  BY <1>1, <1>3 DEF Reject, Keep, Return, Executed
<1>4. ASSUME NEW p,
             IF p = NullRepository
             THEN Return("Error") /\ Keep
             ELSE /\ Allocate(h, "source", path, p)
                  /\ UNCHANGED installer
      PROVE  \/ UNCHANGED handle /\ last'.result # "Ok" /\ UNCHANGED installer
             \/ UNCHANGED installer /\ \E q : Allocate(h, "source", path, q)
  <2>1. CASE p = NullRepository  BY <1>4, <2>1 DEF Return, Executed, Keep
  <2>2. CASE p # NullRepository  BY <1>4, <2>2
  <2> QED  BY <2>1, <2>2
<1> QED
  BY <1>1, <1>2, <1>3, <1>4 DEF OpenSource

LEMMA OpenTargetEffect ==
    ASSUME Table, NEW h \in Handle, NEW path \in Path, NEW options, OpenTarget(h, path, options)
    PROVE  /\ UNCHANGED installer /\ Table' /\ OthersStay(h) /\ ~Open(h)
           /\ last'.result = "Ok" => Open(h)'
<1>1. CASE UNCHANGED handle /\ last'.result # "Ok" /\ UNCHANGED installer
  BY <1>1 DEF OpenTarget, Table, OthersStay
<1>2. CASE UNCHANGED installer /\ \E p : Allocate(h, "target", path, p)
  BY <1>2 DEF OpenTarget, Table, OthersStay, Allocate, Open, Free
<1> QED
  BY <1>1, <1>2 DEF OpenTarget, Return, Executed, Keep

LEMMA CloseEffect ==
    ASSUME Table, NEW h \in Handle, CloseRepository(h)
    PROVE  UNCHANGED installer /\ Table' /\ OthersStay(h)
BY DEF CloseRepository, Reject, Keep, Table, OthersStay

LEMMA InstallEffect ==
    ASSUME Table, NEW t \in Handle, NEW s, Install(t, s)
    PROVE  UNCHANGED installer /\ Table' /\ OthersStay(t)
<1>1. UNCHANGED installer /\ (UNCHANGED handle \/ handle' = [handle EXCEPT ![t].p = Deployed(TRUE)])
  BY DEF Install, Fail, Keep, DiesConfiguring, Faults
<1> QED  BY <1>1 DEF Table, OthersStay

LEMMA ConfigureEffect ==
    ASSUME Table, NEW t \in Handle, NEW s, Configure(t, s)
    PROVE  UNCHANGED installer /\ Table' /\ OthersStay(t)
<1>1. /\ UNCHANGED installer
      /\ \/ UNCHANGED handle
         \/ \E a \in BOOLEAN : handle' = [handle EXCEPT ![t].p.attached = a]
  BY DEF Configure, Fail, DiesConfiguring, Faults, Keep
<1> QED  BY <1>1 DEF Table, OthersStay

LEMMA ExecuteEffect ==
    ASSUME Table, NEW a \in {"configure", "install"}, NEW t \in Handle, NEW s, NEW d,
           Execute(a, t, s, d)
    PROVE  UNCHANGED installer /\ Table' /\ OthersStay(t)
<1>1. CASE Reject  BY <1>1 DEF Reject, Keep, Table, OthersStay
<1>2. CASE Install(t, s)  BY <1>2, InstallEffect
<1>3. CASE Configure(t, s)  BY <1>3, ConfigureEffect
<1> QED  BY <1>1, <1>2, <1>3 DEF Execute

LEMMA Posting ==
    ASSUME events \in Seq({"opened", "finished", "quit"}), NEW e \in {"opened", "finished", "quit"},
           events' = Append(events, e)
    PROVE  /\ events' \in Seq({"opened", "finished", "quit"})
           /\ \A x : Posted(x)' => Posted(x) \/ x = e
BY DEF Posted

LEMMA Taking ==
    ASSUME events \in Seq({"opened", "finished", "quit"}), events # <<>>, events' = Tail(events)
    PROVE  /\ events' \in Seq({"opened", "finished", "quit"})
           /\ \A x : Posted(x)' => Posted(x)
           /\ Posted(Head(events))
BY DEF Posted

LEMMA Dropping ==
    ASSUME events \in Seq({"opened", "finished", "quit"}), DropFinished
    PROVE  /\ events' \in Seq({"opened", "finished", "quit"})
           /\ \A x : Posted(x)' => Posted(x)
<1>1. CASE UNCHANGED events  BY <1>1 DEF Posted
<1>2. ASSUME NEW i \in DOMAIN events, events' = RemoveAt(events, i)
      PROVE  /\ events' \in Seq({"opened", "finished", "quit"})
             /\ \A x : Posted(x)' => Posted(x)
  <2>1. /\ SubSeq(events, 1, i - 1) \in Seq({"opened", "finished", "quit"})
        /\ \A k \in DOMAIN SubSeq(events, 1, i - 1) :
              k \in DOMAIN events /\ SubSeq(events, 1, i - 1)[k] = events[k]
    OBVIOUS
  <2>2. /\ SubSeq(events, i + 1, Len(events)) \in Seq({"opened", "finished", "quit"})
        /\ \A k \in DOMAIN SubSeq(events, i + 1, Len(events)) :
              i + k \in DOMAIN events /\ SubSeq(events, i + 1, Len(events))[k] = events[i + k]
    OBVIOUS
  <2>3. PICK before \in Seq({"opened", "finished", "quit"}),
             after \in Seq({"opened", "finished", "quit"}) :
           /\ events' = before \o after
           /\ \A k \in DOMAIN before : \E m \in DOMAIN events : before[k] = events[m]
           /\ \A k \in DOMAIN after : \E m \in DOMAIN events : after[k] = events[m]
    <3>1. events' = SubSeq(events, 1, i - 1) \o SubSeq(events, i + 1, Len(events))
      BY <1>2 DEF RemoveAt
    <3> QED  BY <2>1, <2>2, <3>1, Zenon
  <2>4. before \o after \in Seq({"opened", "finished", "quit"})
    OBVIOUS
  <2>5. ASSUME NEW j \in DOMAIN (before \o after)
        PROVE  \E m \in DOMAIN events : (before \o after)[j] = events[m]
    <3>1. j \in 1..(Len(before) + Len(after))
      OBVIOUS
    <3>2. CASE j <= Len(before)
      <4>1. j \in DOMAIN before /\ (before \o after)[j] = before[j]
        BY <3>1, <3>2
      <4> QED  BY <2>3, <4>1, Zenon
    <3>3. CASE ~ (j <= Len(before))
      <4>1. j - Len(before) \in DOMAIN after
        BY <3>1, <3>3
      <4>2. (before \o after)[j] = after[j - Len(before)]
        BY <3>1, <3>3
      <4>3. PICK m \in DOMAIN events : after[j - Len(before)] = events[m]
        BY <2>3, <4>1, Zenon
      <4> QED  BY <4>2, <4>3, Zenon
    <3> QED  BY <3>2, <3>3
  <2>6. \A j \in DOMAIN events' : \E m \in DOMAIN events : events'[j] = events[m]
    BY <2>3, <2>5, Zenon
  <2> QED  BY <2>3, <2>4, <2>6, Zenon DEF Posted
<1> QED  BY <1>1, <1>2 DEF DropFinished

-----------------------------------------------------------------------------
(* The invariant                                                           *)

\* What only concerns the tree, the GUI thread or a call leaves the rest of the invariant.
LEMMA Keeping ==
    ASSUME UNCHANGED events
    PROVE  \A x : Posted(x)' <=> Posted(x)
BY DEF Posted

LEMMA SetupInitially ==
    SetupInit => SetupInv
<1> SUFFICES ASSUME SetupInit PROVE SetupInv
  OBVIOUS
<1> USE SetupAssumption, ApiAssumption
<1>1. ControlTypeOK
  <2>1. events = <<>> /\ <<>> \in Seq({"opened", "finished", "quit"})
    BY DEF SetupInit
  <2>2. /\ gui = "start" /\ opener = "none" /\ worker = "none"
        /\ source = NoHandle /\ target = NoHandle /\ action = "configure"
        /\ directory = NoPath /\ button = FALSE /\ locked = FALSE
    BY DEF SetupInit
  <2> QED
    BY <2>1, <2>2 DEF ControlTypeOK
<1>2. \A x : ~ Posted(x)
  BY DEF SetupInit, Posted
<1>3. OpenerInv /\ WorkerInv
  BY <1>2 DEF SetupInit, OpenerInv, WorkerInv, InstallRunning
<1>4. ObjectsInv
  BY DEF SetupInit, Init, ObjectsInv, Open
<1> QED
  BY <1>1, <1>3, <1>4 DEF SetupInv

LEMMA OpenerKeepsInv ==
    ASSUME SetupInv, Opener
    PROVE  SetupInv'
<1> USE SetupAssumption, ApiAssumption DEF SetupInv, treeVars
<1>1. CASE OpenSourceRepository
  <2>1. PICK h \in Handle : /\ OpenSource(h, SourcePath, {"readonly"})
                            /\ source' = IF last'.result = "Ok" THEN h ELSE NoHandle
    BY <1>1 DEF OpenSourceRepository
  <2>2. UNCHANGED installer /\ Table' /\ (last'.result = "Ok" => Open(h)')
    BY <2>1, OpenSourceEffect DEF ObjectsInv, Table
  <2>3. \A x : Posted(x)' <=> Posted(x)
    BY <1>1, Keeping DEF OpenSourceRepository
  <2>4. ControlTypeOK' /\ OpenerInv' /\ WorkerInv'
    BY <1>1, <2>1, <2>3
    DEF OpenSourceRepository, ControlTypeOK, OpenerInv, WorkerInv, InstallRunning
  <2>5. ObjectsInv'
    BY <1>1, <2>1, <2>2 DEF OpenSourceRepository, OpenerInv, WorkerInv, InstallRunning, ObjectsInv, Table
  <2> QED
    BY <2>4, <2>5
<1>2. CASE EmitRepositoryOpened
  <2>1. /\ events' \in Seq({"opened", "finished", "quit"})
        /\ \A x : Posted(x)' => Posted(x) \/ x = "opened"
    BY <1>2, Posting DEF EmitRepositoryOpened, ControlTypeOK
  <2>2. ControlTypeOK' /\ OpenerInv' /\ WorkerInv'
    BY <1>2, <2>1 DEF EmitRepositoryOpened, ControlTypeOK, OpenerInv, WorkerInv, InstallRunning
  <2>3. ObjectsInv'
    BY <1>2 DEF EmitRepositoryOpened, OpenerInv, ObjectsInv, Open, vars
  <2> QED
    BY <2>2, <2>3
<1> QED
  BY <1>1, <1>2 DEF Opener

LEMMA WorkerKeepsInv ==
    ASSUME SetupInv, Worker
    PROVE  SetupInv'
<1> USE SetupAssumption, ApiAssumption DEF SetupInv, treeVars
<1>1. ASSUME NEW options, NEW then \in {"create", "report"}, WorkerOpens(options, then),
             worker \in {"open", "create"}, action' \in {"configure", "install"},
             UNCHANGED <<gui, events, quitting, opener, source, treeVars>>
      PROVE  SetupInv'
  <2>1. PICK h \in Handle : /\ OpenTarget(h, directory, options)
                            /\ target' = IF last'.result = "Ok" THEN h ELSE NoHandle
                            /\ worker' = IF last'.result = "Ok" THEN "select" ELSE then
    BY <1>1 DEF WorkerOpens
  <2>2. directory \in Path
    BY <1>1 DEF WorkerInv
  <2>3. UNCHANGED installer /\ Table' /\ OthersStay(h) /\ ~Open(h)
    BY <2>1, <2>2, OpenTargetEffect DEF ObjectsInv, Table
  <2>4. source \in Handle /\ Open(source)
    BY <1>1 DEF WorkerInv, ObjectsInv, InstallRunning
  <2>5. source # h /\ Open(source)'
    BY <2>3, <2>4, <1>1 DEF OthersStay, Open
  <2>6. \A x : Posted(x)' <=> Posted(x)
    BY <1>1, Keeping
  <2>7. ControlTypeOK' /\ OpenerInv' /\ WorkerInv'
    BY <1>1, <2>1, <2>6 DEF ControlTypeOK, OpenerInv, WorkerInv, InstallRunning
  <2>8. ObjectsInv'
    BY <1>1, <2>1, <2>3, <2>5 DEF ObjectsInv, Table
  <2> QED
    BY <2>7, <2>8
<1>2. CASE TryOpen
  BY <1>1, <1>2 DEF TryOpen
<1>3. CASE OpenToCreate
  BY <1>1, <1>3 DEF OpenToCreate
<1>4. CASE GetSelectedFeatures
  <2>1. \A x : Posted(x)' <=> Posted(x)
    BY <1>4, Keeping DEF GetSelectedFeatures
  <2>2. ControlTypeOK' /\ OpenerInv' /\ WorkerInv'
    BY <1>4, <2>1 DEF GetSelectedFeatures, ControlTypeOK, OpenerInv, WorkerInv, InstallRunning
  <2>3. ObjectsInv'
    BY <1>4 DEF GetSelectedFeatures, ObjectsInv, Open, vars
  <2> QED
    BY <2>2, <2>3
<1>5. ASSUME UNCHANGED installer, Table', OthersStay(target),
             \/ worker = "execute" /\ worker' = "close"
             \/ worker = "close" /\ worker' = "report",
             UNCHANGED <<gui, events, quitting, opener, source, target, action, treeVars>>
      PROVE  SetupInv'
  <2>1. \A x : Posted(x)' <=> Posted(x)
    BY <1>5, Keeping
  <2>2. ControlTypeOK' /\ OpenerInv' /\ WorkerInv'
    BY <1>5, <2>1 DEF ControlTypeOK, OpenerInv, WorkerInv, InstallRunning
  <2>3. source \in Handle /\ Open(source) /\ source # target
    BY <1>5 DEF WorkerInv, ObjectsInv, InstallRunning
  <2>4. Open(source)'
    BY <1>5, <2>3 DEF OthersStay, Open
  <2>5. ObjectsInv'
    BY <1>5, <2>3, <2>4 DEF ObjectsInv, Table
  <2> QED
    BY <2>2, <2>5
<1>6. CASE ExecuteAction
  <2>1. target \in Handle /\ Table /\ action \in {"configure", "install"}
    BY <1>6 DEF ExecuteAction, ObjectsInv, Table, ControlTypeOK
  <2>2. UNCHANGED installer /\ Table' /\ OthersStay(target)
    BY <1>6, <2>1, ExecuteEffect DEF ExecuteAction
  <2> QED
    BY <1>5, <1>6, <2>2 DEF ExecuteAction
<1>7. CASE CloseTarget
  <2>1. target \in Handle /\ Table
    BY <1>7 DEF CloseTarget, ObjectsInv, Table
  <2>2. UNCHANGED installer /\ Table' /\ OthersStay(target)
    BY <1>7, <2>1, CloseEffect DEF CloseTarget
  <2> QED
    BY <1>5, <1>7, <2>2 DEF CloseTarget
<1>8. CASE EmitInstallationFinished
  <2>1. /\ events' \in Seq({"opened", "finished", "quit"})
        /\ \A x : Posted(x)' => Posted(x) \/ x = "finished"
    BY <1>8, Posting DEF EmitInstallationFinished, ControlTypeOK
  <2>2. ControlTypeOK' /\ OpenerInv' /\ WorkerInv'
    BY <1>8, <2>1 DEF EmitInstallationFinished, ControlTypeOK, OpenerInv, WorkerInv, InstallRunning
  <2>3. ObjectsInv'
    BY <1>8 DEF EmitInstallationFinished, ObjectsInv, Open, vars
  <2> QED
    BY <2>2, <2>3
<1> QED
  BY <1>2, <1>3, <1>4, <1>6, <1>7, <1>8 DEF Worker

LEMMA UserKeepsInv ==
    ASSUME SetupInv, User
    PROVE  SetupInv'
<1> USE SetupAssumption, ApiAssumption DEF SetupInv, Interactive, GuiGoes
\* Only the controls change, and only while no thread installs.
<1>1. ASSUME worker = "none", UNCHANGED <<vars, threadVars, locked>>,
             directory' \in Path \union {NoPath}, button' \in BOOLEAN,
             button' => directory' \in Path
      PROVE  SetupInv'
  <2>1. \A x : Posted(x)' <=> Posted(x)
    BY <1>1, Keeping DEF threadVars
  <2>2. ControlTypeOK' /\ OpenerInv' /\ WorkerInv'
    BY <1>1, <2>1 DEF threadVars, ControlTypeOK, OpenerInv, WorkerInv, InstallRunning
  <2>3. ObjectsInv'
    BY <1>1 DEF vars, threadVars, ObjectsInv, Open
  <2> QED
    BY <2>2, <2>3
<1>2. ASSUME NEW f \in Feature, Toggle(f)  PROVE SetupInv'
  BY <1>1, <1>2 DEF Toggle, ControlTypeOK, WorkerInv
<1>3. ASSUME NEW path \in Path \union {NoPath}, EditDirectory(path)  PROVE SetupInv'
  BY <1>1, <1>3 DEF EditDirectory, UpdateInstallButtonState, ControlTypeOK, WorkerInv, threadVars
<1>4. CASE StartInstallation
  <2>1. \A x : Posted(x)' <=> Posted(x)
    BY <1>4, Keeping DEF StartInstallation
  <2>2. ControlTypeOK' /\ OpenerInv' /\ WorkerInv'
    BY <1>4, <2>1 DEF StartInstallation, ControlTypeOK, OpenerInv, WorkerInv, InstallRunning
  <2>3. ObjectsInv'
    BY <1>4 DEF StartInstallation, ObjectsInv, Open, vars
  <2> QED
    BY <2>2, <2>3
<1>5. ASSUME PostQuit, UNCHANGED <<vars, quitting, opener, worker, source, target, action, treeVars>>,
             \/ gui = "splash" /\ gui' = "splash"
             \/ gui = "open failed" /\ gui' = "splash"
             \/ gui \in {"dialog", "report"} /\ gui' = "leaving"
      PROVE  SetupInv'
  <2>1. /\ events' \in Seq({"opened", "finished", "quit"})
        /\ \A x : Posted(x)' => Posted(x) \/ x = "quit"
    BY <1>5, Posting DEF PostQuit, ControlTypeOK
  <2>2. ControlTypeOK' /\ OpenerInv' /\ WorkerInv'
    <3>1. ControlTypeOK'
      <4>1. gui' = "splash" \/ gui' = "leaving"
        BY <1>5
      <4>2. UNCHANGED <<opener, worker, source, target, action, directory, button, locked>>
        BY <1>5 DEF treeVars
      <4>3. gui' \in {"start", "context", "splash", "open failed", "fill", "dialog", "report",
                      "leaving", "quit", "close source", "destroy", "ended", "terminated"}
        BY <4>1
      <4>4. /\ opener' \in {"none", "opening", "report", "ended"}
            /\ worker' \in {"none", "open", "create", "select", "execute", "close", "report", "ended"}
        BY <4>2, Zenon DEF ControlTypeOK
      <4>5. /\ source' \in Handle \union {NoHandle} /\ target' \in Handle \union {NoHandle}
            /\ action' \in {"configure", "install"} /\ directory' \in Path \union {NoPath}
        BY <4>2, Zenon DEF ControlTypeOK
      <4>6. button' \in BOOLEAN /\ locked' \in BOOLEAN
        BY <4>2, Zenon DEF ControlTypeOK
      <4> QED  BY <2>1, <4>3, <4>4, <4>5, <4>6, Zenon DEF ControlTypeOK
    <3>2. OpenerInv'
      BY <1>5, <2>1 DEF OpenerInv
    <3>3. WorkerInv'
      BY <1>5, <2>1 DEF treeVars, WorkerInv, InstallRunning
    <3> QED  BY <3>1, <3>2, <3>3
  <2>3. ObjectsInv'
    BY <1>5 DEF ObjectsInv, Open, vars
  <2> QED
    BY <2>2, <2>3
<1>6. CASE CloseSplash  BY <1>5, <1>6 DEF CloseSplash
<1>7. CASE CloseOpenFailed  BY <1>5, <1>7 DEF CloseOpenFailed
<1>8. CASE CloseDialog  BY <1>5, <1>8 DEF CloseDialog
<1> QED
  BY <1>2, <1>3, <1>4, <1>6, <1>7, <1>8 DEF User

LEMMA HandlerKeepsInv ==
    ASSUME SetupInv, Handler
    PROVE  SetupInv'
<1> USE SetupAssumption, ApiAssumption DEF SetupInv
<1>1. /\ worker = "none"
      /\ UNCHANGED <<vars, threadVars, locked, directory>>
      /\ button' \in BOOLEAN /\ (button' => directory' \in Path)
  <2>1. stack # <<>> /\ worker = "none"
    BY DEF Handler, EnterHandler, HandlerChanges, LeaveHandler, WorkerInv
  <2>2. CASE UNCHANGED <<vars, threadVars, locked, directory, button>>
    BY <2>1, <2>2 DEF ControlTypeOK, WorkerInv
  <2>3. CASE LeaveHandler
    BY <2>1, <2>3 DEF LeaveHandler, UpdateInstallButtonState, ControlTypeOK
  <2> QED
    BY <2>2, <2>3 DEF Handler, EnterHandler, HandlerChanges
<1>2. \A x : Posted(x)' <=> Posted(x)
  BY <1>1, Keeping DEF threadVars
<1>3. ControlTypeOK' /\ OpenerInv' /\ WorkerInv'
  <2>1. UNCHANGED <<gui, events, opener, worker, source, target, action, locked, directory>>
    BY <1>1 DEF threadVars
  <2>2. ControlTypeOK'
    BY <1>1, <2>1 DEF ControlTypeOK
  <2>3. OpenerInv'
    BY <1>2, <2>1 DEF OpenerInv
  <2>4. WorkerInv'
    BY <1>1, <1>2, <2>1 DEF threadVars, WorkerInv, InstallRunning
  <2> QED  BY <2>2, <2>3, <2>4
<1>4. ObjectsInv'
  BY <1>1 DEF vars, threadVars, ObjectsInv, Open
<1> QED
  BY <1>3, <1>4

LEMMA GuiKeepsInv ==
    ASSUME SetupInv, Gui
    PROVE  SetupInv'
<1> USE SetupAssumption, ApiAssumption DEF SetupInv, Interactive, GuiGoes, treeVars
\* A step that moves the GUI thread on, and may take or drop events.
<1>1. ASSUME NEW to, gui' = to,
             UNCHANGED <<installer, handle, worker, source, target, action, directory, button, locked, stack>>,
             \/ opener' = opener /\ opener' # "none"
             \/ gui = "context" /\ opener' = "opening" /\ ~ Posted("opened")',
             events' \in Seq({"opened", "finished", "quit"}),
             \A x : Posted(x)' => Posted(x),
             \/ gui = "context" /\ to = "splash"
             \/ gui = "splash" /\ to = "quit"
             \/ gui = "splash" /\ to = "open failed" /\ opener = "ended"
             \/ gui = "splash" /\ to = "fill" /\ opener = "ended" /\ source \in Handle
             \/ gui = "open failed" /\ to = "quit"
             \/ gui = "dialog" /\ to = "leaving"
             \/ gui = "dialog" /\ to = "report" /\ worker = "ended"
             \/ gui = "report" /\ to = "leaving"
             \/ gui = "leaving" /\ to \in {"quit", "splash"} /\ ~ InstallRunning
             \/ gui = "quit" /\ to = "close source" /\ opener = "ended"
             \/ gui = "fill" /\ to \in {"dialog", "terminated"}
      PROVE  SetupInv'
  <2>1. ControlTypeOK'
    <3>1. gui' \in {"start", "context", "splash", "open failed", "fill", "dialog", "report",
                    "leaving", "quit", "close source", "destroy", "ended", "terminated"}
      BY <1>1
    <3>2. opener' \in {"none", "opening", "report", "ended"}
      BY <1>1 DEF ControlTypeOK
    <3> QED
      BY <1>1, <3>1, <3>2 DEF ControlTypeOK
  <2>2. OpenerInv'
    BY <1>1 DEF OpenerInv, ControlTypeOK
  <2>3. WorkerInv'
    BY <1>1 DEF WorkerInv, InstallRunning
  <2>4. ObjectsInv'
    BY <1>1 DEF ObjectsInv, OpenerInv, WorkerInv, Open
  <2> QED
    BY <2>1, <2>2, <2>3, <2>4
<1>2. (UNCHANGED events) => /\ events' \in Seq({"opened", "finished", "quit"})
                            /\ \A x : Posted(x)' => Posted(x)
  BY Keeping DEF ControlTypeOK
<1>3. gui \notin {"start", "context"} => opener # "none"
  BY DEF OpenerInv
<1>4. CASE CreateContext
  <2>1. /\ gui = "start" /\ gui' = "context"
        /\ installer' = TRUE
        /\ UNCHANGED <<events, handle, opener, worker, source, target, action, treeVars>>
    BY <1>4 DEF CreateContext, CreateInstaller
  <2>2. \A x : Posted(x)' <=> Posted(x)
    BY <2>1, Keeping
  <2>3. ControlTypeOK' /\ OpenerInv' /\ WorkerInv'
    BY <2>1, <2>2 DEF ControlTypeOK, OpenerInv, WorkerInv, InstallRunning
  <2>4. ObjectsInv'
    BY <2>1 DEF ObjectsInv, Open
  <2> QED
    BY <2>3, <2>4
<1>5. CASE ShowSplash
  <2>1. opener = "none" /\ ~ Posted("opened")'
    BY <1>2, <1>5 DEF ShowSplash, OpenerInv
  <2> QED
    BY <1>1, <1>2, <1>5, <2>1 DEF ShowSplash, vars
<1>6. CASE OnRepositoryOpened
  <2>1. /\ events' \in Seq({"opened", "finished", "quit"})
        /\ \A x : Posted(x)' => Posted(x)
        /\ Posted("opened")
    BY <1>6, Taking DEF OnRepositoryOpened, ControlTypeOK
  <2>2. opener = "ended" /\ (source # NoHandle => source \in Handle)
    BY <2>1 DEF OpenerInv, ControlTypeOK
  <2> QED
    BY <1>1, <1>6, <2>1, <2>2 DEF OnRepositoryOpened, vars
<1>7. CASE FillTree
  <2>1. /\ gui = "fill" /\ gui' \in {"dialog", "terminated"}
        /\ UNCHANGED <<installer, handle>>
    BY <1>7 DEF FillTree, GetProperty, Reject, Keep
  <2> QED
    BY <1>1, <1>2, <1>3, <1>7, <2>1 DEF FillTree
<1>8. CASE InstallationFinished
  <2>1. /\ events' \in Seq({"opened", "finished", "quit"})
        /\ \A x : Posted(x)' => Posted(x)
        /\ Posted("finished")
    BY <1>8, Taking DEF InstallationFinished, ControlTypeOK
  <2>2. worker = "ended"
    BY <2>1 DEF WorkerInv
  <2> QED
    BY <1>1, <1>3, <1>8, <2>1, <2>2 DEF InstallationFinished, vars
<1>9. CASE Quit
  <2>1. /\ events' \in Seq({"opened", "finished", "quit"})
        /\ \A x : Posted(x)' => Posted(x)
    BY <1>9, Taking DEF Quit, ControlTypeOK
  <2> QED
    BY <1>1, <1>3, <1>9, <2>1 DEF Quit, vars
<1>10. CASE DestroyDialog
  <2>1. /\ events' \in Seq({"opened", "finished", "quit"})
        /\ \A x : Posted(x)' => Posted(x)
    BY <1>10, Dropping DEF DestroyDialog, ControlTypeOK
  <2>2. ~ InstallRunning
    BY <1>10 DEF DestroyDialog, InstallRunning
  <2> QED
    BY <1>1, <1>3, <1>10, <2>1, <2>2 DEF DestroyDialog, vars
<1>11. CASE DestroySplash
  BY <1>1, <1>2, <1>11 DEF DestroySplash, vars
<1>12. ASSUME \/ gui = "close source" /\ gui' = "destroy" /\ UNCHANGED installer
              \/ gui = "destroy" /\ gui' = "ended",
              Table',
              UNCHANGED <<events, opener, worker, source, target, action, treeVars>>
       PROVE  SetupInv'
  <2>1. \A x : Posted(x)' <=> Posted(x)
    BY <1>12, Keeping
  <2>2. ControlTypeOK' /\ OpenerInv' /\ WorkerInv'
    BY <1>12, <2>1 DEF ControlTypeOK, OpenerInv, WorkerInv, InstallRunning
  <2>3. ObjectsInv'
    BY <1>12 DEF ObjectsInv, Table, WorkerInv, InstallRunning
  <2> QED
    BY <2>2, <2>3
<1>13. CASE CloseSource
  <2>1. UNCHANGED installer /\ Table'
    <3>1. Table /\ source \in Handle \union {NoHandle}
      BY DEF ObjectsInv, Table, ControlTypeOK
    <3>2. CASE source \in Handle
      BY <1>13, <3>1, <3>2, CloseEffect DEF CloseSource
    <3>3. CASE source = NoHandle
      BY <1>13, <3>1, <3>3 DEF CloseSource, vars, Table
    <3> QED
      BY <3>1, <3>2, <3>3
  <2>2. /\ gui = "close source" /\ gui' = "destroy"
        /\ UNCHANGED <<events, opener, worker, source, target, action, treeVars>>
    BY <1>13 DEF CloseSource
  <2> QED
    BY <1>12, <2>1, <2>2
<1>14. CASE DestroyContext
  <2>1. Table' /\ gui = "destroy" /\ gui' = "ended"
    BY <1>14 DEF DestroyContext, DestroyInstaller, ObjectsInv, Table
  <2> QED
    BY <1>12, <1>14, <2>1 DEF DestroyContext
<1>15. CASE Handler
  BY <1>15, HandlerKeepsInv
<1> QED
  BY <1>4, <1>5, <1>6, <1>7, <1>8, <1>9, <1>10, <1>11, <1>13, <1>14, <1>15 DEF Gui

LEMMA StartAgainKeepsInv ==
    ASSUME StartAgain
    PROVE  SetupInv'
<1>1. events' = <<>> /\ <<>> \in Seq({"opened", "finished", "quit"})
  BY DEF StartAgain
<1>2. /\ gui' = "start" /\ opener' = "none" /\ worker' = "none"
      /\ source' = NoHandle /\ target' = NoHandle /\ action' = "configure"
      /\ directory' = NoPath /\ button' = FALSE /\ locked' = FALSE
  BY DEF StartAgain
<1>3. \A x : ~ Posted(x)'
  BY <1>1 DEF Posted
<1>4. ControlTypeOK'
  BY <1>1, <1>2 DEF ControlTypeOK
<1>5. OpenerInv' /\ WorkerInv'
  BY <1>2, <1>3 DEF OpenerInv, WorkerInv, InstallRunning
<1>6. ObjectsInv'
  <2>1. handle' = [h \in Handle |-> Free]
    BY DEF StartAgain, Restart
  <2> QED
    BY <1>2, <2>1, ApiAssumption DEF ObjectsInv
<1> QED
  BY <1>4, <1>5, <1>6 DEF SetupInv

LEMMA SetupStep ==
    SetupInv /\ [SetupNext]_setupVars => SetupInv'
<1> SUFFICES ASSUME SetupInv, [SetupNext]_setupVars PROVE SetupInv'
  OBVIOUS
<1>1. CASE UNCHANGED <<installer, handle, threadVars, treeVars>>
  <2>1. \A x : Posted(x)' <=> Posted(x)
    BY <1>1, Keeping DEF threadVars
  <2>2. ControlTypeOK' /\ OpenerInv' /\ WorkerInv'
    <3>1. ControlTypeOK'
      <4>1. /\ gui' = gui /\ events' = events /\ opener' = opener /\ worker' = worker
            /\ source' = source /\ target' = target /\ action' = action
            /\ directory' = directory /\ button' = button /\ locked' = locked
        BY <1>1 DEF threadVars, treeVars
      <4>2. ControlTypeOK
        BY DEF SetupInv
      <4>3. /\ gui' \in {"start", "context", "splash", "open failed", "fill", "dialog", "report",
                        "leaving", "quit", "close source", "destroy", "ended", "terminated"}
            /\ events' \in Seq({"opened", "finished", "quit"})
        BY <4>1, <4>2, Zenon DEF ControlTypeOK
      <4>4. /\ opener' \in {"none", "opening", "report", "ended"}
            /\ worker' \in {"none", "open", "create", "select", "execute", "close", "report",
                           "ended"}
            /\ action' \in {"configure", "install"}
        BY <4>1, <4>2, Zenon DEF ControlTypeOK
      <4>5. /\ source' \in Handle \union {NoHandle} /\ target' \in Handle \union {NoHandle}
            /\ directory' \in Path \union {NoPath}
            /\ button' \in BOOLEAN /\ locked' \in BOOLEAN
        BY <4>1, <4>2, Zenon DEF ControlTypeOK
      <4> QED  BY <4>3, <4>4, <4>5, Zenon DEF ControlTypeOK
    <3>2. UNCHANGED <<gui, opener, worker, locked, button, stack, directory>>
      BY <1>1 DEF threadVars, treeVars
    <3>3. OpenerInv'
      BY <2>1, <3>2 DEF SetupInv, OpenerInv
    <3>4. WorkerInv'
      BY <2>1, <3>2 DEF SetupInv, WorkerInv, InstallRunning
    <3> QED  BY <3>1, <3>3, <3>4
  <2>3. ObjectsInv'
    BY <1>1 DEF threadVars, SetupInv, ObjectsInv, Open
  <2> QED
    BY <2>2, <2>3 DEF SetupInv
<1>2. CASE UNCHANGED setupVars
  BY <1>1, <1>2 DEF setupVars, vars
<1>3. CASE CrashInstalling
  BY <1>1, <1>3 DEF CrashInstalling, Crash
<1> QED
  BY <1>2, <1>3, OpenerKeepsInv, WorkerKeepsInv, GuiKeepsInv, UserKeepsInv, StartAgainKeepsInv
  DEF SetupNext

LEMMA SetupInvariant ==
    SetupSpec => []SetupInv
BY SetupInitially, SetupStep, PTL DEF SetupSpec

-----------------------------------------------------------------------------
(* What follows                                                            *)

(***************************************************************************)
(* At any time at most one thread of the setup program is in a call of the *)
(* API: the GUI thread calls while no worker runs, and the workers follow  *)
(* each other (SetupDialog.cpp:63-121, SplashDialog.cpp:47-68).            *)
(***************************************************************************)
THEOREM OneCallCorrect == SetupSpec => []OneCallAtATime
<1>1. SetupInv => OneCallAtATime
  BY DEF SetupInv, OpenerInv, WorkerInv, InstallRunning, OneCallAtATime
<1> QED
  BY <1>1, SetupInvariant, PTL

(***************************************************************************)
(* The installer outlives both threads, the source repository and the      *)
(* dialog outlive the InstallThread (SetupDialog.cpp:484-490,              *)
(* SplashDialog.cpp:47-52).                                                *)
(***************************************************************************)
THEOREM ThreadsCorrect == SetupSpec => []ThreadsEndFirst
<1>1. SetupInv => ThreadsEndFirst
  BY DEF SetupInv, OpenerInv, WorkerInv, ObjectsInv, InstallRunning, ThreadsEndFirst
<1> QED
  BY <1>1, SetupInvariant, PTL

(***************************************************************************)
(* The setup program is a client of the API: whatever its threads and its  *)
(* user do, the calls it makes are a behaviour of InstallerApi, so what    *)
(* CliProofs shows of the API holds in it (src/src/ui/src).                *)
(***************************************************************************)
THEOREM SetupImplementsApi == SetupSpec => Spec
<1>1. SetupInit => Init
  BY DEF SetupInit
<1>2. SetupInv /\ [SetupNext]_setupVars => [Next]_vars
  <2> SUFFICES ASSUME SetupInv, [SetupNext]_setupVars PROVE [Next]_vars
    OBVIOUS
  <2> USE SetupAssumption, ApiAssumption
  <2>1. CASE UNCHANGED vars
    BY <2>1
  <2>2. CASE OpenSourceRepository
    <3>1. \E h \in Handle : OpenSource(h, SourcePath, {"readonly"})
      BY <2>2 DEF OpenSourceRepository
    <3>2. SourcePath \in Path /\ {"readonly"} \in SUBSET Option
      BY DEF Option
    <3> QED
      BY <3>1, <3>2 DEF Next, Call
  <2>3. ASSUME NEW options \in SUBSET Option, NEW then, WorkerOpens(options, then),
               worker \in {"open", "create"}
        PROVE  Next
    <3>1. \E h \in Handle : OpenTarget(h, directory, options)
      BY <2>3 DEF WorkerOpens
    <3>2. directory \in Path
      BY <2>3 DEF SetupInv, WorkerInv
    <3> QED
      BY <3>1, <3>2 DEF Next, Call
  <2>4. CASE TryOpen
    BY <2>3, <2>4 DEF TryOpen
  <2>5. CASE OpenToCreate
    <3>1. {"create"} \in SUBSET Option
      BY DEF Option
    <3> QED
      BY <2>3, <2>5, <3>1 DEF OpenToCreate
  <2>6. CASE ExecuteAction
    <3>1. Execute(action, target, source, IF desired = {} THEN "bad" ELSE "good")
      BY <2>6 DEF ExecuteAction
    <3>2. /\ action \in Action /\ target \in Handle \union {NoHandle} /\ source \in Handle \union {NoHandle}
          /\ (IF desired = {} THEN "bad" ELSE "good") \in DesiredState
      BY DEF SetupInv, ControlTypeOK, Action, DesiredState
    <3> QED
      BY <3>1, <3>2 DEF Next, Call
  <2>7. CASE CloseTarget \/ CloseSource
    <3>1. target \in Handle \union {NoHandle} /\ source \in Handle \union {NoHandle}
      BY DEF SetupInv, ControlTypeOK
    <3>2. UNCHANGED vars \/ CloseRepository(target) \/ CloseRepository(source)
      BY <2>7 DEF CloseTarget, CloseSource
    <3> QED
      BY <3>1, <3>2 DEF Next, Call
  <2>8. CASE CreateContext
    BY <2>8 DEF CreateContext, Next, Call
  <2>9. CASE DestroyContext
    BY <2>9 DEF DestroyContext, Next, Call
  <2>10. CASE FillTree
    <3>1. /\ GetProperty(source, TRUE, "enough") /\ "enough" \in Buffer
          /\ source \in Handle \union {NoHandle}
      BY <2>10 DEF FillTree, Buffer, SetupInv, ControlTypeOK
    <3> QED
      BY <3>1 DEF Next, Call
  <2>11. CASE CrashInstalling
    <3>1. Crash(target) /\ target \in Handle
      BY <2>11 DEF CrashInstalling, Crash, IsType, Open
    <3> QED
      BY <3>1 DEF Next
  <2>12. CASE StartAgain
    BY <2>12 DEF StartAgain, Next
  <2>13. CASE User \/ Handler
    BY <2>1, <2>13
    DEF User, Toggle, EditDirectory, StartInstallation, CloseSplash, CloseOpenFailed, CloseDialog,
        Handler, EnterHandler, HandlerChanges, LeaveHandler
  <2>14. CASE UNCHANGED setupVars
    BY <2>1, <2>14 DEF setupVars
  <2> QED
    BY <2>1, <2>2, <2>4, <2>5, <2>6, <2>7, <2>8, <2>9, <2>10, <2>11, <2>12, <2>13, <2>14
    DEF SetupNext, Opener, Worker, Gui, EmitRepositoryOpened, GetSelectedFeatures,
        EmitInstallationFinished, ShowSplash, OnRepositoryOpened, InstallationFinished, Quit,
        DestroyDialog, DestroySplash
<1> QED
  BY <1>1, <1>2, SetupInvariant, PTL DEF SetupSpec, Spec

-----------------------------------------------------------------------------
(* The tree and what is installed                                          *)

Frames == [item : Feature, entered : BOOLEAN, on : BOOLEAN, todo : SUBSET Feature]

\* What a call of the handler has still to do for the feature c and its parent.
Pending(frame, c) ==
    \/ frame.item = c /\ (frame.entered => frame.on /\ Parent[c] \in frame.todo)
    \/ frame.item = Parent[c] /\ (frame.entered => ~ frame.on /\ c \in frame.todo)

\* A checked feature is without its parent only until the handler has gone on.
Closed(features, frames) ==
    \A c \in features :
        \/ Parent[c] \in features \union {NoFeature}
        \/ \E i \in DOMAIN frames : Pending(frames[i], c)

TreeInv ==
    /\ checked \subseteq Feature
    /\ stack \in Seq(Frames)
    /\ Closed(checked, stack)

\* The button is enabled by a selection and a directory, and nothing changes them after it.
SelectionInv ==
    /\ stack = <<>> /\ button => checked # {}
    /\ locked => ~ button /\ stack = <<>> /\ checked # {}
    /\ worker \in {"execute", "close", "report", "ended"} /\ target # NoHandle => desired = checked

\* The InstallThread works on the directory that is shown.
OutcomeInv ==
    /\ disk = [p \in Path |-> disk[p]]
    /\ gui = "report" => worker = "ended"
    /\ worker \in {"select", "execute"} => handle[target].path = directory
    /\ outcome = "Ok" /\ worker \in {"close", "report", "ended"} =>
          disk[directory] = "clean" /\ target \in Handle

DialogInv == TreeInv /\ SelectionInv /\ OutcomeInv

In(x, s) == \E i \in DOMAIN s : s[i] = x

LEMMA PushMembers ==
    ASSUME NEW S, NEW s \in Seq(S), NEW x \in S
    PROVE  /\ <<x>> \o s \in Seq(S)
           /\ In(x, <<x>> \o s)
           /\ \A y : In(y, s) => In(y, <<x>> \o s)
<1>0. <<x>> \in Seq(S) /\ Len(<<x>>) = 1 /\ <<x>>[1] = x
  OBVIOUS
<1>1. PICK one \in Seq(S) : one = <<x>> /\ Len(one) = 1 /\ one[1] = x
  BY <1>0, Zenon
<1>2. one \o s \in Seq(S) /\ Len(one \o s) = 1 + Len(s) /\ Len(s) \in Nat
  BY <1>1
<1>3. (one \o s)[1] = x /\ 1 \in DOMAIN (one \o s)
  BY <1>1, <1>2
<1>4. ASSUME NEW i \in DOMAIN s PROVE 1 + i \in DOMAIN (one \o s) /\ (one \o s)[1 + i] = s[i]
  <2>1. i \in 1..Len(s) /\ 1 + i \in 1..(1 + Len(s))
    BY <1>2
  <2>2. (one \o s)[1 + i] = s[(1 + i) - Len(one)]
    BY <1>1, <2>1
  <2> QED  BY <1>1, <1>2, <2>1, <2>2
<1> QED  BY <1>1, <1>2, <1>3, <1>4 DEF In

LEMMA TailMembers ==
    ASSUME NEW S, NEW s \in Seq(S), s # <<>>
    PROVE  /\ Tail(s) \in Seq(S) /\ Head(s) \in S /\ In(Head(s), s)
           /\ \A y : In(y, s) => y = Head(s) \/ In(y, Tail(s))
<1>1. /\ Len(s) \in Nat \ {0} /\ Tail(s) \in Seq(S) /\ Len(Tail(s)) = Len(s) - 1
      /\ Head(s) = s[1] /\ s[1] \in S /\ 1 \in DOMAIN s
      /\ \A i \in 1..Len(Tail(s)) : Tail(s)[i] = s[i + 1]
  OBVIOUS
<1>2. ASSUME NEW i \in DOMAIN s, i # 1
      PROVE  i - 1 \in DOMAIN Tail(s) /\ Tail(s)[i - 1] = s[i]
  <2>1. i \in 1..Len(s) /\ i - 1 \in 1..Len(Tail(s)) /\ (i - 1) + 1 = i
    BY <1>1, <1>2
  <2> QED  BY <1>1, <2>1
<1> QED  BY <1>1, <1>2 DEF In

LEMMA ClosedMembers ==
    ASSUME NEW features, NEW frames
    PROVE  Closed(features, frames) <=>
              \A c \in features :
                 \/ Parent[c] \in features \union {NoFeature}
                 \/ \E x : In(x, frames) /\ Pending(x, c)
BY DEF Closed, In

\* One call of setCheckState, made by the user or by the handler whose calls are `frames'.
LEMMA SetCheckStateKeepsTree ==
    ASSUME checked \subseteq Feature, NEW f \in Feature, NEW on \in BOOLEAN,
           NEW frames \in Seq(Frames), SetCheckState(f, on, frames),
           \A c \in checked :
              \/ Parent[c] \in checked \union {NoFeature}
              \/ \E x : In(x, frames) /\ Pending(x, c)
              \/ on /\ Parent[c] = f
              \/ ~ on /\ c = f
    PROVE  TreeInv'
<1>1. CASE (f \in checked) = on
  <2>1. checked' = checked /\ stack' = frames
    BY <1>1 DEF SetCheckState
  <2>2. Closed(checked, frames)
    BY <1>1, ClosedMembers
  <2> QED  BY <2>1, <2>2 DEF TreeInv, Closed, Pending
<1>2. CASE (f \in checked) # on
  <2>1. /\ checked' = IF on THEN checked \union {f} ELSE checked \ {f}
        /\ stack' = <<Frame(f)>> \o frames
    BY <1>2 DEF SetCheckState
  <2>2. Frame(f) \in Frames
    BY DEF Frame, Frames
  <2>3. /\ stack' \in Seq(Frames) /\ In(Frame(f), stack')
        /\ \A y : In(y, frames) => In(y, stack')
    BY <2>1, <2>2, PushMembers
  <2>4. \A c : c = f \/ Parent[c] = f => Pending(Frame(f), c)
    BY DEF Pending, Frame
  <2>5. ASSUME NEW c \in checked'
        PROVE  \/ Parent[c] \in checked' \union {NoFeature}
               \/ \E x : In(x, stack') /\ Pending(x, c)
    <3>1. CASE c = f \/ Parent[c] = f
      BY <2>3, <2>4, <3>1
    <3>2. CASE ~(c = f \/ Parent[c] = f)
      <4>1. c \in checked
        BY <2>1, <3>2
      <4>2. CASE Parent[c] \in checked \union {NoFeature}
        BY <2>1, <3>2, <4>2
      <4>3. CASE \E x : In(x, frames) /\ Pending(x, c)
        BY <2>3, <4>3
      <4> QED  BY <3>2, <4>1, <4>2, <4>3
    <3> QED  BY <3>1, <3>2
  <2>6. checked' \subseteq Feature
    BY <2>1
  <2>7. Closed(checked', stack')
    BY <2>5, ClosedMembers
  <2> QED  BY <2>3, <2>6, <2>7 DEF TreeInv, Closed, Pending
<1> QED  BY <1>1, <1>2

LEMMA ToggleKeepsTree ==
    ASSUME TreeInv, NEW f \in Feature, Toggle(f)
    PROVE  TreeInv'
<1>1. /\ stack = <<>> /\ <<>> \in Seq(Frames)
      /\ SetCheckState(f, f \notin checked, <<>>)
  BY DEF Toggle, Interactive
<1>2. \A c \in checked : Parent[c] \in checked \union {NoFeature}
  BY <1>1 DEF TreeInv, Closed
<1> QED
  BY <1>1, <1>2, SetCheckStateKeepsTree DEF TreeInv

LEMMA HandlerKeepsTree ==
    ASSUME TreeInv, Handler
    PROVE  TreeInv'
<1> DEFINE frame == Head(stack)
<1>1. /\ stack # <<>> /\ stack \in Seq(Frames) /\ checked \subseteq Feature
      /\ frame \in Frames /\ In(frame, stack) /\ Tail(stack) \in Seq(Frames)
      /\ \A y : In(y, stack) => y = frame \/ In(y, Tail(stack))
  <2>1. stack # <<>> /\ stack \in Seq(Frames) /\ checked \subseteq Feature
    BY DEF Handler, EnterHandler, HandlerChanges, LeaveHandler, TreeInv
  <2> QED  BY <2>1, TailMembers
<1>2. ASSUME NEW c \in checked
      PROVE  \/ Parent[c] \in checked \union {NoFeature}
             \/ \E x : In(x, Tail(stack)) /\ Pending(x, c)
             \/ Pending(frame, c)
  BY <1>1, ClosedMembers DEF TreeInv
\* The rest of the calls with a frame on top that does what is left for `frame'.
<1>3. ASSUME NEW top \in Frames, UNCHANGED checked, stack' = <<top>> \o Tail(stack),
             \A c \in checked : Parent[c] # NoFeature /\ Parent[c] \notin checked /\ Pending(frame, c)
                                  => Pending(top, c)
      PROVE  TreeInv'
  <2>1. /\ stack' \in Seq(Frames) /\ In(top, stack')
        /\ \A y : In(y, Tail(stack)) => In(y, stack')
    BY <1>1, <1>3, PushMembers
  <2>2. Closed(checked, stack')
    <3>1. ASSUME NEW c \in checked
          PROVE  \/ Parent[c] \in checked \union {NoFeature}
                 \/ \E x : In(x, stack') /\ Pending(x, c)
      BY <1>2, <1>3, <2>1
    <3> QED  BY <3>1, ClosedMembers
  <2> QED  BY <1>1, <1>3, <2>1, <2>2 DEF TreeInv, Closed, Pending
<1>4. CASE EnterHandler
  <2> DEFINE f == frame.item
             top == [item |-> f, entered |-> TRUE, on |-> f \in checked, todo |-> AlsoChanges(f)]
  <2>1. ~ frame.entered /\ UNCHANGED checked /\ stack' = <<top>> \o Tail(stack)
    BY <1>4 DEF EnterHandler
  <2>2. f \in Feature /\ AlsoChanges(f) \subseteq Feature
    BY <1>1, SetupAssumption DEF Frames, AlsoChanges, Children
  <2>3. top \in Frames
    BY <2>2 DEF Frames
  <2>4. ASSUME NEW c \in checked, Parent[c] # NoFeature, Parent[c] \notin checked, Pending(frame, c)
        PROVE  Pending(top, c)
    <3>1. CASE f = c
      BY <2>4, <3>1 DEF Pending, AlsoChanges
    <3>2. CASE f = Parent[c]
      <4>1. c \in Children(f) /\ f \notin checked
        BY <1>1, <2>4, <3>2 DEF Children
      <4> QED  BY <3>2, <4>1 DEF Pending, AlsoChanges
    <3> QED  BY <2>4, <3>1, <3>2 DEF Pending
  <2> QED  BY <1>3, <2>1, <2>3, <2>4
<1>5. CASE HandlerChanges
  <2>1. PICK f \in frame.todo :
           SetCheckState(f, frame.on, <<[frame EXCEPT !.todo = @ \ {f}]>> \o Tail(stack))
    BY <1>5 DEF HandlerChanges
  <2>2. frame.entered /\ frame.on \in BOOLEAN /\ f \in Feature
    BY <1>1, <1>5, <2>1 DEF HandlerChanges, Frames
  <2> DEFINE top == [frame EXCEPT !.todo = @ \ {f}]
             frames == <<top>> \o Tail(stack)
  <2>3. /\ top \in Frames /\ top.item = frame.item /\ top.entered = frame.entered
        /\ top.on = frame.on /\ top.todo = frame.todo \ {f}
    BY <1>1 DEF Frames
  <2>4. /\ frames \in Seq(Frames) /\ In(top, frames)
        /\ \A y : In(y, Tail(stack)) => In(y, frames)
    BY <1>1, <2>3, PushMembers
  <2>5. ASSUME NEW c \in checked
        PROVE  \/ Parent[c] \in checked \union {NoFeature}
               \/ \E x : In(x, frames) /\ Pending(x, c)
               \/ frame.on /\ Parent[c] = f
               \/ ~ frame.on /\ c = f
    <3>1. CASE Pending(frame, c)
      <4>1. Pending(top, c) \/ (frame.on /\ Parent[c] = f) \/ (~ frame.on /\ c = f)
        BY <2>2, <2>3, <3>1 DEF Pending
      <4> QED  BY <2>4, <4>1
    <3> QED  BY <1>2, <2>4, <3>1
  <2>6. SetCheckState(f, frame.on, frames)
    BY <2>1
  <2> HIDE DEF frames
  <2> QED  BY <1>1, <2>2, <2>4, <2>5, <2>6, SetCheckStateKeepsTree
<1>6. CASE LeaveHandler
  <2>1. /\ frame.entered /\ frame.todo = {}
        /\ UNCHANGED checked /\ stack' = Tail(stack)
    BY <1>6 DEF LeaveHandler
  <2>2. \A c : ~ Pending(frame, c)
    BY <2>1 DEF Pending
  <2>3. Closed(checked, Tail(stack))
    BY <1>2, <2>2, ClosedMembers
  <2> QED  BY <1>1, <2>1, <2>3 DEF TreeInv, Closed, Pending
<1> QED
  BY <1>4, <1>5, <1>6 DEF Handler

LEMMA DialogInitially ==
    SetupInit => DialogInv
<1> SUFFICES ASSUME SetupInit PROVE DialogInv
  OBVIOUS
<1>1. stack = <<>> /\ checked = {} /\ <<>> \in Seq(Frames)
  BY DEF SetupInit
<1>2. TreeInv
  BY <1>1 DEF TreeInv, Closed
<1>3. SelectionInv
  BY <1>1 DEF SetupInit, SelectionInv
<1>4. OutcomeInv
  BY DEF SetupInit, Init, OutcomeInv
<1> QED  BY <1>2, <1>3, <1>4 DEF DialogInv

\* The tree changes by a click, by the handler, and with the process.
LEMMA TreeElsewhere ==
    ASSUME [SetupNext]_setupVars
    PROVE  \/ \E f \in Feature : Toggle(f)
           \/ Handler
           \/ StartAgain
           \/ UNCHANGED <<checked, stack, required>>
<1>1. CASE Opener
  BY <1>1 DEF Opener, OpenSourceRepository, EmitRepositoryOpened, treeVars
<1>2. CASE Worker
  BY <1>2
  DEF Worker, TryOpen, OpenToCreate, GetSelectedFeatures, ExecuteAction, CloseTarget,
      EmitInstallationFinished, treeVars
<1>3. CASE Gui
  BY <1>3
  DEF Gui, CreateContext, ShowSplash, OnRepositoryOpened, FillTree, InstallationFinished, Quit,
      DestroyDialog, DestroySplash, CloseSource, DestroyContext, treeVars
<1>4. CASE User
  BY <1>4
  DEF User, EditDirectory, StartInstallation, CloseSplash, CloseOpenFailed, CloseDialog, treeVars
<1>5. CASE CrashInstalling \/ UNCHANGED setupVars
  BY <1>5 DEF CrashInstalling, setupVars, treeVars
<1> QED
  BY <1>1, <1>2, <1>3, <1>4, <1>5 DEF SetupNext

LEMMA TreeStep ==
    TreeInv /\ [SetupNext]_setupVars => TreeInv'
<1> SUFFICES ASSUME TreeInv, [SetupNext]_setupVars PROVE TreeInv'
  OBVIOUS
<1>1. CASE StartAgain
  <2>1. stack' = <<>> /\ checked' = {} /\ <<>> \in Seq(Frames)
    BY <1>1 DEF StartAgain
  <2> QED  BY <2>1 DEF TreeInv, Closed
<1>2. CASE UNCHANGED <<checked, stack, required>>
  BY <1>2 DEF TreeInv, Closed, Pending
<1> QED
  BY <1>1, <1>2, TreeElsewhere, ToggleKeepsTree, HandlerKeepsTree

LEMMA SetCheckStateBusy ==
    ASSUME NEW f \in Feature, NEW on \in BOOLEAN, NEW frames \in Seq(Frames),
           SetCheckState(f, on, frames), frames # <<>> \/ on = (f \notin checked)
    PROVE  stack' # <<>>
<1>1. Frame(f) \in Frames
  BY DEF Frame, Frames
<1>2. In(Frame(f), <<Frame(f)>> \o frames)
  BY <1>1, PushMembers
<1>3. <<Frame(f)>> \o frames # <<>>
  BY <1>2 DEF In
<1> QED
  BY <1>3 DEF SetCheckState

LEMMA SelectionStep ==
    SetupInv /\ TreeInv /\ SelectionInv /\ [SetupNext]_setupVars => SelectionInv'
<1> SUFFICES ASSUME SetupInv, TreeInv, SelectionInv, [SetupNext]_setupVars PROVE SelectionInv'
  OBVIOUS
<1>1. ASSUME UNCHANGED <<checked, stack, button, locked>>,
             \/ UNCHANGED <<worker, target, desired>>
             \/ worker' \notin {"execute", "close", "report", "ended"}
             \/ target' = NoHandle
             \/ desired' = checked
             \/ /\ worker \in {"execute", "close", "report", "ended"}
                /\ UNCHANGED <<target, desired>>
      PROVE  SelectionInv'
  BY <1>1 DEF SelectionInv
<1>2. CASE Opener
  BY <1>1, <1>2 DEF Opener, OpenSourceRepository, EmitRepositoryOpened, treeVars
<1>3. CASE Worker
  <2>1. CASE TryOpen \/ OpenToCreate
    <3>1. worker' = "select" \/ worker' = "create" \/ target' = NoHandle
      BY <2>1 DEF TryOpen, OpenToCreate, WorkerOpens
    <3>2. UNCHANGED <<checked, stack, button, locked>>
      BY <2>1 DEF TryOpen, OpenToCreate, treeVars
    <3> QED  BY <1>1, <3>1, <3>2
  <2>2. CASE GetSelectedFeatures
    BY <1>1, <2>2 DEF GetSelectedFeatures, treeVars
  <2>3. CASE ExecuteAction \/ CloseTarget \/ EmitInstallationFinished
    BY <1>1, <2>3 DEF ExecuteAction, CloseTarget, EmitInstallationFinished, treeVars
  <2> QED  BY <1>3, <2>1, <2>2, <2>3 DEF Worker
\* The user at the tree and the handler: no thread installs.
<1>4. ASSUME worker = "none", ~ locked, UNCHANGED <<worker, locked>>,
             stack' # <<>> \/ (button' => checked' # {})
      PROVE  SelectionInv'
  BY <1>4 DEF SelectionInv
<1>5. ~ locked => worker = "none"
  BY DEF SetupInv, WorkerInv
<1>6. CASE Handler
  <2>1. stack # <<>> /\ ~ locked /\ UNCHANGED <<worker, locked>>
    BY <1>6 DEF Handler, EnterHandler, HandlerChanges, LeaveHandler, SelectionInv, threadVars
  <2>2. Tail(stack) \in Seq(Frames) /\ Head(stack) \in Frames
    BY <2>1, TailMembers DEF TreeInv
  <2>3. CASE EnterHandler
    <3>1. PICK top \in Frames : stack' = <<top>> \o Tail(stack)
      <4>1. Head(stack).item \in Feature /\ AlsoChanges(Head(stack).item) \subseteq Feature
        BY <2>2, SetupAssumption DEF Frames, AlsoChanges, Children, TreeInv
      <4>2. [item |-> Head(stack).item, entered |-> TRUE, on |-> Head(stack).item \in checked,
             todo |-> AlsoChanges(Head(stack).item)] \in Frames
        BY <4>1 DEF Frames
      <4> QED  BY <2>3, <4>2 DEF EnterHandler
    <3>2. In(top, stack')
      BY <2>2, <3>1, PushMembers
    <3> QED  BY <1>4, <1>5, <2>1, <3>2 DEF In
  <2>4. CASE HandlerChanges
    <3>1. PICK f \in Head(stack).todo :
             SetCheckState(f, Head(stack).on, <<[Head(stack) EXCEPT !.todo = @ \ {f}]>> \o Tail(stack))
      BY <2>4 DEF HandlerChanges
    <3>2. /\ f \in Feature /\ Head(stack).on \in BOOLEAN
          /\ [Head(stack) EXCEPT !.todo = @ \ {f}] \in Frames
      BY <2>2, <3>1 DEF Frames
    <3>3. PICK top \in Frames : top = [Head(stack) EXCEPT !.todo = @ \ {f}]
      BY <3>2
    <3>4. <<top>> \o Tail(stack) \in Seq(Frames) /\ In(top, <<top>> \o Tail(stack))
      BY <2>2, PushMembers
    <3>5. SetCheckState(f, Head(stack).on, <<top>> \o Tail(stack))
      BY <3>1, <3>3
    <3>6. <<top>> \o Tail(stack) # <<>>
      BY <3>4 DEF In
    <3>7. stack' # <<>>
      BY <3>2, <3>4, <3>5, <3>6, SetCheckStateBusy
    <3> QED  BY <1>4, <1>5, <2>1, <3>7
  <2>5. CASE LeaveHandler
    BY <1>4, <1>5, <2>1, <2>5 DEF LeaveHandler, UpdateInstallButtonState
  <2> QED  BY <1>6, <2>3, <2>4, <2>5 DEF Handler
<1>7. CASE Gui /\ ~ Handler
  BY <1>1, <1>7
  DEF Gui, CreateContext, ShowSplash, OnRepositoryOpened, FillTree, InstallationFinished, Quit,
      DestroyDialog, DestroySplash, CloseSource, DestroyContext, treeVars, SelectionInv
<1>8. CASE User
  <2>1. CASE \E f \in Feature : Toggle(f)
    <3>1. PICK f \in Feature : Toggle(f)
      BY <2>1
    <3>2. SetCheckState(f, f \notin checked, <<>>) /\ <<>> \in Seq(Frames)
      BY <3>1 DEF Toggle
    <3>3. stack' # <<>>
      BY <3>2, SetCheckStateBusy
    <3> QED  BY <1>4, <1>5, <3>1, <3>3 DEF Toggle, threadVars
  <2>2. CASE \E path \in Path \union {NoPath} : EditDirectory(path)
    BY <1>4, <1>5, <2>2 DEF EditDirectory, UpdateInstallButtonState, threadVars
  <2>3. CASE StartInstallation
    BY <2>3 DEF StartInstallation, Interactive, SelectionInv
  <2>4. CASE CloseSplash \/ CloseOpenFailed \/ CloseDialog
    BY <1>1, <2>4 DEF CloseSplash, CloseOpenFailed, CloseDialog, treeVars
  <2> QED  BY <1>8, <2>1, <2>2, <2>3, <2>4 DEF User
<1>9. CASE StartAgain
  BY <1>9 DEF StartAgain, SelectionInv
<1>10. CASE CrashInstalling \/ UNCHANGED setupVars
  BY <1>1, <1>10 DEF CrashInstalling, setupVars, threadVars, treeVars
<1> QED
  BY <1>2, <1>3, <1>6, <1>7, <1>8, <1>9, <1>10 DEF SetupNext

LEMMA ExecuteOutcome ==
    ASSUME OutcomeInv, NEW a \in {"configure", "install"}, NEW t \in Handle, NEW s, NEW d,
           handle[t].path \in Path, Execute(a, t, s, d)
    PROVE  /\ disk' = [p \in Path |-> disk'[p]]
           /\ last'.result = "Ok" => disk'[handle[t].path] = "clean"
<1>1. CASE last'.result # "Ok" /\ (UNCHANGED disk \/ \E v : disk' = [disk EXCEPT ![handle[t].path] = v])
  BY <1>1 DEF OutcomeInv
<1>2. CASE disk' = [disk EXCEPT ![handle[t].path] = "clean"]
  BY <1>2 DEF OutcomeInv
<1>3. CASE Reject
  BY <1>1, <1>3 DEF Reject, Return, Executed, Keep
<1>4. ASSUME NEW call, Fail(call, t)
      PROVE  last'.result # "Ok" /\ UNCHANGED disk
  BY <1>4 DEF Fail, Executed, Keep
<1>4a. ASSUME NEW call, DiesConfiguring(call, t)
       PROVE  /\ last'.result # "Ok"
              /\ \E v : disk' = [disk EXCEPT ![handle[t].path] = v]
  BY <1>4a DEF DiesConfiguring, Faults, Executed
<1>5. CASE Install(t, s)
  <2>1. \/ Fail("install", t)
        \/ /\ \E v : disk' = [disk EXCEPT ![handle[t].path] = v]
           /\ Executed("install", t, "Error")
        \/ DiesConfiguring("install", t)
        \/ disk' = [disk EXCEPT ![handle[t].path] = "clean"]
    BY <1>5 DEF Install
  <2>2. Executed("install", t, "Error") => last'.result # "Ok"
    BY DEF Executed
  <2> QED
    BY <1>1, <1>2, <1>4, <1>4a, <2>1, <2>2
<1>6. CASE Configure(t, s)
  <2>1. ASSUME Faults("configure", t, "null"), disk' = disk PROVE last'.result # "Ok" /\ UNCHANGED disk
    BY <2>1 DEF Faults, Executed
  <2> QED
    BY <1>1, <1>2, <1>4, <1>4a, <1>6, <2>1 DEF Configure, Executed
<1> QED
  BY <1>3, <1>5, <1>6 DEF Execute

\* Nothing but the InstallThread, a crash and a new process changes what the invariant is about.
LEMMA OutcomeElsewhere ==
    ASSUME SetupInv, OutcomeInv, gui' = "report" => worker = "ended",
           UNCHANGED <<disk, worker, target, outcome, directory>>,
           UNCHANGED handle \/ ~ InstallRunning
    PROVE  OutcomeInv'
BY DEF OutcomeInv, InstallRunning

LEMMA OutcomeStep ==
    SetupInv /\ OutcomeInv /\ [SetupNext]_setupVars => OutcomeInv'
<1> SUFFICES ASSUME SetupInv, OutcomeInv, [SetupNext]_setupVars PROVE OutcomeInv'
  OBVIOUS
<1> USE SetupAssumption, ApiAssumption
<1>1. gui = "report" => worker = "ended"
  BY DEF OutcomeInv
<1>2. CASE Opener
  <2>1. CASE OpenSourceRepository
    <3>1. UNCHANGED disk
      BY <2>1 DEF OpenSourceRepository, OpenSource, Reject, Keep
    <3>2. ~ InstallRunning
      BY <2>1 DEF OpenSourceRepository, SetupInv, OpenerInv, WorkerInv
    <3> QED
      BY <1>1, <2>1, <3>1, <3>2, OutcomeElsewhere DEF OpenSourceRepository, treeVars
  <2>2. CASE EmitRepositoryOpened
    BY <1>1, <2>2, OutcomeElsewhere DEF EmitRepositoryOpened, vars, treeVars
  <2> QED  BY <1>2, <2>1, <2>2 DEF Opener
<1>3. CASE Worker
  <2>1. /\ worker # "none" /\ worker # "ended" /\ directory \in Path
        /\ gui # "report" /\ gui' # "report" /\ UNCHANGED directory
    <3>1. InstallRunning /\ UNCHANGED <<gui, directory>>
      BY <1>3
      DEF Worker, TryOpen, OpenToCreate, GetSelectedFeatures, ExecuteAction, CloseTarget,
          EmitInstallationFinished, InstallRunning, treeVars
    <3> QED  BY <1>1, <3>1 DEF SetupInv, WorkerInv, InstallRunning
  <2>2. ASSUME NEW options, NEW then \in {"create", "report"}, WorkerOpens(options, then),
               then = "report" => outcome' = "Error"
        PROVE  OutcomeInv'
    <3>1. PICK h \in Handle : /\ OpenTarget(h, directory, options)
                              /\ target' = IF last'.result = "Ok" THEN h ELSE NoHandle
                              /\ worker' = IF last'.result = "Ok" THEN "select" ELSE then
      BY <2>2 DEF WorkerOpens
    <3>2. UNCHANGED disk
      BY <3>1 DEF OpenTarget, Keep
    <3>3. CASE last'.result = "Ok"
      <4>1. PICK p : Allocate(h, "target", directory, p)
        BY <3>1, <3>3 DEF OpenTarget, Return, Executed
      <4>2. handle'[h].path = directory
        BY <4>1 DEF Allocate, SetupInv, ObjectsInv
      <4> QED  BY <2>1, <3>1, <3>2, <3>3, <4>2 DEF OutcomeInv
    <3>4. CASE last'.result # "Ok"
      BY <2>1, <2>2, <3>1, <3>2, <3>4 DEF OutcomeInv
    <3> QED  BY <3>3, <3>4
  <2>3. CASE TryOpen
    BY <2>2, <2>3 DEF TryOpen
  <2>4. CASE OpenToCreate
    BY <2>2, <2>4 DEF OpenToCreate
  <2>5. CASE GetSelectedFeatures
    BY <2>1, <2>5 DEF GetSelectedFeatures, OutcomeInv, vars
  <2>6. CASE ExecuteAction
    <3>1. /\ target \in Handle /\ handle[target].path = directory
          /\ action \in {"configure", "install"}
      BY <2>6 DEF ExecuteAction, SetupInv, ObjectsInv, ControlTypeOK, OutcomeInv
    <3>2. /\ disk' = [p \in Path |-> disk'[p]]
          /\ last'.result = "Ok" => disk'[directory] = "clean"
      BY <2>1, <2>6, <3>1, ExecuteOutcome DEF ExecuteAction
    <3>3. worker' = "close" /\ outcome' = last'.result /\ target' = target
      BY <2>6 DEF ExecuteAction
    <3> QED  BY <2>1, <3>1, <3>2, <3>3 DEF OutcomeInv
  <2>7. CASE CloseTarget
    <3>1. UNCHANGED disk
      BY <2>7 DEF CloseTarget, CloseRepository, Reject, Keep
    <3> QED  BY <2>1, <2>7, <3>1 DEF CloseTarget, OutcomeInv
  <2>8. CASE EmitInstallationFinished
    BY <2>1, <2>8 DEF EmitInstallationFinished, OutcomeInv, vars
  <2> QED
    BY <1>3, <2>3, <2>4, <2>5, <2>6, <2>7, <2>8 DEF Worker
<1>4. CASE Gui
  <2>1. UNCHANGED <<disk, worker, target, outcome, directory>>
    BY <1>4
    DEF Gui, CreateContext, CreateInstaller, Return, Executed, Keep, ShowSplash, OnRepositoryOpened,
        FillTree, GetProperty, Reject, InstallationFinished, Quit, DestroyDialog, DestroySplash,
        CloseSource, CloseRepository, DestroyContext, DestroyInstaller, Handler, EnterHandler,
        HandlerChanges, LeaveHandler, vars, threadVars, treeVars
  <2>2. UNCHANGED handle \/ ~ InstallRunning
    <3>1. CASE CloseSource
      BY <3>1 DEF CloseSource, SetupInv, WorkerInv
    <3> QED
      BY <1>4, <3>1
      DEF Gui, CreateContext, CreateInstaller, Keep, ShowSplash, OnRepositoryOpened,
          FillTree, GetProperty, Reject, InstallationFinished, Quit, DestroyDialog, DestroySplash,
          DestroyContext, DestroyInstaller, Handler, EnterHandler,
          HandlerChanges, LeaveHandler, vars
  <2>3. gui' = "report" => worker = "ended"
    <3>1. CASE InstallationFinished
      <4>1. Posted("finished")
        BY <3>1, Taking DEF InstallationFinished, SetupInv, ControlTypeOK
      <4> QED  BY <4>1 DEF SetupInv, WorkerInv
    <3>2. CASE Handler
      BY <1>1, <3>2 DEF Handler, EnterHandler, HandlerChanges, LeaveHandler, threadVars
    <3> QED
      BY <1>4, <3>1, <3>2
      DEF Gui, CreateContext, ShowSplash, OnRepositoryOpened, FillTree, Quit, DestroyDialog,
          DestroySplash, CloseSource, DestroyContext, GuiGoes
  <2> QED  BY <2>1, <2>2, <2>3, OutcomeElsewhere
<1>5. CASE User
  <2>1. CASE StartInstallation
    BY <1>1, <2>1 DEF StartInstallation, Interactive, OutcomeInv, vars
  <2>2. CASE \E path \in Path \union {NoPath} : EditDirectory(path)
    <3>1. worker = "none" /\ UNCHANGED <<vars, gui, worker>>
      BY <2>2 DEF EditDirectory, SetupInv, WorkerInv, threadVars
    <3> QED  BY <3>1 DEF OutcomeInv, vars
  <2>3. CASE \E f \in Feature : Toggle(f)
    BY <1>1, <2>3, OutcomeElsewhere DEF Toggle, vars, threadVars
  <2>4. CASE CloseSplash \/ CloseOpenFailed \/ CloseDialog
    BY <2>4, OutcomeElsewhere DEF CloseSplash, CloseOpenFailed, CloseDialog, GuiGoes, vars, treeVars
  <2> QED  BY <1>5, <2>1, <2>2, <2>3, <2>4 DEF User
<1>6. CASE CrashInstalling
  <2>1. worker = "execute" /\ UNCHANGED <<gui, worker, target, directory, handle>>
    BY <1>6 DEF CrashInstalling, Crash, threadVars, treeVars
  <2>2. PICK v : disk' = [disk EXCEPT ![handle[target].path] = v]
    BY <1>6 DEF CrashInstalling, Crash
  <2>3. disk' = [p \in Path |-> disk'[p]]
    BY <2>2 DEF OutcomeInv
  <2> QED  BY <2>1, <2>3 DEF OutcomeInv
<1>7. CASE StartAgain
  BY <1>7 DEF StartAgain, Restart, OutcomeInv
<1>8. CASE UNCHANGED setupVars
  BY <1>1, <1>8, OutcomeElsewhere DEF setupVars, vars, threadVars, treeVars
<1> QED
  BY <1>2, <1>3, <1>4, <1>5, <1>6, <1>7, <1>8 DEF SetupNext

LEMMA DialogInvariant ==
    SetupSpec => []DialogInv
<1>1. SetupInv /\ DialogInv /\ [SetupNext]_setupVars => DialogInv'
  BY TreeStep, SelectionStep, OutcomeStep DEF DialogInv
<1> QED
  BY <1>1, DialogInitially, SetupInvariant, PTL DEF SetupSpec

(***************************************************************************)
(* What is installed is what was checked when the button was pressed: it   *)
(* is not empty, and every feature comes with its parent, for every tree   *)
(* of features and every order of clicks (SetupDialog.cpp:226-247,         *)
(* :401-417, :493-504).                                                    *)
(***************************************************************************)
THEOREM SelectionCorrect == SetupSpec => []InstallsWhatIsChecked
<1>1. SetupInv /\ DialogInv => InstallsWhatIsChecked
  <2> SUFFICES ASSUME SetupInv, DialogInv,
                      worker \in {"execute", "close", "report", "ended"}, target # NoHandle
               PROVE  /\ desired = checked /\ desired # {}
                      /\ \A f \in desired : Parent[f] \in desired \union {NoFeature}
    BY DEF InstallsWhatIsChecked
  <2>1. locked /\ stack = <<>>
    BY DEF SetupInv, WorkerInv
  <2>2. desired = checked /\ checked # {}
    BY <2>1 DEF DialogInv, SelectionInv
  <2>3. \A f \in checked : Parent[f] \in checked \union {NoFeature}
    BY <2>1 DEF DialogInv, TreeInv, Closed
  <2> QED  BY <2>2, <2>3
<1> QED
  BY <1>1, SetupInvariant, DialogInvariant, PTL

(***************************************************************************)
(* A message box that tells of success stands for a Configure of the       *)
(* directory that is shown, for the features that are shown as checked,    *)
(* which ended by itself and was the last (SetupDialog.cpp:114-120,        *)
(* :468-481).                                                              *)
(***************************************************************************)
THEOREM ReportCorrect == SetupSpec => []ReportIsTrue
<1>1. ASSUME DialogInv, gui = "report", outcome = "Ok"
      PROVE  disk[directory] = "clean" /\ desired = checked
  <2>1. worker = "ended" /\ disk[directory] = "clean" /\ target \in Handle
    BY <1>1 DEF DialogInv, OutcomeInv
  <2>2. target # NoHandle
    BY <2>1, ApiAssumption
  <2> QED  BY <1>1, <2>1, <2>2 DEF DialogInv, SelectionInv
<1>2. DialogInv => ReportIsTrue
  BY <1>1 DEF ReportIsTrue
<1> QED
  BY <1>2, DialogInvariant, PTL

-----------------------------------------------------------------------------
(* The size of a set of features: a fold over the set, where the order in  *)
(* which it takes the features does not matter.  A smallest counterexample *)
(* takes the place of induction.                                           *)

SizesOf(S) == FoldFunctionOnSet(+, 0, Size, S)

Some(s) == CHOOSE x \in s : TRUE

\* The recursion of the fold, on the subsets of S,
Adds(f, S) ==
    f = [s \in SUBSET S |-> IF s = {} THEN 0 ELSE Size[Some(s)] + f[s \ {Some(s)}]]

\* and on those with at most n elements.
AddsUpTo(f, S, n) ==
    f = [s \in {t \in SUBSET S : Cardinality(t) <= n} |->
            IF s = {} THEN 0 ELSE Size[Some(s)] + f[s \ {Some(s)}]]

LEMMA SizesAre ==
    ASSUME NEW S
    PROVE  SizesOf(S) = (CHOOSE f : Adds(f, S))[S]
BY DEF SizesOf, FoldFunctionOnSet, MapThenFoldSet, Adds, Some

\* A set of numbers has a smallest one.
LEMMA SmallestExists ==
    ASSUME NEW T, T \subseteq Nat, T # {}
    PROVE  \E n \in T : \A m \in T : n <= m
<1> DEFINE R == OpToRel(<, Nat)
<1>1. \E n \in T : \A m \in T : ~ (<<m, n>> \in R)
  <2> HIDE DEF R
  <2>1. IsWellFoundedOn(R, Nat)
    BY NatLessThanWellFounded DEF R
  <2> QED
    BY <2>1, WFMin
<1>2. PICK n \in T : \A m \in T : ~ (<<m, n>> \in R)
  BY <1>1
<1>3. ASSUME NEW m \in T PROVE n <= m
  <2>1. m \in Nat /\ n \in Nat
    OBVIOUS
  <2>2. m < n => <<m, n>> \in R
    BY <2>1 DEF OpToRel
  <2> HIDE DEF R
  <2> QED
    BY <1>2, <2>1, <2>2
<1> QED
  BY <1>3

LEMMA Without ==
    ASSUME NEW s, IsFiniteSet(s), s # {}
    PROVE  /\ Some(s) \in s
           /\ \A x \in s : /\ IsFiniteSet(s \ {x})
                           /\ Cardinality(s) \in Nat /\ Cardinality(s) # 0
                           /\ Cardinality(s \ {x}) = Cardinality(s) - 1
                           /\ Cardinality(s \ {x}) \in Nat
<1>1. Some(s) \in s
  BY DEF Some
<1>2. ASSUME NEW x \in s
      PROVE  /\ IsFiniteSet(s \ {x}) /\ Cardinality(s \ {x}) = Cardinality(s) - 1
             /\ Cardinality(s) \in Nat /\ Cardinality(s) # 0
             /\ Cardinality(s \ {x}) \in Nat
  <2>1. IsFiniteSet(s \ {x}) /\ Cardinality(s \ {x}) = Cardinality(s) - 1
    BY FS_RemoveElement
  <2>2. Cardinality(s) \in Nat /\ Cardinality(s \ {x}) \in Nat
    BY <2>1, FS_CardinalityType
  <2>3. Cardinality(s) # 0
    BY FS_EmptySet
  <2> QED  BY <2>1, <2>2, <2>3
<1> QED  BY <1>1, <1>2

LEMMA AddsUpToExist ==
    ASSUME NEW S, IsFiniteSet(S), NEW n \in Nat
    PROVE  \E f : AddsUpTo(f, S, n)
<1> DEFINE T == {m \in Nat : ~ \E f : AddsUpTo(f, S, m)}
<1>1. SUFFICES ASSUME T # {} PROVE FALSE
  OBVIOUS
<1>2. PICK m \in T : \A k \in T : m <= k
  <2> HIDE DEF T
  <2>1. T \subseteq Nat
    BY DEF T
  <2> QED  BY <1>1, <2>1, SmallestExists
<1>3. m \in Nat /\ ~ \E f : AddsUpTo(f, S, m)
  OBVIOUS
<1>4. ASSUME NEW s \in SUBSET S
      PROVE  IsFiniteSet(s) /\ Cardinality(s) \in Nat /\ (Cardinality(s) = 0 => s = {})
  BY FS_Subset, FS_CardinalityType, FS_EmptySet
<1>5. CASE m = 0
  <2> DEFINE D == {t \in SUBSET S : Cardinality(t) <= 0}
             f == [s \in D |-> 0]
  <2>1. \A s \in D : s = {}
    BY <1>4
  <2>2. f = [s \in D |-> IF s = {} THEN 0 ELSE Size[Some(s)] + f[s \ {Some(s)}]]
    BY <2>1
  <2>3. AddsUpTo(f, S, 0)
    BY <2>2 DEF AddsUpTo
  <2> QED  BY <1>3, <1>5, <2>3
<1>6. CASE m # 0
  <2>1. m - 1 \in Nat /\ ~ (m <= m - 1)
    BY <1>3, <1>6
  <2>2. PICK f : AddsUpTo(f, S, m - 1)
    BY <1>2, <2>1
  <2> DEFINE D == {t \in SUBSET S : Cardinality(t) <= m}
             E == {t \in SUBSET S : Cardinality(t) <= m - 1}
             g == [s \in D |-> IF s = {} THEN 0 ELSE Size[Some(s)] + f[s \ {Some(s)}]]
  <2>3. ASSUME NEW s \in E PROVE g[s] = f[s]
    <3>1. s \in D
      BY <1>3, <1>4
    <3>2. f[s] = IF s = {} THEN 0 ELSE Size[Some(s)] + f[s \ {Some(s)}]
      BY <2>2 DEF AddsUpTo
    <3> QED  BY <3>1, <3>2
  <2>4. ASSUME NEW s \in D, s # {} PROVE s \ {Some(s)} \in E
    <3>1. IsFiniteSet(s) /\ Cardinality(s) \in Nat /\ Cardinality(s) <= m /\ s \in SUBSET S
      BY <1>4
    <3>2. Cardinality(s \ {Some(s)}) = Cardinality(s) - 1
      BY <2>4, <3>1, Without
    <3> QED  BY <1>3, <3>1, <3>2
  <2> HIDE DEF E, g
  <2>5. g = [s \in D |-> IF s = {} THEN 0 ELSE Size[Some(s)] + g[s \ {Some(s)}]]
    BY <2>3, <2>4 DEF g
  <2>6. AddsUpTo(g, S, m)
    BY <2>5 DEF AddsUpTo
  <2> QED  BY <1>3, <2>6
<1> QED  BY <1>5, <1>6

LEMMA AddsExist ==
    ASSUME NEW S, IsFiniteSet(S)
    PROVE  \E f : Adds(f, S)
<1>1. Cardinality(S) \in Nat
  BY FS_CardinalityType
<1>2. PICK f : AddsUpTo(f, S, Cardinality(S))
  BY <1>1, AddsUpToExist
<1>3. {t \in SUBSET S : Cardinality(t) <= Cardinality(S)} = SUBSET S
  BY FS_Subset
<1>4. Adds(f, S)
  BY <1>2, <1>3 DEF Adds, AddsUpTo
<1> QED  BY <1>4

LEMMA AddsAgree ==
    ASSUME NEW S, NEW R, NEW f, NEW g, Adds(f, S), Adds(g, R),
           NEW u, u \subseteq S, u \subseteq R, IsFiniteSet(u)
    PROVE  f[u] = g[u]
<1> DEFINE U == {s \in SUBSET u : f[s] # g[s]}
           T == {Cardinality(s) : s \in U}
<1>1. SUFFICES ASSUME U # {} PROVE FALSE
  OBVIOUS
<1>2. ASSUME NEW s \in SUBSET u PROVE IsFiniteSet(s) /\ Cardinality(s) \in Nat
  BY FS_Subset, FS_CardinalityType
<1>3. PICK n \in T : \A m \in T : n <= m
  <2>1. T \subseteq Nat /\ T # {}
    BY <1>1, <1>2
  <2> HIDE DEF T
  <2> QED  BY <2>1, SmallestExists
<1>4. PICK s \in U : n = Cardinality(s)
  OBVIOUS
<1>5. s \in SUBSET u /\ s \in SUBSET S /\ s \in SUBSET R /\ f[s] # g[s]
  OBVIOUS
<1>6. /\ f[s] = IF s = {} THEN 0 ELSE Size[Some(s)] + f[s \ {Some(s)}]
      /\ g[s] = IF s = {} THEN 0 ELSE Size[Some(s)] + g[s \ {Some(s)}]
  BY <1>5 DEF Adds
<1>7. s # {}
  BY <1>5, <1>6
<1>8. s \ {Some(s)} \in SUBSET u /\ s \ {Some(s)} \notin U
  <2>1. /\ Cardinality(s \ {Some(s)}) = Cardinality(s) - 1 /\ Cardinality(s) \in Nat
        /\ Cardinality(s \ {Some(s)}) \in Nat
    BY <1>2, <1>5, <1>7, Without
  <2>2. ~ (n <= Cardinality(s \ {Some(s)}))
    BY <1>4, <2>1
  <2>3. s \ {Some(s)} \notin U
    BY <1>3, <2>2
  <2> QED  BY <1>5, <2>3
<1>9. f[s \ {Some(s)}] = g[s \ {Some(s)}]
  BY <1>8
<1> QED  BY <1>5, <1>6, <1>9

\* The fold takes some feature, and goes on without it.
LEMMA SizesTake ==
    ASSUME NEW S, IsFiniteSet(S)
    PROVE  SizesOf(S) = IF S = {} THEN 0 ELSE Size[Some(S)] + SizesOf(S \ {Some(S)})
<1> DEFINE R == S \ {Some(S)}
           f == CHOOSE f : Adds(f, S)
           g == CHOOSE g : Adds(g, R)
<1>1. IsFiniteSet(R) /\ R \subseteq S
  BY FS_Subset
<1> HIDE DEF R
<1>2. Adds(f, S) /\ Adds(g, R)
  BY <1>1, AddsExist
<1>3. SizesOf(S) = f[S] /\ SizesOf(R) = g[R]
  BY SizesAre
<1> HIDE DEF f, g
<1>4. f[R] = g[R]
  BY <1>1, <1>2, AddsAgree
<1>5. f[S] = IF S = {} THEN 0 ELSE Size[Some(S)] + f[R]
  <2>1. S \in SUBSET S
    OBVIOUS
  <2> QED  BY <1>2, <2>1 DEF Adds, R
<1> QED  BY <1>3, <1>4, <1>5 DEF R

LEMMA SizesNat ==
    ASSUME NEW S \in SUBSET Feature, IsFiniteSet(S)
    PROVE  SizesOf(S) \in Nat
<1> DEFINE U == {s \in SUBSET S : SizesOf(s) \notin Nat}
           T == {Cardinality(s) : s \in U}
<1>1. SUFFICES ASSUME U # {} PROVE FALSE
  OBVIOUS
<1>2. ASSUME NEW s \in SUBSET S PROVE IsFiniteSet(s) /\ Cardinality(s) \in Nat
  BY FS_Subset, FS_CardinalityType
<1>3. PICK n \in T : \A m \in T : n <= m
  <2>1. T \subseteq Nat /\ T # {}
    BY <1>1, <1>2
  <2> HIDE DEF T
  <2> QED  BY <2>1, SmallestExists
<1>4. PICK s \in U : n = Cardinality(s)
  OBVIOUS
<1>5. s \in SUBSET S /\ SizesOf(s) \notin Nat /\ IsFiniteSet(s)
  BY <1>2
<1>6. SizesOf(s) = IF s = {} THEN 0 ELSE Size[Some(s)] + SizesOf(s \ {Some(s)})
  BY <1>5, SizesTake
<1>7. s # {}
  BY <1>5, <1>6
<1>8. Some(s) \in s /\ s \ {Some(s)} \in SUBSET S /\ s \ {Some(s)} \notin U
  <2>1. /\ Cardinality(s \ {Some(s)}) = Cardinality(s) - 1 /\ Cardinality(s) \in Nat
        /\ Cardinality(s \ {Some(s)}) \in Nat /\ Some(s) \in s
    BY <1>2, <1>5, <1>7, Without
  <2>2. ~ (n <= Cardinality(s \ {Some(s)}))
    BY <1>4, <2>1
  <2>3. s \ {Some(s)} \notin U
    BY <1>3, <2>2
  <2> QED  BY <1>5, <2>1, <2>3
<1>9. SizesOf(s \ {Some(s)}) \in Nat /\ Size[Some(s)] \in Nat
  BY <1>5, <1>8, SetupAssumption
<1> QED  BY <1>5, <1>6, <1>7, <1>9

\* Any feature of the set can be the one that is taken.
LEMMA SizesTakeAny ==
    ASSUME NEW S \in SUBSET Feature, IsFiniteSet(S), NEW f \in S
    PROVE  SizesOf(S) = Size[f] + SizesOf(S \ {f})
<1> DEFINE Bad(s) == \E e \in s : SizesOf(s) # Size[e] + SizesOf(s \ {e})
           U == {s \in SUBSET S : Bad(s)}
           T == {Cardinality(s) : s \in U}
<1>1. SUFFICES ASSUME U # {} PROVE FALSE
  <2>1. S \in SUBSET S
    OBVIOUS
  <2> QED  BY <2>1
<1> HIDE DEF Bad
<1>2. ASSUME NEW s \in SUBSET S PROVE IsFiniteSet(s) /\ Cardinality(s) \in Nat
  BY FS_Subset, FS_CardinalityType
<1>3. PICK n \in T : \A m \in T : n <= m
  <2>1. T \subseteq Nat /\ T # {}
    BY <1>1, <1>2
  <2> HIDE DEF T
  <2> QED  BY <2>1, SmallestExists
<1>4. PICK s \in U : n = Cardinality(s)
  OBVIOUS
<1>5. s \in SUBSET S /\ Bad(s) /\ IsFiniteSet(s)
  BY <1>2
<1>6. PICK e \in s : SizesOf(s) # Size[e] + SizesOf(s \ {e})
  BY <1>5 DEF Bad
<1> DEFINE x == Some(s)
           r == s \ {e}
           p == s \ {x}
           q == s \ {e, x}
<1>7. /\ x \in s /\ \A y \in s : s \ {y} \notin U /\ s \ {y} \in SUBSET S
  <2>1. s # {}
    OBVIOUS
  <2>2. x \in s
    BY <1>5, <2>1, Without
  <2>3. ASSUME NEW y \in s PROVE s \ {y} \notin U /\ s \ {y} \in SUBSET S
    <3>1. Cardinality(s \ {y}) = Cardinality(s) - 1 /\ Cardinality(s) \in Nat
          /\ Cardinality(s \ {y}) \in Nat
      BY <1>5, <2>1, Without
    <3>2. ~ (n <= Cardinality(s \ {y}))
      BY <1>4, <3>1
    <3>3. s \ {y} \notin U
      BY <1>3, <3>2
    <3> QED  BY <1>5, <3>3
  <2> QED  BY <2>2, <2>3
<1>8. SizesOf(s) = Size[x] + SizesOf(p)
  BY <1>5, SizesTake
<1>9. x # e
  BY <1>6, <1>8
<1>10. r \in SUBSET S /\ p \in SUBSET S /\ q \in SUBSET S /\ ~ Bad(r) /\ ~ Bad(p)
  BY <1>5, <1>7
<1>11. x \in r /\ e \in p /\ r \ {x} = q /\ p \ {e} = q
  BY <1>7, <1>9
<1> HIDE DEF x, r, p, q
<1>12. SizesOf(r) = Size[x] + SizesOf(q)
  BY <1>10, <1>11 DEF Bad
<1>13. SizesOf(p) = Size[e] + SizesOf(q)
  BY <1>10, <1>11 DEF Bad
<1>14. Size[x] \in Nat /\ Size[e] \in Nat /\ SizesOf(q) \in Nat
  <2>1. x \in Feature /\ e \in Feature
    BY <1>5, <1>7
  <2>2. IsFiniteSet(q) /\ q \in SUBSET Feature
    BY <1>2, <1>10
  <2> QED  BY <2>1, <2>2, SizesNat, SetupAssumption
<1>15. SizesOf(s) = Size[e] + SizesOf(r)
  BY <1>8, <1>12, <1>13, <1>14
<1> QED  BY <1>6, <1>15 DEF r

-----------------------------------------------------------------------------
(* The space that is shown                                                 *)

\* The call that has just begun has not counted its feature yet; all others have.
Uncounted(frames) ==
    IF frames # <<>> /\ ~ Head(frames).entered THEN SizeChange(Head(frames).item) ELSE 0

SpaceInv ==
    /\ IsFiniteSet(checked)
    /\ required \in Int
    /\ required + Uncounted(stack) = SizesOf(checked)
    /\ \A i \in DOMAIN stack : i # 1 => stack[i].entered

LEMMA PushPlaces ==
    ASSUME NEW S, NEW s \in Seq(S), NEW x \in S, NEW l, l = <<x>> \o s
    PROVE  /\ l # <<>> /\ Head(l) = x
           /\ \A i \in DOMAIN l : i # 1 => i - 1 \in DOMAIN s /\ l[i] = s[i - 1]
<1>0. <<x>> \in Seq(S) /\ Len(<<x>>) = 1 /\ <<x>>[1] = x
  OBVIOUS
<1>1. PICK one \in Seq(S) : one = <<x>> /\ Len(one) = 1 /\ one[1] = x
  BY <1>0, Zenon
<1>2. l = one \o s /\ l \in Seq(S) /\ Len(l) = 1 + Len(s) /\ Len(s) \in Nat
  BY <1>1
<1>3. l # <<>> /\ Head(l) = l[1] /\ l[1] = x
  BY <1>1, <1>2
<1>4. ASSUME NEW i \in DOMAIN l, i # 1
      PROVE  i - 1 \in DOMAIN s /\ l[i] = s[i - 1]
  <2>1. i \in 1..(1 + Len(s)) /\ i - 1 \in 1..Len(s)
    BY <1>2, <1>4
  <2>2. l[i] = s[i - Len(one)]
    BY <1>1, <1>2, <2>1
  <2> QED  BY <1>1, <2>1, <2>2
<1> QED  BY <1>3, <1>4

LEMMA TailPlaces ==
    ASSUME NEW S, NEW s \in Seq(S), s # <<>>
    PROVE  /\ Tail(s) \in Seq(S) /\ Head(s) \in S
           /\ \A i \in DOMAIN Tail(s) : i + 1 \in DOMAIN s /\ i + 1 # 1 /\ Tail(s)[i] = s[i + 1]
OBVIOUS

\* All calls have counted their feature.
LEMMA AllCounted ==
    ASSUME NEW frames \in Seq(Frames), \A i \in DOMAIN frames : frames[i].entered
    PROVE  frames # <<>> => Head(frames).entered
<1> SUFFICES ASSUME frames # <<>> PROVE Head(frames).entered
  OBVIOUS
<1>1. Head(frames) = frames[1] /\ 1 \in DOMAIN frames
  OBVIOUS
<1> QED  BY <1>1

\* One call of setCheckState.
LEMMA SetCheckStateKeepsSpace ==
    ASSUME checked \in SUBSET Feature, IsFiniteSet(checked), required \in Int,
           required = SizesOf(checked), required' = required,
           NEW f \in Feature, NEW on \in BOOLEAN, NEW frames \in Seq(Frames),
           \A i \in DOMAIN frames : frames[i].entered,
           SetCheckState(f, on, frames)
    PROVE  SpaceInv'
<1>1. CASE (f \in checked) = on
  <2>1. checked' = checked /\ stack' = frames
    BY <1>1 DEF SetCheckState
  <2>2. Uncounted(stack)' = 0
    BY <2>1, AllCounted DEF Uncounted
  <2>3. SizesOf(checked)' = SizesOf(checked)
    BY <2>1 DEF SizesOf, FoldFunctionOnSet, MapThenFoldSet
  <2> QED  BY <2>1, <2>2, <2>3 DEF SpaceInv
<1>2. CASE (f \in checked) # on
  <2>1. /\ checked' = IF on THEN checked \union {f} ELSE checked \ {f}
        /\ stack' = <<Frame(f)>> \o frames
    BY <1>2 DEF SetCheckState
  <2>2. Frame(f) \in Frames /\ Frame(f).entered = FALSE /\ Frame(f).item = f
    BY DEF Frame, Frames
  <2>3. /\ stack' # <<>> /\ Head(stack') = Frame(f)
        /\ \A i \in DOMAIN stack' : i # 1 => i - 1 \in DOMAIN frames /\ stack'[i] = frames[i - 1]
    BY <2>1, <2>2, PushPlaces
  <2>4. Uncounted(stack)' = IF f \in checked' THEN Size[f] ELSE 0 - Size[f]
    BY <2>2, <2>3 DEF Uncounted, SizeChange
  <2>5. Size[f] \in Nat /\ SizesOf(checked) \in Int
    BY SetupAssumption
  <2>6. /\ IsFiniteSet(checked')
        /\ SizesOf(checked') = SizesOf(checked) + (IF f \in checked' THEN Size[f] ELSE 0 - Size[f])
    <3>1. CASE on
      <4> DEFINE more == checked \union {f}
      <4>1. more \in SUBSET Feature /\ IsFiniteSet(more) /\ f \in more /\ more \ {f} = checked
        BY <1>2, <3>1, FS_AddElement
      <4>2. checked' = more
        BY <2>1, <3>1
      <4> HIDE DEF more
      <4>3. SizesOf(more) = Size[f] + SizesOf(checked)
        BY <4>1, SizesTakeAny
      <4> QED  BY <2>5, <4>1, <4>2, <4>3
    <3>2. CASE ~ on
      <4> DEFINE less == checked \ {f}
      <4>1. less \in SUBSET Feature /\ IsFiniteSet(less) /\ f \in checked /\ f \notin less
        BY <1>2, <3>2, FS_RemoveElement
      <4>2. checked' = less
        BY <2>1, <3>2
      <4>3. SizesOf(checked) = Size[f] + SizesOf(less)
        BY <4>1, SizesTakeAny
      <4> HIDE DEF less
      <4>4. SizesOf(less) \in Nat
        BY <4>1, SizesNat
      <4> QED  BY <2>5, <4>1, <4>2, <4>3, <4>4
    <3> QED  BY <3>1, <3>2
  <2>7. SizesOf(checked)' = SizesOf(checked')
    BY DEF SizesOf, FoldFunctionOnSet, MapThenFoldSet
  <2>8. required' + Uncounted(stack)' = SizesOf(checked)'
    BY <2>4, <2>6, <2>7
  <2> QED  BY <2>3, <2>6, <2>8 DEF SpaceInv
<1> QED  BY <1>1, <1>2

LEMMA ToggleKeepsSpace ==
    ASSUME TreeInv, SpaceInv, NEW f \in Feature, Toggle(f)
    PROVE  SpaceInv'
<1>1. /\ stack = <<>> /\ <<>> \in Seq(Frames) /\ required' = required
      /\ SetCheckState(f, f \notin checked, <<>>)
  BY DEF Toggle, Interactive
<1>2. Uncounted(stack) = 0
  BY <1>1 DEF Uncounted
<1>3. /\ checked \in SUBSET Feature /\ IsFiniteSet(checked)
      /\ required \in Int /\ required = SizesOf(checked)
  BY <1>2 DEF TreeInv, SpaceInv
<1>4. PICK none \in Seq(Frames) : none = <<>> /\ \A i \in DOMAIN none : none[i].entered
  <2>1. PICK none \in Seq(Frames) : none = <<>>
    BY <1>1, Zenon
  <2>2. Len(none) = 0 /\ DOMAIN none = 1..Len(none)
    BY <2>1
  <2>3. DOMAIN none = {}
    BY <2>2
  <2> QED  BY <2>1, <2>3, Zenon
<1>5. (f \notin checked) \in BOOLEAN /\ SetCheckState(f, f \notin checked, none)
  BY <1>1, <1>4
<1> QED
  BY <1>1, <1>3, <1>4, <1>5, SetCheckStateKeepsSpace

LEMMA HandlerKeepsSpace ==
    ASSUME TreeInv, SpaceInv, Handler
    PROVE  SpaceInv'
<1> DEFINE frame == Head(stack)
           rest == Tail(stack)
<1>1. /\ stack # <<>> /\ stack \in Seq(Frames) /\ checked \in SUBSET Feature
      /\ IsFiniteSet(checked) /\ required \in Int
      /\ required + Uncounted(stack) = SizesOf(checked)
      /\ \A i \in DOMAIN stack : i # 1 => stack[i].entered
  BY DEF Handler, EnterHandler, HandlerChanges, LeaveHandler, TreeInv, SpaceInv
<1>2. rest \in Seq(Frames) /\ frame \in Frames /\ \A i \in DOMAIN rest : rest[i].entered
  BY <1>1, TailPlaces
<1>3. Uncounted(stack) = IF frame.entered THEN 0 ELSE SizeChange(frame.item)
  BY <1>1 DEF Uncounted
<1> HIDE DEF frame, rest
<1>4. CASE EnterHandler
  <2> DEFINE f == frame.item
             top == [item |-> f, entered |-> TRUE, on |-> f \in checked, todo |-> AlsoChanges(f)]
  <2>1. /\ ~ frame.entered /\ checked' = checked /\ stack' = <<top>> \o rest
        /\ required' = required + SizeChange(f)
    BY <1>4 DEF EnterHandler, frame, rest
  <2>2. f \in Feature /\ AlsoChanges(f) \subseteq Feature
    BY <1>1, <1>2, SetupAssumption DEF Frames, AlsoChanges, Children
  <2>3. top \in Frames /\ top.entered
    BY <2>2 DEF Frames
  <2>4. /\ stack' # <<>> /\ Head(stack') = top
        /\ \A i \in DOMAIN stack' : i # 1 => i - 1 \in DOMAIN rest /\ stack'[i] = rest[i - 1]
    BY <1>2, <2>1, <2>3, PushPlaces
  <2>5. Uncounted(stack)' = 0
    BY <2>3, <2>4 DEF Uncounted
  <2>6. SizeChange(f) \in Int
    BY <2>2, SetupAssumption DEF SizeChange
  <2>7. SizesOf(checked)' = required + SizeChange(f)
    BY <1>1, <1>3, <2>1 DEF SizesOf, FoldFunctionOnSet, MapThenFoldSet
  <2> HIDE DEF f, top
  <2>8. required' \in Int /\ required' + Uncounted(stack)' = SizesOf(checked)'
    BY <1>1, <2>1, <2>5, <2>6, <2>7
  <2> QED  BY <1>1, <1>2, <2>1, <2>4, <2>8 DEF SpaceInv
<1>5. CASE HandlerChanges
  <2> DEFINE top(f) == [frame EXCEPT !.todo = @ \ {f}]
  <2>1. PICK f \in frame.todo : SetCheckState(f, frame.on, <<top(f)>> \o rest)
    BY <1>5 DEF HandlerChanges, frame, rest
  <2>2. /\ frame.entered /\ frame.on \in BOOLEAN /\ f \in Feature /\ required' = required
    BY <1>2, <1>5, <2>1 DEF HandlerChanges, Frames, frame
  <2>3. top(f) \in Frames /\ top(f).entered
    BY <1>2, <2>2 DEF Frames
  <2> DEFINE frames == <<top(f)>> \o rest
  <2>4. frames \in Seq(Frames)
    BY <1>2, <2>3, PushMembers
  <2>5. /\ frames # <<>> /\ Head(frames) = top(f)
        /\ \A i \in DOMAIN frames : i # 1 => i - 1 \in DOMAIN rest /\ frames[i] = rest[i - 1]
    BY <1>2, <2>3, PushPlaces
  <2>6. SetCheckState(f, frame.on, frames)
    BY <2>1
  <2> HIDE DEF frames
  <2>7. \A i \in DOMAIN frames : frames[i].entered
    <3>1. Head(frames) = frames[1]
      BY <2>4, <2>5
    <3> QED  BY <1>2, <2>3, <2>5, <3>1
  <2>8. required = SizesOf(checked)
    BY <1>1, <1>3, <2>2
  <2> QED  BY <1>1, <2>2, <2>4, <2>6, <2>7, <2>8, SetCheckStateKeepsSpace
<1>6. CASE LeaveHandler
  <2>1. frame.entered /\ checked' = checked /\ required' = required /\ stack' = rest
    BY <1>6 DEF LeaveHandler, frame, rest
  <2>2. Uncounted(stack)' = 0
    BY <1>2, <2>1, AllCounted DEF Uncounted
  <2>3. SizesOf(checked)' = SizesOf(checked)
    BY <2>1 DEF SizesOf, FoldFunctionOnSet, MapThenFoldSet
  <2> QED  BY <1>1, <1>2, <1>3, <2>1, <2>2, <2>3 DEF SpaceInv
<1> QED
  BY <1>4, <1>5, <1>6 DEF Handler

LEMMA NothingChecked == IsFiniteSet({}) /\ SizesOf({}) = 0
<1>1. IsFiniteSet({}) /\ {} \in SUBSET Feature
  BY FS_EmptySet
<1> QED  BY <1>1, SizesTake

LEMMA SpaceStep ==
    TreeInv /\ SpaceInv /\ [SetupNext]_setupVars => SpaceInv'
<1> SUFFICES ASSUME TreeInv, SpaceInv, [SetupNext]_setupVars PROVE SpaceInv'
  OBVIOUS
<1>1. CASE StartAgain
  <2>1. checked' = {} /\ stack' = <<>> /\ required' = 0
    BY <1>1 DEF StartAgain
  <2>2. Uncounted(stack)' = 0
    BY <2>1 DEF Uncounted
  <2>3. SizesOf(checked)' = SizesOf({})
    BY <2>1 DEF SizesOf, FoldFunctionOnSet, MapThenFoldSet
  <2>4. required' + Uncounted(stack)' = SizesOf(checked)' /\ required' \in Int
    BY <2>1, <2>2, <2>3, NothingChecked
  <2>5. IsFiniteSet(checked') /\ \A i \in DOMAIN stack' : i # 1 => stack'[i].entered
    BY <2>1, NothingChecked
  <2> QED  BY <2>4, <2>5 DEF SpaceInv
<1>2. CASE UNCHANGED <<checked, stack, required>>
  <2>1. SizesOf(checked)' = SizesOf(checked)
    BY <1>2 DEF SizesOf, FoldFunctionOnSet, MapThenFoldSet
  <2>2. Uncounted(stack)' = Uncounted(stack)
    BY <1>2 DEF Uncounted, SizeChange
  <2> QED  BY <1>2, <2>1, <2>2 DEF SpaceInv
<1> QED
  BY <1>1, <1>2, TreeElsewhere, ToggleKeepsSpace, HandlerKeepsSpace

(***************************************************************************)
(* The space shown is that of the checked features, each counted once,     *)
(* whatever the tree and whatever is clicked, and each comes with its      *)
(* parent (SetupDialog.cpp:226-247).                                       *)
(***************************************************************************)
THEOREM TotalCorrect == SetupSpec => []TotalOfChecked
<1>1. SetupInit => SpaceInv
  <2> SUFFICES ASSUME SetupInit PROVE SpaceInv
    OBVIOUS
  <2>1. checked = {} /\ stack = <<>> /\ required = 0 /\ Uncounted(stack) = 0
    BY DEF SetupInit, Uncounted
  <2> QED  BY <2>1, NothingChecked DEF SpaceInv
<1>2. DialogInv /\ SpaceInv /\ [SetupNext]_setupVars => SpaceInv'
  BY SpaceStep DEF DialogInv
<1>3. DialogInv /\ SpaceInv => TotalOfChecked
  <2> SUFFICES ASSUME DialogInv, SpaceInv, stack = <<>>
               PROVE  /\ required = FoldFunctionOnSet(+, 0, Size, checked)
                      /\ \A f \in checked : Parent[f] \in checked \union {NoFeature}
    BY DEF TotalOfChecked
  <2>1. required = SizesOf(checked)
    BY DEF SpaceInv, Uncounted
  <2>2. \A f \in checked : Parent[f] \in checked \union {NoFeature}
    BY DEF DialogInv, TreeInv, Closed
  <2> QED  BY <2>1, <2>2 DEF SizesOf
<1> QED
  BY <1>1, <1>2, <1>3, DialogInvariant, PTL DEF SetupSpec
=============================================================================
