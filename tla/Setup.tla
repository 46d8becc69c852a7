------------------------------- MODULE Setup --------------------------------
(***************************************************************************)
(* The setup program (src/src/ui), a client of InstallerApi with three     *)
(* threads: the GUI thread, a thread that opens the source repository      *)
(* while a splash screen shows, and a thread that installs while the setup *)
(* dialog shows. The threads end by posting an event to the GUI thread.    *)
(* The objects they use are destroyed by the GUI thread: the dialog by the *)
(* handler that has shown it, the source repository and the installer at   *)
(* the end of main. The user may close either window at any time.          *)
(*                                                                         *)
(* The tree of features is part of the dialog: a click on a feature calls  *)
(* a handler, which changes other features and so calls itself.            *)
(* Not modelled: texts, progress, which is only shown, and the password,   *)
(* which the dialog reads and does not use.                                *)
(***************************************************************************)
EXTENDS InstallerApi, Sequences, SequencesExt

CONSTANTS
    Feature,      \* the features of the source repository
    NoFeature,    \* the parent of a feature that has none
    Parent,       \* the parent of every feature
    Size,         \* the size of every feature
    SourcePath    \* the repository named in info.json

ASSUME SetupAssumption ==
    /\ NoFeature \notin Feature
    /\ Parent \in [Feature -> Feature \union {NoFeature}]
    /\ Size \in [Feature -> Nat]
    /\ SourcePath \in Path

VARIABLES
    gui,         \* where the GUI thread is
    events,      \* the events posted to the GUI thread
    quitting,    \* has the GUI thread been told to leave its event loops
    opener,      \* where the OpenSourceRepositoryThread is
    worker,      \* where the InstallThread is
    source,      \* SetupContext::sourceRepository
    target,      \* what the InstallThread has opened
    action,      \* what the InstallThread is going to execute
    desired,     \* the features the InstallThread has read from the tree
    outcome      \* the result of Execute, of the event and of the message box

VARIABLES
    shown,       \* does the tree show the features
    checked,     \* the features that are checked
    stack,       \* the calls of OnFeatureSelectionItemChanged
    required,    \* requiredDiskSpace_
    directory,   \* the target directory, NoPath while it is empty
    button,      \* is the button that starts the installation enabled
    locked       \* are tree and directory disabled

threadVars == <<gui, events, quitting, opener, worker, source, target, action, desired, outcome>>
treeVars == <<shown, checked, stack, required, directory, button, locked>>
setupVars == <<vars, threadVars, treeVars>>

Children(f) == {c \in Feature : Parent[c] = f}

-----------------------------------------------------------------------------
(* The tree *)

\* The user can reach the controls of the dialog.
Interactive == fault = "none" /\ gui = "dialog" /\ stack = <<>>

Frame(f) == [item |-> f, entered |-> FALSE, on |-> FALSE, todo |-> {}]

\* setCheckState, which calls the handler if the state changes.
SetCheckState(f, on, frames) ==
    IF (f \in checked) = on
    THEN checked' = checked /\ stack' = frames
    ELSE /\ checked' = IF on THEN checked \union {f} ELSE checked \ {f}
         /\ stack' = <<Frame(f)>> \o frames

\* A mutant: the tree stays enabled during the installation.
MutantToggle(f) ==
    /\ Interactive /\ shown
    /\ SetCheckState(f, f \notin checked, <<>>)
    /\ UNCHANGED <<vars, threadVars, shown, required, directory, button, locked>>

Toggle(f) ==
    /\ Interactive /\ ~locked /\ shown
    /\ SetCheckState(f, f \notin checked, <<>>)
    /\ UNCHANGED <<vars, threadVars, shown, required, directory, button, locked>>

\* A mutant: a feature that is unchecked leaves its subfeatures checked.
MutantAlsoChanges(f) == IF f \in checked /\ Parent[f] # NoFeature THEN {Parent[f]} ELSE {}
AlsoChanges(f) ==
    IF f \notin checked THEN Children(f)
    ELSE IF Parent[f] # NoFeature THEN {Parent[f]}
    ELSE {}

SizeChange(f) == IF f \in checked THEN Size[f] ELSE 0 - Size[f]

EnterHandler ==
    LET f == Head(stack).item IN
    /\ fault = "none"
    /\ stack # <<>> /\ ~Head(stack).entered
    /\ required' = required + SizeChange(f)
    /\ stack' = <<[item |-> f, entered |-> TRUE, on |-> f \in checked, todo |-> AlsoChanges(f)]>>
                \o Tail(stack)
    /\ UNCHANGED <<vars, threadVars, shown, checked, directory, button, locked>>

HandlerChanges ==
    LET frame == Head(stack) IN
    /\ fault = "none"
    /\ stack # <<>> /\ frame.entered /\ frame.todo # {}
    /\ \E f \in frame.todo :
          SetCheckState(f, frame.on, <<[frame EXCEPT !.todo = @ \ {f}]>> \o Tail(stack))
    /\ UNCHANGED <<vars, threadVars, shown, required, directory, button, locked>>

UpdateInstallButtonState(features, dir) == features # {} /\ dir # NoPath

LeaveHandler ==
    /\ fault = "none"
    /\ stack # <<>> /\ Head(stack).entered /\ Head(stack).todo = {}
    /\ stack' = Tail(stack)
    /\ button' = UpdateInstallButtonState(checked, directory)
    /\ UNCHANGED <<vars, threadVars, shown, checked, required, directory, locked>>

Handler == EnterHandler \/ HandlerChanges \/ LeaveHandler

EditDirectory(path) ==
    /\ Interactive /\ ~locked
    /\ directory' = path
    /\ button' = UpdateInstallButtonState(checked, path)
    /\ UNCHANGED <<vars, threadVars, shown, checked, stack, required, locked>>

StartInstallation ==
    /\ Interactive /\ button
    /\ button' = FALSE /\ locked' = TRUE
    /\ worker' = "open"
    /\ UNCHANGED <<vars, gui, events, quitting, opener, source, target, action, desired, outcome>>
    /\ UNCHANGED <<shown, checked, stack, required, directory>>

-----------------------------------------------------------------------------
(* The thread that opens the source repository *)

OpenSourceRepository ==
    /\ opener = "opening"
    /\ \E h \in Handle :
          /\ OpenSource(h, SourcePath, {"readonly"})
          /\ source' = IF last'.result = "Ok" THEN h ELSE NoHandle
    /\ opener' = "report"
    /\ UNCHANGED <<gui, events, quitting, worker, target, action, desired, outcome, treeVars>>

EmitRepositoryOpened ==
    /\ fault = "none" /\ opener = "report"
    /\ opener' = "ended"
    /\ events' = Append(events, "opened")
    /\ UNCHANGED <<vars, gui, quitting, worker, source, target, action, desired, outcome, treeVars>>

Opener == OpenSourceRepository \/ EmitRepositoryOpened

-----------------------------------------------------------------------------
(* The thread that installs *)

WorkerOpens(options, then) ==
    \E h \in Handle :
       /\ OpenTarget(h, directory, options)
       /\ target' = IF last'.result = "Ok" THEN h ELSE NoHandle
       /\ worker' = IF last'.result = "Ok" THEN "select" ELSE then

TryOpen ==
    /\ worker = "open"
    /\ WorkerOpens({}, "create")
    /\ action' = "configure"
    /\ UNCHANGED <<gui, events, quitting, opener, source, desired, outcome, treeVars>>

OpenToCreate ==
    /\ worker = "create"
    /\ WorkerOpens({"create"}, "report")
    /\ action' = "install" /\ outcome' = "Error"
    /\ UNCHANGED <<gui, events, quitting, opener, source, desired, treeVars>>

GetSelectedFeatures ==
    /\ fault = "none" /\ worker = "select"
    /\ desired' = checked
    /\ worker' = "execute"
    /\ UNCHANGED <<vars, gui, events, quitting, opener, source, target, action, outcome, treeVars>>

\* The end of Execute; the call has begun when worker has become "execute".
ExecuteAction ==
    /\ worker = "execute"
    /\ Execute(action, target, source, IF desired = {} THEN "bad" ELSE "good")
    /\ outcome' = last'.result
    /\ worker' = "close"
    /\ UNCHANGED <<gui, events, quitting, opener, source, target, action, desired, treeVars>>

CloseTarget ==
    /\ worker = "close"
    /\ CloseRepository(target)
    /\ worker' = "report"
    /\ UNCHANGED <<gui, events, quitting, opener, source, target, action, desired, outcome, treeVars>>

\* A mutant: the dialog is told of success in any case.
MutantEmitSuccess ==
    /\ fault = "none" /\ worker = "report"
    /\ worker' = "ended" /\ outcome' = "Ok"
    /\ events' = Append(events, "finished")
    /\ UNCHANGED <<vars, gui, quitting, opener, source, target, action, desired, treeVars>>

EmitInstallationFinished ==
    /\ fault = "none" /\ worker = "report"
    /\ worker' = "ended"
    /\ events' = Append(events, "finished")
    /\ UNCHANGED <<vars, gui, quitting, opener, source, target, action, desired, outcome, treeVars>>

Worker ==
    \/ TryOpen \/ OpenToCreate \/ GetSelectedFeatures
    \/ ExecuteAction \/ CloseTarget \/ EmitInstallationFinished

-----------------------------------------------------------------------------
(* The GUI thread *)

GuiGoes(from, to) ==
    /\ fault = "none" /\ gui = from
    /\ gui' = to

CreateContext ==
    /\ gui = "start" /\ gui' = "context"
    /\ CreateInstaller(TRUE)
    /\ UNCHANGED <<events, quitting, opener, worker, source, target, action, desired, outcome, treeVars>>

ShowSplash ==
    /\ GuiGoes("context", "splash")
    /\ opener' = "opening"
    /\ UNCHANGED <<vars, events, quitting, worker, source, target, action, desired, outcome, treeVars>>

MutantPostQuit == UNCHANGED events   \* a mutant: the program does not end with its last window

\* Closing the last window posts an event, behind those that are there.
PostQuit == events' = Append(events, "quit")

CloseSplash ==
    /\ GuiGoes("splash", "splash")
    /\ \A i \in DOMAIN events : events[i] # "quit"
    /\ PostQuit
    /\ UNCHANGED <<vars, quitting, opener, worker, source, target, action, desired, outcome, treeVars>>

OnRepositoryOpened ==
    /\ GuiGoes("splash", IF source # NoHandle THEN "fill" ELSE "open failed")
    /\ events # <<>> /\ Head(events) = "opened"
    /\ events' = Tail(events)
    /\ UNCHANGED <<vars, quitting, opener, worker, source, target, action, desired, outcome, treeVars>>

CloseOpenFailed ==
    /\ GuiGoes("open failed", "splash")
    /\ PostQuit
    /\ UNCHANGED <<vars, quitting, opener, worker, source, target, action, desired, outcome, treeVars>>

\* The constructor of SetupDialog. When a query fails, the size it did not store is used
\* uninitialized: no features are shown, or an exception nobody catches ends the process.
FillTree ==
    /\ gui = "fill"
    /\ GetProperty(source, TRUE, "enough")
    /\ \/ gui' = "dialog" /\ shown' = (last'.result = "Ok")
       \/ last'.result # "Ok" /\ gui' = "terminated" /\ shown' = FALSE
    /\ UNCHANGED <<events, quitting, opener, worker, source, target, action, desired, outcome>>
    /\ UNCHANGED <<checked, stack, required, directory, button, locked>>

\* The slot InstallationFinished, up to its message box.
InstallationFinished ==
    /\ Interactive /\ GuiGoes("dialog", "report")
    /\ events # <<>> /\ Head(events) = "finished"
    /\ events' = Tail(events)
    /\ UNCHANGED <<vars, quitting, opener, worker, source, target, action, desired, outcome, treeVars>>

\* The user closes the dialog, or the message box and so the dialog.
CloseDialog ==
    /\ stack = <<>>
    /\ GuiGoes("dialog", "leaving") \/ GuiGoes("report", "leaving")
    /\ PostQuit
    /\ UNCHANGED <<vars, quitting, opener, worker, source, target, action, desired, outcome, treeVars>>

\* The event of CloseSplash or CloseDialog: every event loop is left.
Quit ==
    /\ stack = <<>>
    /\ \/ GuiGoes("splash", "quit")
       \/ GuiGoes("open failed", "quit")
       \/ GuiGoes("dialog", "leaving")
       \/ GuiGoes("report", "leaving")
    /\ events # <<>> /\ Head(events) = "quit"
    /\ events' = Tail(events) /\ quitting' = TRUE
    /\ UNCHANGED <<vars, opener, worker, source, target, action, desired, outcome, treeVars>>

\* Events for a dialog are dropped with it; "finished" is posted once.
DropFinished ==
    \/ (\A i \in DOMAIN events : events[i] # "finished") /\ UNCHANGED events
    \/ \E i \in DOMAIN events : events[i] = "finished" /\ events' = RemoveAt(events, i)

\* A mutant: the destructor does not wait.
MutantDestroyDialog ==
    /\ GuiGoes("leaving", IF quitting THEN "quit" ELSE "splash")
    /\ DropFinished
    /\ UNCHANGED <<vars, quitting, opener, worker, source, target, action, desired, outcome, treeVars>>

\* ~SetupDialog waits for the thread.
DestroyDialog ==
    /\ worker \in {"none", "ended"}
    /\ GuiGoes("leaving", IF quitting THEN "quit" ELSE "splash")
    /\ DropFinished
    /\ UNCHANGED <<vars, quitting, opener, worker, source, target, action, desired, outcome, treeVars>>

\* A mutant: the destructor does not wait.
MutantDestroySplash ==
    /\ GuiGoes("quit", "close source")
    /\ UNCHANGED <<vars, events, quitting, opener, worker, source, target, action, desired, outcome, treeVars>>

DestroySplash ==
    /\ opener = "ended"
    /\ GuiGoes("quit", "close source")
    /\ UNCHANGED <<vars, events, quitting, opener, worker, source, target, action, desired, outcome, treeVars>>

\* ~SetupContext
CloseSource ==
    /\ gui = "close source" /\ gui' = "destroy"
    /\ IF source # NoHandle THEN CloseRepository(source) ELSE UNCHANGED vars
    /\ UNCHANGED <<events, quitting, opener, worker, source, target, action, desired, outcome, treeVars>>

DestroyContext ==
    /\ gui = "destroy" /\ gui' = "ended"
    /\ DestroyInstaller
    /\ UNCHANGED <<events, quitting, opener, worker, source, target, action, desired, outcome, treeVars>>

\* What the GUI thread does by itself; the rest is up to the user.
Gui ==
    \/ CreateContext \/ ShowSplash \/ OnRepositoryOpened \/ FillTree \/ Handler
    \/ InstallationFinished \/ Quit \/ DestroyDialog \/ DestroySplash \/ CloseSource \/ DestroyContext

User ==
    \/ \E f \in Feature : Toggle(f)
    \/ \E path \in Path \union {NoPath} : EditDirectory(path)
    \/ StartInstallation
    \/ CloseSplash \/ CloseOpenFailed \/ CloseDialog

-----------------------------------------------------------------------------
CrashInstalling ==
    /\ worker = "execute"
    /\ Crash(target)
    /\ UNCHANGED <<threadVars, treeVars>>

StartAgain ==
    /\ gui \in {"ended", "terminated"} \/ fault # "none"
    /\ Restart
    /\ gui' = "start" /\ events' = <<>> /\ quitting' = FALSE
    /\ opener' = "none" /\ worker' = "none"
    /\ source' = NoHandle /\ target' = NoHandle
    /\ action' = "configure" /\ desired' = {} /\ outcome' = "Ok"
    /\ shown' = FALSE /\ checked' = {} /\ stack' = <<>> /\ required' = 0
    /\ directory' = NoPath /\ button' = FALSE /\ locked' = FALSE

SetupInit ==
    /\ Init
    /\ gui = "start" /\ events = <<>> /\ quitting = FALSE
    /\ opener = "none" /\ worker = "none"
    /\ source = NoHandle /\ target = NoHandle
    /\ action = "configure" /\ desired = {} /\ outcome = "Ok"
    /\ shown = FALSE /\ checked = {} /\ stack = <<>> /\ required = 0
    /\ directory = NoPath /\ button = FALSE /\ locked = FALSE

SetupNext == Opener \/ Worker \/ Gui \/ User \/ CrashInstalling \/ StartAgain

\* Threads run on, and Execute returns; users need not do anything.
Fairness ==
    /\ WF_setupVars(Opener)
    /\ WF_setupVars(Worker)
    /\ WF_setupVars(Gui)

SetupSpec == SetupInit /\ [][SetupNext]_setupVars /\ Fairness

-----------------------------------------------------------------------------
(* Properties *)

(***************************************************************************)
(* When the handler has returned from all its calls, the disk space shown  *)
(* counts every checked feature once, and a feature is checked only with   *)
(* its parent (SetupDialog.cpp:226-247).                                   *)
(***************************************************************************)
TotalOfChecked ==
    stack = <<>> =>
        /\ required = FoldFunctionOnSet(+, 0, Size, checked)
        /\ \A f \in checked : Parent[f] \in checked \union {NoFeature}

InstallRunning == worker \notin {"none", "ended"}

(***************************************************************************)
(* The C API is not made for concurrent calls, and the threads share one   *)
(* installer without a lock: at any time at most one thread is in a call   *)
(* (SetupDialog.cpp:63-121, SplashDialog.cpp:47-68, SetupContext.cpp:26).  *)
(***************************************************************************)
OneCallAtATime ==
    LET Calling ==
            {t \in {"gui", "opener", "worker"} :
                \/ t = "gui" /\ gui \in {"fill", "close source", "destroy"}
                \/ t = "opener" /\ opener = "opening"
                \/ t = "worker" /\ worker \in {"open", "create", "execute", "close"}}
    IN \A t, u \in Calling : t = u

(***************************************************************************)
(* The threads outlive nothing they use: while one runs, the installer is  *)
(* there, and while the InstallThread runs, its dialog and the source are  *)
(* (SetupDialog.cpp:484-490, SplashDialog.cpp:47-52, ui/src/main.cpp).     *)
(***************************************************************************)
ThreadsEndFirst ==
    /\ opener \in {"opening", "report"} => installer /\ gui \in {"splash", "quit"}
    /\ InstallRunning =>
          /\ installer /\ Open(source)
          /\ gui \in {"dialog", "leaving"}

(***************************************************************************)
(* What is installed is what was checked when the button was pressed, and  *)
(* still shown: not empty, and every feature comes with its parent         *)
(* (SetupDialog.cpp:401-417, :493-504).                                    *)
(***************************************************************************)
InstallsWhatIsChecked ==
    worker \in {"execute", "close", "report", "ended"} /\ target # NoHandle =>
        /\ desired = checked /\ desired # {}
        /\ \A f \in desired : Parent[f] \in desired \union {NoFeature}

(***************************************************************************)
(* The message box tells of success only if the last Configure of the      *)
(* directory that is shown ended by itself, and was for the features that  *)
(* are shown as checked (SetupDialog.cpp:114-120, :468-481). That is not   *)
(* to say that the files are there: Configure does not notice a write that *)
(* gets lost (FileIO.cpp:80-83, :141-146; modules Deployed and Staging).   *)
(***************************************************************************)
ReportIsTrue ==
    gui = "report" /\ outcome = "Ok" => disk[directory] = "clean" /\ desired = checked

(***************************************************************************)
(* Whoever leaves a window sees the program end, whatever the threads do   *)
(* at that moment: nothing waits for something that waits for it           *)
(* (SetupDialog.cpp:484-490, SplashDialog.cpp:47-52).                      *)
(***************************************************************************)
LeavingEnds ==
    (gui = "leaving" \/ quitting) ~> gui = "ended" \/ fault # "none"
=============================================================================
