-------------------------------- MODULE Cli ---------------------------------
(***************************************************************************)
(* Clients of the C API: the command line client (src/src/cli/src/main.cpp)*)
(* composed with InstallerApi, and beside it a program of its own that     *)
(* makes any call it likes, as long as it passes null or handles it has    *)
(* open. One process runs at a time; when it has ended or crashed another  *)
(* is started on what it left on disk.                                     *)
(*                                                                         *)
(* A command is a fixed sequence of calls. What becomes of a call's result *)
(* differs: KYLA_CHECKED_CALL throws, and the exception ends the command;  *)
(* the result of the Execute that matters is kept as the exit code; the    *)
(* rest is ignored.                                                        *)
(***************************************************************************)
EXTENDS InstallerApi, Sequences

CONSTANTS Source, Target   \* the directories a command can be given

ASSUME CliAssumption == Source \subseteq Path /\ Target \subseteq Path

VARIABLES
    command,   \* the command that runs, "own" for another program, "none"
    pc,        \* the next call of the command
    args,      \* source and target directory of the command
    opened,    \* the handles the command has got
    before,    \* history: k.db of the target when the command began
    exit       \* how the command ended, or "none"

cliVars == <<command, pc, args, opened, before, exit>>
allVars == <<vars, cliVars>>

-----------------------------------------------------------------------------
Throw(call) == [call |-> call, on |-> "throw"]
Ignore(call) == [call |-> call, on |-> "ignore"]
Exit(call) == [call |-> call, on |-> "exit"]

CloseAll == <<Ignore("close source"), Ignore("close target"), Throw("destroy")>>

\* A mutant: the target is always opened with Create.
MutantAlwaysCreate(open, execute) ==
    <<Throw("create"), Throw("open source"), Throw("open new target"), Exit(execute)>> \o CloseAll

ConfigureOrInstall(open, execute) ==
    <<Throw("create"), Throw("open source"), Ignore("key"), Throw(open), Throw("parse"),
      Exit(execute)>> \o CloseAll

\* A mutant: the result of Verify is not looked at.
MutantValidateIgnores ==
    <<Throw("create"), Ignore("callback"), Throw("open source"), Throw("open target"),
      Ignore("verify")>> \o CloseAll

Validate ==
    <<Throw("create"), Ignore("callback"), Throw("open source"), Throw("open target"),
      Ignore("key"), Throw("verify")>> \o CloseAll

RepairCommand ==
    <<Throw("create"), Throw("open source"), Throw("open target"), Exit("repair"),
      Ignore("close source"), Ignore("close target"), Ignore("destroy")>>

\* Only the features can be asked for; another property asks for nothing.
QueryRepository(property) ==
    <<Ignore("create"), Throw("open to read")>>
    \o (IF property = "features" THEN <<Throw("size"), Throw("fetch")>> ELSE <<>>)
    \o <<Ignore("close source"), Throw("destroy")>>

\* The ids of the subfeatures, or the size; another property asks for nothing.
QueryFeature(property) ==
    <<Ignore("create"), Throw("open to read"), Throw("parse")>>
    \o (CASE property = "subfeatures" -> <<Ignore("size"), Ignore("fetch")>>
          [] property = "size" -> <<Ignore("fetch")>>
          [] OTHER -> <<>>)
    \o <<Ignore("close source"), Throw("destroy")>>

Program ==
    [install |-> ConfigureOrInstall("open new target", "install"),
     configure |-> ConfigureOrInstall("open target", "configure"),
     validate |-> Validate,
     repair |-> RepairCommand,
     queryFeatures |-> QueryRepository("features"),
     queryRepository |-> QueryRepository("other"),
     querySubfeatures |-> QueryFeature("subfeatures"),
     querySize |-> QueryFeature("size"),
     queryFeature |-> QueryFeature("other")]

NoArgs == [source |-> NoPath, target |-> NoPath]
NoOpened == [source |-> NoHandle, target |-> NoHandle]
Command == DOMAIN Program
Installs == {"install", "configure"}

-----------------------------------------------------------------------------
\* The calls a command makes. Features on the command line may be missing, which makes
\* the desired state bad.
CallOf(c) ==
    LET s == opened.source
        t == opened.target
        Desired == IF command \in Installs THEN {"bad", "good"} ELSE {"null"}
        OpenedSource(options) ==
            \E h \in Handle : OpenSource(h, args.source, options) /\ opened' = [opened EXCEPT !.source = h]
        OpenedTarget(options) ==
            \E h \in Handle : OpenTarget(h, args.target, options) /\ opened' = [opened EXCEPT !.target = h]
    IN
    \/ c = "open source" /\ OpenedSource({})
    \/ c = "open to read" /\ OpenedSource({"readonly"})
    \/ c = "open target" /\ OpenedTarget({})
    \/ c = "open new target" /\ OpenedTarget({"create"})
    \/ /\ UNCHANGED opened
       /\ \/ c = "create" /\ CreateInstaller(TRUE)
          \/ c = "callback" /\ SetCallback("validation", TRUE)
          \/ c = "key" /\ (UNCHANGED vars \/ SetVariable(TRUE))
          \/ c = "size" /\ GetProperty(s, TRUE, "size")
          \/ c = "fetch" /\ GetProperty(s, TRUE, "enough")
          \/ c \in Action /\ \E d \in Desired : Execute(c, t, s, d)
          \/ c = "close source" /\ CloseRepository(s)
          \/ c = "close target" /\ CloseRepository(t)
          \/ c = "destroy" /\ DestroyInstaller

\* What the command makes of the result; Validate returns 0 if no file was reported bad.
After(step) ==
    /\ pc' = IF step.on = "throw" /\ last'.result # "Ok" THEN Len(Program[command]) + 1 ELSE pc + 1
    /\ exit' = IF fault' # "none" THEN exit
               ELSE IF step.on = "throw" /\ last'.result # "Ok" THEN "exception"
               ELSE IF step.on = "exit" THEN last'.result
               ELSE IF pc = Len(Program[command]) /\ exit = "none"
               THEN IF command = "validate" /\ reports = "bad" THEN "Error" ELSE "Ok"
               ELSE exit

Start(c) ==
    /\ command = "none"
    /\ UNCHANGED vars
    /\ command' = c
    /\ args' \in IF c = "own" THEN {NoArgs} ELSE [source : Source, target : Target]
    /\ UNCHANGED <<pc, opened, exit>>
    /\ before' = IF c = "own" THEN "absent" ELSE disk[args'.target]

Finished == command \in Command /\ pc = Len(Program[command]) + 1

Step ==
    /\ command \in Command /\ ~Finished
    /\ Program[command][pc].call # "parse"
    /\ CallOf(Program[command][pc].call)
    /\ After(Program[command][pc])
    /\ UNCHANGED <<command, args, before>>

\* Uuid::Parse of the features on the command line, which throws or does not.
Parse ==
    /\ command \in Command /\ ~Finished
    /\ Program[command][pc].call = "parse"
    /\ \/ pc' = pc + 1 /\ exit' = exit
       \/ pc' = Len(Program[command]) + 1 /\ exit' = "exception"
    /\ UNCHANGED <<vars, command, args, opened, before>>

\* A program of its own: any call with null or open handles, in any order; handles of an
\* installer that is gone are not used with another one.
OwnCall ==
    /\ command = "own"
    /\ installer \/ \A h \in Handle : ~Open(h)
    /\ Call
    /\ UNCHANGED cliVars

CrashDuring ==
    /\ command # "none"
    /\ \/ command = "own"
       \/ command \in Installs /\ ~Finished /\ Program[command][pc].call = command
    /\ \E t \in Handle : Crash(t)
    /\ UNCHANGED cliVars

End ==
    /\ command # "none"
    /\ command = "own" \/ fault # "none" \/ Finished
    /\ Restart
    /\ command' = "none" /\ pc' = 1 /\ exit' = "none"
    /\ args' = NoArgs /\ opened' = NoOpened /\ before' = "absent"

CliInit ==
    /\ Init
    /\ command = "none" /\ pc = 1 /\ exit = "none"
    /\ args = NoArgs
    /\ opened = NoOpened
    /\ before = "absent"

CliNext ==
    \/ \E c \in Command \union {"own"} : Start(c)
    \/ Step
    \/ Parse
    \/ OwnCall
    \/ CrashDuring
    \/ End

\* The clients use the API as InstallerApi allows: CliSpec implements Spec.
CliSpec == CliInit /\ [][CliNext]_allVars

-----------------------------------------------------------------------------
(* Properties *)

(***************************************************************************)
(* How a command can bring the process down, whatever is in its            *)
(* directories: never through a null repository, because what it needs is  *)
(* open when it calls Execute; through an assertion only in a repair, or   *)
(* in a validate of a deployed repository. If it dies otherwise the target *)
(* holds a database with its schema, which install has begun from nothing  *)
(* and configure has found, and validate and repair leave the database as  *)
(* it was (main.cpp ConfigureOrInstall, Validate, Repair; Kyla.cpp         *)
(* kylaExecute).                                                           *)
(***************************************************************************)
CommandFaultsExplained ==
    command \in Command /\ fault # "none" =>
        /\ fault # "null"
        /\ fault = "assertion" =>
              command = "repair" \/ (command = "validate" /\ args.target \notin PackedPath)
        /\ fault = "died" =>
              /\ disk[args.target] \in HasSchema
              /\ command = "install" => before \in {"absent", "empty"}
              /\ command = "configure" => before \in HasSchema
        /\ command \notin Installs => disk[args.target] = before

(***************************************************************************)
(* What an exit code of 0 says: the last Configure of the target was that  *)
(* of the command and ended by itself; install began it where there was no *)
(* database, configure only where there was one, although Kyla.h:106-107   *)
(* promises of install that it overwrites (see CreateOverwrites); validate *)
(* has read every row of a database and none was reported bad (main.cpp    *)
(* Validate, ConfigureOrInstall). Of writes that got lost it says nothing. *)
(***************************************************************************)
ExitOkMeansDone ==
    Finished /\ exit = "Ok" =>
        /\ command \in Installs => disk[args.target] = "clean"
        /\ command = "install" => before \in {"absent", "empty"}
        /\ command = "configure" => before \in HasSchema
        /\ command = "validate" => disk[args.target] \in HasSchema /\ reports = "ok"

=============================================================================
