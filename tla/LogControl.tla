----------------------------- MODULE LogControl -----------------------------
(***************************************************************************)
(* Log control (cmd/eric-odp-factory/logging.go): the log level and the     *)
(* switch of the debug endpoint follow a file that the dispatcher of        *)
(* DirWatcher tells of.  The file is abstracted to what it makes of the     *)
(* level: debug, info (also for a severity that cannot be decoded, which    *)
(* leaves the zero level), or nothing (it is missing, not JSON, lacks a     *)
(* field or has no entry for this container).                               *)
(***************************************************************************)
EXTENDS DirWatcher

CONSTANTS
    Log,       \* the user that is log control
    LogMounted \* is the file in a mounted ConfigMap

ASSUME LogAssumption == Log \in Users /\ LogMounted \in BOOLEAN

VARIABLES
    logFile,           \* the content of the file
    ctlFileInPlainDir,
    programLevel, debugEnabled,
    newLevel,          \* local of reloadConfiguration
    logHeard           \* history: the dispatcher will be told of the latest change

logVars == <<logFile, ctlFileInPlainDir, programLevel, debugEnabled, newLevel, logHeard>>

Levels   == {"info", "debug"}
Contents == Levels \cup {"nothing"}

LogInit ==
    /\ logFile \in Contents
    /\ ctlFileInPlainDir = FALSE
    /\ programLevel = "info" /\ debugEnabled = FALSE
    /\ newLevel = "info"
    /\ logHeard = FALSE

-----------------------------------------------------------------------------
(* reloadConfiguration, in main (by: the stage) or in the dispatcher (by:   *)
(* the handler's pc): read the file, set the level, then debugEnabled.      *)

ReadFile ==
    /\ newLevel' = IF logFile = "nothing" THEN newLevel ELSE logFile
    /\ UNCHANGED <<logFile, ctlFileInPlainDir, programLevel, debugEnabled, logHeard>>

SetLevel ==
    /\ programLevel' = newLevel
    /\ UNCHANGED <<logFile, ctlFileInPlainDir, debugEnabled, newLevel, logHeard>>

(* Variant: the debug endpoint is switched on and never off.                *)
SetDebugOnly ==
    /\ debugEnabled' = (debugEnabled \/ newLevel = "debug")
    /\ newLevel' = "info"
    /\ UNCHANGED <<logFile, ctlFileInPlainDir, programLevel, logHeard>>

SetDebug ==
    /\ debugEnabled' = (newLevel = "debug")
    /\ newLevel' = "info"
    /\ UNCHANGED <<logFile, ctlFileInPlainDir, programLevel, logHeard>>

initLogging ==
    /\ \/ /\ StageIs(Log, "new") /\ Turn(Log)
          /\ ReadFile
          /\ StageGoes(Log, IF logFile = "nothing" THEN "stat" ELSE "next")
       \/ StageIs(Log, "next") /\ SetLevel /\ StageGoes(Log, "set")
       \/ StageIs(Log, "set") /\ SetDebug /\ StageGoes(Log, "stat")
       \/ /\ StageIs(Log, "stat")
          /\ ctlFileInPlainDir' = ~LogMounted
          /\ StageGoes(Log, "watch")
          /\ UNCHANGED <<logFile, programLevel, debugEnabled, newLevel, logHeard>>
    /\ UNCHANGED <<dispatchVars, events, running>>

RegisterLog == (AddWatch(Log) \/ Register(Log)) /\ UNCHANGED logVars

logHandler ==
    /\ \/ /\ Handling(Log, "check")
          /\ IF Wanted(running.file, ctlFileInPlainDir) THEN HandlerGoes("read")
                                                        ELSE HandlerReturns
          /\ UNCHANGED logVars
       \/ /\ Handling(Log, "read")
          /\ ReadFile
          /\ IF logFile = "nothing" THEN HandlerReturns ELSE HandlerGoes("next")
       \/ Handling(Log, "next") /\ SetLevel /\ HandlerGoes("set")
       \/ Handling(Log, "set") /\ SetDebug /\ HandlerReturns
    /\ UNCHANGED <<stage, dispatchVars, events>>

(* The ConfigMap is edited, or the file is written.                         *)
LogFile == IF LogMounted THEN "..data" ELSE "file"

EditLogFile ==
    /\ logFile' \in Contents \ {logFile}
    /\ Notify(Log, LogFile)
    /\ logHeard' = Hears(Log, LogFile)
    /\ UNCHANGED <<stage, dispatchVars, running>>
    /\ UNCHANGED <<ctlFileInPlainDir, programLevel, debugEnabled, newLevel>>

LogTypeOK ==
    /\ logFile \in Contents
    /\ ctlFileInPlainDir \in BOOLEAN
    /\ programLevel \in Levels /\ newLevel \in Levels
    /\ debugEnabled \in BOOLEAN
    /\ logHeard \in BOOLEAN

-----------------------------------------------------------------------------
(* Properties *)

(* "the callback will set the appropriate log level" (doc/logging.md:35-36):*)
(* once log control is quiet, the level is that of the last readable file   *)
(* the dispatcher was told of, and the debug endpoint answers at no other   *)
(* level than debug (logging.go:76, 118-160).                               *)
LevelFollowsFile ==
    Quiet(Log, ctlFileInPlainDir) /\ stage[Log] \in {"new", "done"} =>
        /\ logHeard /\ logFile # "nothing" => programLevel = logFile
        /\ debugEnabled = (programLevel = "debug")

=============================================================================
