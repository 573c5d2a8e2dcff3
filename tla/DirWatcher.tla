----------------------------- MODULE DirWatcher -----------------------------
(***************************************************************************)
(* The directory watcher (internal/dirwatcher): one inotify queue and one   *)
(* dispatcher goroutine for all the users of watched directories.  main     *)
(* sets the users up one after the other while the dispatcher already runs  *)
(* (server.go:166-204).  What a user does with an event is in CertWatcher   *)
(* and LogControl, which extend this module; Watchers puts them together.   *)
(***************************************************************************)
EXTENDS Naturals, Sequences, FiniteSets

CONSTANTS
    Users,     \* whoever calls WatchDirectory
    Dirs,      \* watched directories
    DirOf,     \* the directory of each user
    Before,    \* users main sets up before a user
    MaxEvents, \* events the kernel keeps unread
    None

(* handlers is keyed by directory: a second user of a directory would take  *)
(* the events of the first.  The chart mounts each in a directory of its    *)
(* own (deployment.yaml).                                                   *)
ASSUME DirsAssumption ==
    /\ DirOf \in [Users -> Dirs]
    /\ \A u, v \in Users : DirOf[u] = DirOf[v] => u = v
    /\ Before \in [Users -> SUBSET Users]
ASSUME EventsAssumption == MaxEvents \in Nat \ {0}

VARIABLES
    stage,    \* where main is in setting up each user
    watched,  \* directories with an inotify watch
    handlers, \* dirwatcher.handlers
    events,   \* events no one has read, oldest first
    running   \* the event whose handler runs, with the handler's locals

dispatchVars == <<watched, handlers>>

Files == {"..data", "file", "key"} \* "file" is the certificate or log control file

Event == [dir : Dirs, file : Files]
Call  == [user : Users, file : Files, pc : {"check", "read", "next", "set"}]

ASSUME NobodyAssumption == None \notin Users \cup Call

StageIs(u, s) == stage[u] = s
StageGoes(u, s) == stage' = [stage EXCEPT ![u] = s]
Turn(u) == \A v \in Before[u] : StageIs(v, "done")

DirInit ==
    /\ stage = [u \in Users |-> "new"]
    /\ watched = {}
    /\ handlers = [d \in Dirs |-> None]
    /\ events = << >>
    /\ running = None

-----------------------------------------------------------------------------
(* WatchDirectory: first the watch, then the entry in handlers.             *)

AddWatch(u) ==
    /\ StageIs(u, "watch")
    /\ watched' = watched \cup {DirOf[u]}
    /\ StageGoes(u, "register")
    /\ UNCHANGED <<handlers, events, running>>

Register(u) ==
    /\ StageIs(u, "register")
    /\ handlers' = [handlers EXCEPT ![DirOf[u]] = u]
    /\ StageGoes(u, "done")
    /\ UNCHANGED <<watched, events, running>>

(* A file of the user's directory changed.  An event equal to the last      *)
(* unread one is merged with it; when the queue is full the kernel drops    *)
(* the event, and the overflow error is only logged (dirwatcher.go:61).     *)
Merged(e) == events # << >> /\ events[Len(events)] = e
Lost(e) == ~Merged(e) /\ Len(events) = MaxEvents

(* Variant: the queue has no limit.                                         *)
NotifyAlways(u, file) ==
    events' = IF DirOf[u] \notin watched THEN events
              ELSE Append(events, [dir |-> DirOf[u], file |-> file])

Notify(u, file) ==
    LET e == [dir |-> DirOf[u], file |-> file] IN
    events' = IF DirOf[u] \notin watched \/ Merged(e) \/ Lost(e) THEN events
              ELSE Append(events, e)

(* Somebody will be told of the change.                                     *)
Hears(u, file) ==
    /\ handlers[DirOf[u]] = u
    /\ ~Lost([dir |-> DirOf[u], file |-> file])

(* Variant: the dispatcher drains the queue and handles the last event.     *)
DispatchLast ==
    /\ running = None
    /\ events # << >>
    /\ events' = << >>
    /\ LET e == events[Len(events)] IN
       running' = IF handlers[e.dir] = None THEN None
                  ELSE [user |-> handlers[e.dir], file |-> e.file, pc |-> "check"]
    /\ UNCHANGED <<stage, dispatchVars>>

(* The dispatcher's loop.  An event without a handler is only logged.       *)
Dispatch ==
    /\ running = None
    /\ events # << >>
    /\ events' = Tail(events)
    /\ LET e == Head(events) IN
       running' = IF handlers[e.dir] = None THEN None
                  ELSE [user |-> handlers[e.dir], file |-> e.file, pc |-> "check"]
    /\ UNCHANGED <<stage, dispatchVars>>

-----------------------------------------------------------------------------
(* The handler of user u *)

Handling(u, pc) == running # None /\ running.user = u /\ running.pc = pc
HandlerGoes(pc) == running' = [running EXCEPT !.pc = pc]
HandlerReturns == running' = None

(* A handler looks for the switch of ..data in a mounted directory, and for *)
(* a change of its one file elsewhere (certwatcher.go:130-139,              *)
(* logging.go:142-160).                                                     *)
Wanted(file, plain) == file = IF plain THEN "file" ELSE "..data"

Quiet(u, plain) ==
    /\ \A i \in DOMAIN events :
           events[i].dir = DirOf[u] => ~Wanted(events[i].file, plain)
    /\ running # None => running.user # u

DirTypeOK ==
    /\ stage \in [Users -> {"new", "wait", "read", "next", "set", "stat",
                            "watch", "register", "done"}]
    /\ watched \subseteq Dirs
    /\ handlers \in [Dirs -> Users \cup {None}]
    /\ events \in Seq(Event) /\ Len(events) <= MaxEvents
    /\ running \in Call \cup {None}

=============================================================================
