--------------------------- MODULE WatchersProofs ---------------------------
(***************************************************************************)
(* Proofs about Watchers, for any number of certificate watchers, versions  *)
(* and queued events.                                                       *)
(***************************************************************************)
EXTENDS Watchers, TLAPS

(* An event waits that says file f of the directory of u changed.           *)
Pending(u, f) == \E i \in DOMAIN events : events[i] = [dir |-> DirOf[u], file |-> f]

RunsFor(u) == running # None /\ running.user = u

(* A directory with a handler is watched, and its user is set up.           *)
DirInv ==
    /\ \A u \in Users : stage[u] \in {"register", "done"} => DirOf[u] \in watched
    /\ \A u \in Users : handlers[DirOf[u]] = u => StageIs(u, "done")
    /\ \A d \in Dirs : handlers[d] # None => DirOf[handlers[d]] = d
    /\ running # None => StageIs(running.user, "done")

(* What a watcher that was told of the latest change still has to do.       *)
CertDue(w) ==
    \/ Pending(w, IF plainDir[w] THEN "file" ELSE "..data")
    \/ RunsFor(w) /\ running.pc = "check" /\ Wanted(running.file, plainDir[w])
    \/ RunsFor(w) /\ running.pc = "read"
    \/ RunsFor(w) /\ running.pc \in {"next", "set"} /\ reloaded[w] = disk[w].cert
    \/ tlsCert[w] = disk[w].cert

CertGood(w) ==
    /\ w \in Mounted => disk[w].cert = disk[w].key \/ (disk[w].cert = 1 /\ disk[w].key = 0)
    /\ tlsCert[w] <= disk[w].cert
    /\ loaded[w] <= disk[w].cert
    /\ reloaded[w] <= disk[w].cert
    /\ stage[w] \in {"new", "wait", "read", "next", "set"} => tlsCert[w] = 0
    /\ RunsFor(w) /\ running.pc \in {"next", "set"} => tlsCert[w] <= reloaded[w]
    /\ heard[w] => handlers[DirOf[w]] = w
    /\ heard[w] /\ Complete(w) /\ KnowsDir(w) => CertDue(w)

LogSets == StageIs(Log, "set") \/ Handling(Log, "set")

LogDue ==
    \/ Pending(Log, LogFile)
    \/ RunsFor(Log) /\ running.pc = "check" /\ running.file = LogFile
    \/ RunsFor(Log) /\ running.pc = "read"
    \/ RunsFor(Log) /\ running.pc = "next" /\ newLevel = logFile
    \/ programLevel = logFile /\ ~Handling(Log, "next")

LogGood ==
    /\ stage[Log] \in {"watch", "register", "done"} => ctlFileInPlainDir = ~LogMounted
    /\ LogSets => programLevel = newLevel
    /\ ~LogSets => debugEnabled = (programLevel = "debug")
    /\ logHeard => handlers[DirOf[Log]] = Log
    /\ logHeard /\ logFile # "nothing" => LogDue

IInv == TypeOK /\ DirInv /\ (\A w \in Certs : CertGood(w)) /\ LogGood

-----------------------------------------------------------------------------
(* The queue of events *)

LEMMA NotifyKeeps ==
    ASSUME events \in Seq(Event), Len(events) <= MaxEvents,
           NEW u \in Users, NEW file \in Files, Notify(u, file)
    PROVE  /\ events' \in Seq(Event) /\ Len(events') <= MaxEvents
           /\ \A v \in Users, f \in Files : Pending(v, f) => Pending(v, f)'
           /\ DirOf[u] \in watched /\ ~Lost([dir |-> DirOf[u], file |-> file])
                => Pending(u, file)'
<1> DEFINE e == [dir |-> DirOf[u], file |-> file]
<1>1. e \in Event BY DirsAssumption DEF Event
<1>2. CASE events' = events
  <2>1. Merged(e) => Pending(u, file)
    <3>1. Merged(e) => Len(events) \in DOMAIN events /\ events[Len(events)] = e
      BY DEF Merged
    <3> QED BY <3>1 DEF Pending
  <2>2. \A v \in Users, f \in Files : Pending(v, f) <=> Pending(v, f)' BY <1>2 DEF Pending
  <2>3. DirOf[u] \in watched /\ ~Lost(e) => Merged(e)
    <3> SUFFICES ASSUME DirOf[u] \in watched, ~Lost(e), ~Merged(e) PROVE FALSE OBVIOUS
    <3>1. events' = Append(events, e) BY DEF Notify
    <3>2. Len(events') = Len(events) + 1 BY <1>1, <3>1
    <3> QED BY <1>2, <3>2
  <2> QED BY <1>2, <2>1, <2>2, <2>3
<1>3. CASE events' # events
  <2>1. events' = Append(events, e) /\ ~Lost(e) /\ ~Merged(e) BY <1>3 DEF Notify
  <2>2. /\ events' \in Seq(Event) /\ Len(events') = Len(events) + 1
        /\ \A i \in DOMAIN events : i \in DOMAIN events' /\ events'[i] = events[i]
        /\ Len(events') \in DOMAIN events' /\ events'[Len(events')] = e
    BY <1>1, <2>1
  <2>3. Len(events') <= MaxEvents
    <3>1. Len(events) # MaxEvents BY <2>1 DEF Lost
    <3> QED BY <2>2, <3>1, EventsAssumption
  <2>4. \A v \in Users, f \in Files : Pending(v, f) => Pending(v, f)' BY <2>2 DEF Pending
  <2>5. Pending(u, file)' BY <2>2 DEF Pending
  <2> QED BY <2>2, <2>3, <2>4, <2>5
<1> QED BY <1>2, <1>3

LEMMA DispatchTakesHead ==
    ASSUME events \in Seq(Event), Len(events) <= MaxEvents, Dispatch
    PROVE  /\ events' \in Seq(Event) /\ Len(events') <= MaxEvents
           /\ Head(events) \in Event
           /\ \A v \in Users, f \in Files :
                 Pending(v, f) => Pending(v, f)' \/ Head(events) = [dir |-> DirOf[v], file |-> f]
<1>1. events # << >> /\ events' = Tail(events) BY DEF Dispatch
<1>2. /\ Head(events) = events[1] /\ Head(events) \in Event
      /\ events' \in Seq(Event) /\ Len(events') = Len(events) - 1
      /\ \A i \in 1..Len(events') : events'[i] = events[i + 1]
  BY <1>1
<1>3. Len(events') <= MaxEvents BY <1>2, EventsAssumption
<1>4. ASSUME NEW v \in Users, NEW f \in Files, Pending(v, f),
             Head(events) # [dir |-> DirOf[v], file |-> f]
      PROVE  Pending(v, f)'
  <2>1. PICK i \in DOMAIN events : events[i] = [dir |-> DirOf[v], file |-> f]
    BY <1>4 DEF Pending
  <2>2. i \in 1..Len(events) /\ i # 1 BY <1>2, <1>4, <2>1
  <2>3. i - 1 \in 1..Len(events') /\ events'[i - 1] = events[i]
    BY <1>2, <2>2
  <2>4. i - 1 \in DOMAIN events' BY <1>2, <2>3
  <2> QED BY <2>1, <2>3, <2>4 DEF Pending
<1> QED BY <1>2, <1>3, <1>4

-----------------------------------------------------------------------------
(* A step that does not concern a user leaves what is said of it.           *)

Apart(u) ==
    /\ stage'[u] = stage[u]
    /\ handlers'[DirOf[u]] = handlers[DirOf[u]]
    /\ \A f \in Files : Pending(u, f) => Pending(u, f)'
    /\ running' = running \/ (~RunsFor(u) /\ ~RunsFor(u)')

LEMMA CertFrame ==
    ASSUME NEW w \in Certs, CertGood(w), Apart(w),
           disk'[w] = disk[w], plainDir'[w] = plainDir[w], tlsCert'[w] = tlsCert[w],
           loaded'[w] = loaded[w], reloaded'[w] = reloaded[w], heard'[w] = heard[w]
    PROVE  CertGood(w)'
<1>1. RunsFor(w)' => RunsFor(w) /\ running' = running BY DEF Apart, RunsFor
<1>2. RunsFor(w) => RunsFor(w)' /\ running' = running BY DEF Apart, RunsFor
<1>3. CertDue(w) => CertDue(w)'
  BY <1>2 DEF CertDue, Apart, Files, Wanted
<1> QED BY <1>1, <1>3 DEF CertGood, Apart, Complete, KnowsDir

LEMMA LogFrame ==
    ASSUME LogGood, Apart(Log), UNCHANGED logVars
    PROVE  LogGood'
<1>1. RunsFor(Log)' => RunsFor(Log) /\ running' = running BY DEF Apart, RunsFor
<1>2. RunsFor(Log) => RunsFor(Log)' /\ running' = running BY DEF Apart, RunsFor
<1>3. \A pc : Handling(Log, pc)' <=> Handling(Log, pc) BY <1>1, <1>2 DEF Handling, RunsFor
<1>4. LogDue => LogDue' BY <1>2, <1>3 DEF LogDue, Apart, Files, LogFile, logVars
<1>5. LogSets' <=> LogSets BY <1>3 DEF LogSets, Apart, StageIs
<1> QED BY <1>4, <1>5 DEF LogGood, Apart, logVars

-----------------------------------------------------------------------------
(* main sets up the users *)

LEMMA StageMoves ==
    ASSUME DirTypeOK, DirInv, NEW u \in Users, NEW s \in {"wait", "read", "next", "set", "stat", "watch"},
           stage[u] \notin {"register", "done"}, StageGoes(u, s),
           UNCHANGED <<dispatchVars, events, running>>
    PROVE  /\ DirTypeOK' /\ DirInv' /\ ~RunsFor(u) /\ handlers[DirOf[u]] # u
           /\ \A v \in Users \ {u} : Apart(v)
<1>1. /\ stage' = [stage EXCEPT ![u] = s] /\ watched' = watched /\ handlers' = handlers
      /\ events' = events /\ running' = running
  BY DEF StageGoes, dispatchVars
<1>2. \A v \in Users : stage'[v] = IF v = u THEN s ELSE stage[v] BY <1>1 DEF DirTypeOK
<1>3. DirTypeOK' BY <1>1 DEF DirTypeOK
<1>4. handlers[DirOf[u]] # u /\ ~RunsFor(u) BY DEF DirInv, StageIs, RunsFor
<1>5. DirInv' 
  <2>1. \A v \in Users : stage'[v] \in {"register", "done"} => DirOf[v] \in watched'
    BY <1>1, <1>2 DEF DirInv
  <2>2. \A v \in Users : handlers'[DirOf[v]] = v => StageIs(v, "done")'
    BY <1>1, <1>2, <1>4 DEF DirInv, StageIs
  <2>3. \A d \in Dirs : handlers'[d] # None => DirOf[handlers'[d]] = d
    BY <1>1 DEF DirInv
  <2>4. running' # None => StageIs(running.user, "done")'
    <3>1. running # None => running.user \in Users /\ running.user # u
      BY <1>4 DEF DirTypeOK, Call, RunsFor
    <3> QED BY <1>1, <1>2, <3>1 DEF DirInv, StageIs
  <2> QED BY <1>1, <2>1, <2>2, <2>3, <2>4 DEF DirInv
<1>6. \A v \in Users \ {u} : Apart(v)
  BY <1>1, <1>2 DEF Apart, Pending
<1> QED BY <1>3, <1>4, <1>5, <1>6

LEMMA WatchDirectoryKeeps ==
    ASSUME DirTypeOK, DirInv, NEW u \in Users, AddWatch(u) \/ Register(u)
    PROVE  /\ DirTypeOK' /\ DirInv' /\ ~RunsFor(u) /\ handlers[DirOf[u]] # u
           /\ \A v \in Users \ {u} : Apart(v)
           /\ UNCHANGED <<events, running>>
           /\ stage[u] \in {"watch", "register"} /\ stage'[u] \in {"register", "done"}
<1>1. CASE AddWatch(u)
  <2>1. /\ stage[u] = "watch" /\ stage' = [stage EXCEPT ![u] = "register"]
        /\ watched' = watched \cup {DirOf[u]} /\ handlers' = handlers
        /\ events' = events /\ running' = running
    BY <1>1 DEF AddWatch, StageIs, StageGoes
  <2>2. \A v \in Users : stage'[v] = IF v = u THEN "register" ELSE stage[v]
    BY <2>1 DEF DirTypeOK
  <2>3. DirTypeOK' BY <2>1, DirsAssumption DEF DirTypeOK
  <2>4. handlers[DirOf[u]] # u /\ ~RunsFor(u) BY <2>1 DEF DirInv, StageIs, RunsFor
  <2>5. DirInv'
    <3>1. \A v \in Users : stage'[v] \in {"register", "done"} => DirOf[v] \in watched'
      BY <2>1, <2>2 DEF DirInv
    <3>2. \A v \in Users : handlers'[DirOf[v]] = v => StageIs(v, "done")'
      BY <2>1, <2>2, <2>4 DEF DirInv, StageIs
    <3>3. \A d \in Dirs : handlers'[d] # None => DirOf[handlers'[d]] = d
      BY <2>1 DEF DirInv
    <3>4. running' # None => StageIs(running.user, "done")'
      <4>1. running # None => running.user \in Users /\ running.user # u
        BY <2>4 DEF DirTypeOK, Call, RunsFor
      <4> QED BY <2>1, <2>2, <4>1 DEF DirInv, StageIs
    <3> QED BY <2>1, <3>1, <3>2, <3>3, <3>4 DEF DirInv
  <2>6. \A v \in Users \ {u} : Apart(v) BY <2>1, <2>2 DEF Apart, Pending
  <2> QED BY <2>1, <2>2, <2>3, <2>4, <2>5, <2>6
<1>2. CASE Register(u)
  <2>1. /\ stage[u] = "register" /\ stage' = [stage EXCEPT ![u] = "done"]
        /\ handlers' = [handlers EXCEPT ![DirOf[u]] = u] /\ watched' = watched
        /\ events' = events /\ running' = running
    BY <1>2 DEF Register, StageIs, StageGoes
  <2>2. /\ \A v \in Users : stage'[v] = IF v = u THEN "done" ELSE stage[v]
        /\ \A d \in Dirs : handlers'[d] = IF d = DirOf[u] THEN u ELSE handlers[d]
    BY <2>1 DEF DirTypeOK
  <2>3. DirTypeOK' BY <2>1, DirsAssumption DEF DirTypeOK
  <2>4. handlers[DirOf[u]] # u /\ ~RunsFor(u) BY <2>1 DEF DirInv, StageIs, RunsFor
  <2>d. \A v \in Users : DirOf[v] \in Dirs /\ (DirOf[v] = DirOf[u] => v = u) BY DirsAssumption
  <2>5. DirInv'
    <3>1. \A v \in Users : stage'[v] \in {"register", "done"} => DirOf[v] \in watched'
      BY <2>1, <2>2 DEF DirInv
    <3>2. \A v \in Users : handlers'[DirOf[v]] = v => StageIs(v, "done")'
      BY <2>2, <2>d DEF DirInv, StageIs
    <3>3. \A d \in Dirs : handlers'[d] # None => DirOf[handlers'[d]] = d
      BY <2>2 DEF DirInv
    <3>4. running' # None => StageIs(running.user, "done")'
      <4>1. running # None => running.user \in Users /\ running.user # u
        BY <2>4 DEF DirTypeOK, Call, RunsFor
      <4> QED BY <2>1, <2>2, <4>1 DEF DirInv, StageIs
    <3> QED BY <2>1, <3>1, <3>2, <3>3, <3>4 DEF DirInv
  <2>6. \A v \in Users \ {u} : Apart(v) BY <2>1, <2>2, <2>d DEF Apart, Pending
  <2> QED BY <2>1, <2>2, <2>3, <2>4, <2>5, <2>6
<1> QED BY <1>1, <1>2

(* Who is not set up has no handler, was told of nothing and owes nothing.  *)
LEMMA NotSetUp ==
    ASSUME NEW w \in Certs, CertGood(w), handlers[DirOf[w]] # w
    PROVE  ~heard[w]
BY DEF CertGood

LEMMA NewWatcherKeepsCert ==
    ASSUME CertTypeOK, DirTypeOK, DirInv, NEW w \in Certs, CertGood(w), NewWatcher(w)
    PROVE  /\ DirTypeOK' /\ DirInv' /\ CertTypeOK' /\ CertGood(w)'
           /\ \A v \in Users \ {w} : Apart(v)
           /\ \A v \in Certs \ {w} :
                 /\ disk'[v] = disk[v] /\ plainDir'[v] = plainDir[v] /\ tlsCert'[v] = tlsCert[v]
                 /\ loaded'[v] = loaded[v] /\ reloaded'[v] = reloaded[v] /\ heard'[v] = heard[v]
<1>w. w \in Users BY CertsAssumption
<1>1. CASE (AddWatch(w) \/ Register(w)) /\ UNCHANGED certVars
  <2>1. /\ DirTypeOK' /\ DirInv' /\ ~RunsFor(w) /\ ~heard[w]
        /\ \A v \in Users \ {w} : Apart(v)
        /\ UNCHANGED <<events, running>> /\ stage'[w] \in {"register", "done"}
    BY <1>1, <1>w, WatchDirectoryKeeps, NotSetUp
  <2>2. CertTypeOK' BY <1>1 DEF CertTypeOK, certVars
  <2>3. ~RunsFor(w)' /\ ~heard'[w] BY <1>1, <2>1 DEF RunsFor, certVars
  <2>4. CertGood(w)' BY <1>1, <2>1, <2>3 DEF CertGood, certVars
  <2> QED BY <1>1, <2>1, <2>2, <2>4 DEF certVars
<1>2. CASE StatDataDir(w) \/ waitForCert(w) \/ LoadCert(w) \/ LoadKey(w) \/ SetCert(w)
  <2>1. /\ stage[w] \in {"new", "wait", "read", "next", "set"}
        /\ UNCHANGED <<dispatchVars, events, running>>
        /\ \E s \in {"wait", "read", "next", "set", "watch"} : StageGoes(w, s)
    BY <1>2 DEF StatDataDir, waitForCert, LoadCert, LoadKey, SetCert, StageIs, certVars
  <2>2. PICK s \in {"wait", "read", "next", "set", "watch"} : StageGoes(w, s) BY <2>1
  <2>3. /\ DirTypeOK' /\ DirInv' /\ ~RunsFor(w) /\ ~heard[w]
        /\ \A v \in Users \ {w} : Apart(v)
    BY <1>w, <2>1, <2>2, StageMoves, NotSetUp
  <2>4. ~RunsFor(w)' BY <2>1, <2>3 DEF RunsFor
  <2>5. disk' = disk /\ heard' = heard /\ reloaded' = reloaded
    BY <1>2 DEF StatDataDir, waitForCert, LoadCert, LoadKey, SetCert, certVars
  <2>6. CertTypeOK'
    <3>1. plainDir' \in [Certs -> BOOLEAN]
      BY <1>2 DEF CertTypeOK, StatDataDir, waitForCert, LoadCert, LoadKey, SetCert, certVars
    <3>2. tlsCert' \in [Certs -> Versions]
      BY <1>2 DEF CertTypeOK, StatDataDir, waitForCert, LoadCert, LoadKey, SetCert, certVars
    <3>3. loaded' \in [Certs -> Versions]
      <4>1. 0 \in Versions /\ disk[w].cert \in Versions
        BY CertsAssumption DEF CertTypeOK, Disk, Versions
      <4> QED BY <1>2, <4>1
              DEF CertTypeOK, StatDataDir, waitForCert, LoadCert, LoadKey, SetCert, certVars
    <3> QED BY <2>5, <3>1, <3>2, <3>3 DEF CertTypeOK
  <2>7. /\ tlsCert'[w] <= disk[w].cert /\ loaded'[w] <= disk[w].cert
        /\ stage'[w] \in {"new", "wait", "read", "next", "set"} => tlsCert'[w] = 0
    <3>1. tlsCert[w] = 0 /\ loaded[w] <= disk[w].cert /\ disk[w].cert \in Nat
          /\ loaded[w] \in Nat
      BY <2>1 DEF CertGood, CertTypeOK, Disk, Versions
    <3>2. CASE SetCert(w)
      <4>1. tlsCert'[w] = loaded[w] /\ loaded'[w] = 0 /\ stage'[w] = "watch"
        BY <1>w, <3>2 DEF SetCert, StageGoes, CertTypeOK, DirTypeOK
      <4> QED BY <3>1, <4>1
    <3>3. CASE ~SetCert(w)
      <4>1. tlsCert' = tlsCert
        BY <1>2, <3>3 DEF StatDataDir, waitForCert, LoadCert, LoadKey, certVars
      <4>2. loaded'[w] \in {loaded[w], 0, disk[w].cert}
        BY <1>2, <3>3 DEF StatDataDir, waitForCert, LoadCert, LoadKey, certVars, CertTypeOK
      <4> QED BY <3>1, <4>1, <4>2
    <3> QED BY <3>2, <3>3
  <2>8. CertGood(w)' BY <2>3, <2>4, <2>5, <2>7 DEF CertGood
  <2>9. \A v \in Certs \ {w} :
           plainDir'[v] = plainDir[v] /\ tlsCert'[v] = tlsCert[v] /\ loaded'[v] = loaded[v]
    BY <1>2 DEF StatDataDir, waitForCert, LoadCert, LoadKey, SetCert, certVars, CertTypeOK
  <2> QED BY <2>3, <2>5, <2>6, <2>8, <2>9
<1> QED BY <1>1, <1>2 DEF NewWatcher

(* Log control, when main sets it up *)
LEMMA LogSetUpKeeps ==
    ASSUME DirTypeOK, DirInv, LogTypeOK, LogGood, initLogging \/ RegisterLog
    PROVE  /\ DirTypeOK' /\ DirInv' /\ LogTypeOK' /\ LogGood'
           /\ \A v \in Users \ {Log} : Apart(v)
<1>l. Log \in Users BY LogAssumption
<1>1. CASE RegisterLog
  <2>1. /\ DirTypeOK' /\ DirInv' /\ ~RunsFor(Log) /\ handlers[DirOf[Log]] # Log
        /\ \A v \in Users \ {Log} : Apart(v)
        /\ UNCHANGED <<events, running>>
        /\ stage[Log] \in {"watch", "register"} /\ stage'[Log] \in {"register", "done"}
    BY <1>1, <1>l, WatchDirectoryKeeps DEF RegisterLog
  <2>2. UNCHANGED logVars BY <1>1 DEF RegisterLog
  <2>3. LogTypeOK' BY <2>2 DEF LogTypeOK, logVars
  <2>4. ~logHeard /\ ctlFileInPlainDir = ~LogMounted BY <2>1 DEF LogGood
  <2>5. ~LogSets /\ ~LogSets' BY <2>1 DEF LogSets, StageIs, Handling, RunsFor
  <2>6. LogGood' BY <2>2, <2>4, <2>5 DEF LogGood, logVars
  <2> QED BY <2>1, <2>3, <2>6
<1>2. CASE initLogging
  <2>1. /\ stage[Log] \in {"new", "next", "set", "stat"}
        /\ UNCHANGED <<dispatchVars, events, running, logFile, logHeard>>
        /\ \E s \in {"next", "set", "stat", "watch"} : StageGoes(Log, s)
    BY <1>2 DEF initLogging, StageIs, ReadFile, SetLevel, SetDebug
  <2>2. PICK s \in {"next", "set", "stat", "watch"} : StageGoes(Log, s) BY <2>1
  <2>3. /\ DirTypeOK' /\ DirInv' /\ ~RunsFor(Log) /\ handlers[DirOf[Log]] # Log
        /\ \A v \in Users \ {Log} : Apart(v)
    BY <1>l, <2>1, <2>2, StageMoves
  <2>4. ~logHeard /\ ~logHeard' BY <2>1, <2>3 DEF LogGood
  <2>5. ~Handling(Log, "set") /\ ~Handling(Log, "set")' BY <2>1, <2>3 DEF Handling, RunsFor
  <2>6. CASE stage[Log] = "new"
    <3>1. /\ stage'[Log] \in {"stat", "next"}
          /\ newLevel' \in {newLevel, logFile} \cap Levels
          /\ UNCHANGED <<ctlFileInPlainDir, programLevel, debugEnabled>>
      BY <1>2, <1>l, <2>6
         DEF initLogging, StageIs, StageGoes, ReadFile, DirTypeOK, LogTypeOK, Contents
    <3>2. LogTypeOK' BY <2>1, <2>4, <3>1 DEF LogTypeOK
    <3>3. LogGood' BY <2>4, <2>5, <2>6, <3>1 DEF LogGood, LogSets, StageIs
    <3> QED BY <2>3, <3>2, <3>3
  <2>7. CASE stage[Log] = "next"
    <3>1. /\ stage'[Log] = "set" /\ programLevel' = newLevel
          /\ UNCHANGED <<ctlFileInPlainDir, newLevel, debugEnabled>>
      BY <1>2, <1>l, <2>7 DEF initLogging, StageIs, StageGoes, SetLevel, DirTypeOK
    <3>2. LogTypeOK' BY <2>1, <2>4, <3>1 DEF LogTypeOK
    <3>3. LogGood' BY <2>4, <3>1 DEF LogGood, LogSets, StageIs
    <3> QED BY <2>3, <3>2, <3>3
  <2>8. CASE stage[Log] = "set"
    <3>1. /\ stage'[Log] = "stat" /\ debugEnabled' = (newLevel = "debug") /\ newLevel' = "info"
          /\ UNCHANGED <<ctlFileInPlainDir, programLevel>>
      BY <1>2, <1>l, <2>8 DEF initLogging, StageIs, StageGoes, SetDebug, DirTypeOK
    <3>2. LogTypeOK' BY <2>1, <2>4, <3>1 DEF LogTypeOK, Levels
    <3>3. programLevel = newLevel BY <2>8 DEF LogGood, LogSets, StageIs
    <3>4. LogGood' BY <2>4, <2>5, <3>1, <3>3 DEF LogGood, LogSets, StageIs
    <3> QED BY <2>3, <3>2, <3>4
  <2>9. CASE stage[Log] = "stat"
    <3>1. /\ stage'[Log] = "watch" /\ ctlFileInPlainDir' = ~LogMounted
          /\ UNCHANGED <<newLevel, programLevel, debugEnabled>>
      BY <1>2, <1>l, <2>9 DEF initLogging, StageIs, StageGoes, DirTypeOK
    <3>2. LogTypeOK' BY <2>1, <2>4, <3>1, LogAssumption DEF LogTypeOK
    <3>3. LogGood' BY <2>4, <2>5, <2>9, <3>1 DEF LogGood, LogSets, StageIs
    <3> QED BY <2>3, <3>2, <3>3
  <2> QED BY <2>1, <2>6, <2>7, <2>8, <2>9
<1> QED BY <1>1, <1>2

-----------------------------------------------------------------------------
(* The dispatcher *)

LEMMA DispatchKeeps ==
    ASSUME DirTypeOK, DirInv, Dispatch
    PROVE  /\ DirTypeOK' /\ DirInv'
           /\ UNCHANGED <<stage, handlers>>
           /\ \A u \in Users : ~RunsFor(u)
           /\ \A u \in Users, f \in Files : handlers[DirOf[u]] = u =>
                 \/ Pending(u, f) => Pending(u, f)'
                 \/ RunsFor(u)' /\ running'.pc = "check" /\ running'.file = f
           /\ running' # None => running'.pc = "check"
<1> DEFINE e == Head(events)
<1>1. /\ running = None /\ UNCHANGED <<stage, watched, handlers>>
      /\ running' = IF handlers[e.dir] = None THEN None
                    ELSE [user |-> handlers[e.dir], file |-> e.file, pc |-> "check"]
  BY DEF Dispatch, dispatchVars
<1>2. /\ events' \in Seq(Event) /\ Len(events') <= MaxEvents /\ e \in Event
      /\ \A v \in Users, f \in Files :
            Pending(v, f) => Pending(v, f)' \/ e = [dir |-> DirOf[v], file |-> f]
  BY DispatchTakesHead DEF DirTypeOK
<1> HIDE DEF e
<1>3. e.dir \in Dirs /\ e.file \in Files /\ handlers[e.dir] \in Users \cup {None}
  BY <1>2 DEF Event, DirTypeOK
<1>4. CASE handlers[e.dir] = None
  <2>1. running' = None BY <1>1, <1>4
  <2>2. DirTypeOK' BY <1>1, <1>2, <2>1 DEF DirTypeOK
  <2>3. DirInv' BY <1>1, <2>1 DEF DirInv, StageIs
  <2>4. ASSUME NEW u \in Users, NEW f \in Files, handlers[DirOf[u]] = u, Pending(u, f)
        PROVE  Pending(u, f)'
    <3>1. e # [dir |-> DirOf[u], file |-> f] BY <1>4, <2>4, NobodyAssumption
    <3> QED BY <1>2, <2>4, <3>1
  <2> QED BY <1>1, <2>1, <2>2, <2>3, <2>4 DEF RunsFor
<1>5. CASE handlers[e.dir] # None
  <2> DEFINE h == handlers[e.dir]
  <2>1. running' = [user |-> h, file |-> e.file, pc |-> "check"] /\ h \in Users
    BY <1>1, <1>3, <1>5
  <2>2. running' \in Call BY <1>3, <2>1 DEF Call
  <2>3. running' # None BY <2>2, NobodyAssumption
  <2>4. DirOf[h] = e.dir BY <1>3, <1>5 DEF DirInv
  <2>5. handlers[DirOf[h]] = h BY <2>4
  <2> HIDE DEF h
  <2>6. StageIs(h, "done") BY <2>1, <2>5 DEF DirInv
  <2>7. DirTypeOK' BY <1>1, <1>2, <2>2 DEF DirTypeOK
  <2>8. DirInv' BY <1>1, <2>1, <2>6 DEF DirInv, StageIs
  <2>9. ASSUME NEW u \in Users, NEW f \in Files, handlers[DirOf[u]] = u,
               Pending(u, f), ~Pending(u, f)'
        PROVE  running'.user = u /\ running'.file = f
    <3>1. e = [dir |-> DirOf[u], file |-> f] BY <1>2, <2>9
    <3>2. DirOf[h] = DirOf[u] /\ e.file = f BY <2>4, <3>1
    <3> QED BY <2>1, <2>5, <2>9, <3>2
  <2> QED BY <1>1, <2>1, <2>3, <2>5, <2>7, <2>8, <2>9 DEF RunsFor
<1> QED BY <1>4, <1>5

LEMMA DispatchKeepsCert ==
    ASSUME DirTypeOK, DirInv, Dispatch, UNCHANGED certVars, NEW w \in Certs, CertGood(w)
    PROVE  CertGood(w)'
<1>w. w \in Users BY CertsAssumption
<1>a. /\ UNCHANGED <<stage, handlers>> /\ ~RunsFor(w)
      /\ running' # None => running'.pc = "check"
  BY <1>w, DispatchKeeps
<1>d. ASSUME NEW f \in Files, handlers[DirOf[w]] = w
      PROVE  \/ Pending(w, f) => Pending(w, f)'
             \/ RunsFor(w)' /\ running'.pc = "check" /\ running'.file = f
  BY <1>w, <1>d, DispatchKeeps
<1>1. /\ UNCHANGED <<stage, handlers>> /\ ~RunsFor(w)
      /\ RunsFor(w)' => running'.pc = "check"
      /\ \A f \in Files : handlers[DirOf[w]] = w =>
                 \/ Pending(w, f) => Pending(w, f)'
                 \/ RunsFor(w)' /\ running'.pc = "check" /\ running'.file = f
  BY <1>a, <1>d DEF RunsFor
<1>2. ASSUME handlers[DirOf[w]] = w, CertDue(w) PROVE CertDue(w)'
  <2> DEFINE f == IF plainDir[w] THEN "file" ELSE "..data"
  <2>1. f \in Files /\ plainDir' = plainDir /\ tlsCert' = tlsCert /\ disk' = disk
    BY DEF Files, certVars
  <2>2. Pending(w, f) \/ tlsCert[w] = disk[w].cert BY <1>1, <1>2 DEF CertDue
  <2>3. CASE tlsCert[w] = disk[w].cert BY <2>1, <2>3 DEF CertDue
  <2>4. CASE Pending(w, f)'
    <3>1. Pending(w, IF plainDir[w] THEN "file" ELSE "..data")' BY <2>1, <2>4
    <3> QED BY <3>1 DEF CertDue
  <2>5. CASE RunsFor(w)' /\ running'.pc = "check" /\ running'.file = f
    BY <2>1, <2>5 DEF CertDue, Wanted
  <2> QED BY <1>1, <1>2, <2>1, <2>2, <2>3, <2>4, <2>5
<1> QED BY <1>1, <1>2 DEF CertGood, certVars, Complete, KnowsDir

LEMMA DispatchKeepsLog ==
    ASSUME DirTypeOK, DirInv, Dispatch, UNCHANGED logVars, LogGood
    PROVE  LogGood'
<1>a. /\ UNCHANGED <<stage, handlers>> /\ ~RunsFor(Log)
      /\ running' # None => running'.pc = "check"
  BY LogAssumption, DispatchKeeps
<1>d. ASSUME NEW f \in Files, handlers[DirOf[Log]] = Log
      PROVE  \/ Pending(Log, f) => Pending(Log, f)'
             \/ RunsFor(Log)' /\ running'.pc = "check" /\ running'.file = f
  BY LogAssumption, <1>d, DispatchKeeps
<1>1. /\ UNCHANGED <<stage, handlers>> /\ ~RunsFor(Log)
      /\ RunsFor(Log)' => running'.pc = "check"
      /\ \A f \in Files : handlers[DirOf[Log]] = Log =>
                 \/ Pending(Log, f) => Pending(Log, f)'
                 \/ RunsFor(Log)' /\ running'.pc = "check" /\ running'.file = f
  BY <1>a, <1>d DEF RunsFor
<1>2. \A pc \in {"next", "set"} : ~Handling(Log, pc) /\ ~Handling(Log, pc)'
  BY <1>1 DEF Handling, RunsFor
<1>3. ASSUME handlers[DirOf[Log]] = Log, LogDue PROVE LogDue'
  <2>1. LogFile \in Files BY DEF LogFile, Files
  <2>2. Pending(Log, LogFile) \/ programLevel = logFile BY <1>1, <1>3 DEF LogDue
  <2>3. programLevel' = programLevel /\ logFile' = logFile BY DEF logVars
  <2> QED BY <1>1, <1>2, <1>3, <2>1, <2>2, <2>3 DEF LogDue
<1>4. LogSets' <=> LogSets BY <1>1, <1>2 DEF LogSets, StageIs
<1> QED BY <1>1, <1>3, <1>4 DEF LogGood, logVars

LEMMA HandlerMoves ==
    ASSUME DirTypeOK, DirInv, NEW u \in Users, RunsFor(u), UNCHANGED <<stage, dispatchVars, events>>,
           HandlerReturns \/ \E pc \in {"read", "next", "set"} : HandlerGoes(pc)
    PROVE  /\ DirTypeOK' /\ DirInv' /\ StageIs(u, "done")
           /\ \A v \in Users \ {u} : Apart(v)
           /\ HandlerReturns => ~RunsFor(u)'
           /\ \A pc \in {"read", "next", "set"} : HandlerGoes(pc) => RunsFor(u)' /\ running'.pc = pc
<1>1. /\ running # None /\ running.user = u /\ running \in Call
      /\ stage' = stage /\ watched' = watched /\ handlers' = handlers /\ events' = events
  BY DEF DirTypeOK, RunsFor, dispatchVars
<1>2. StageIs(u, "done") BY <1>1 DEF DirInv
<1>3. ASSUME NEW pc \in {"read", "next", "set"}, HandlerGoes(pc)
      PROVE  running' \in Call /\ running' # None /\ running'.user = u /\ running'.pc = pc
  <2>1. running' = [running EXCEPT !.pc = pc] BY <1>3 DEF HandlerGoes
  <2>2. running' \in Call /\ running'.user = u /\ running'.pc = pc BY <1>1, <2>1 DEF Call
  <2> QED BY <2>2, NobodyAssumption
<1>4. running' = None \/ (running' \in Call /\ running' # None /\ running'.user = u)
  BY <1>3 DEF HandlerReturns
<1>5. DirTypeOK' BY <1>1, <1>4 DEF DirTypeOK
<1>6. DirInv' BY <1>1, <1>2, <1>4 DEF DirInv, StageIs
<1>7. \A v \in Users \ {u} : Apart(v) BY <1>1, <1>4 DEF Apart, Pending, RunsFor
<1>8. HandlerReturns => ~RunsFor(u)' BY DEF HandlerReturns, RunsFor
<1> QED BY <1>2, <1>3, <1>5, <1>6, <1>7, <1>8 DEF RunsFor

LEMMA certHandlerKeeps ==
    ASSUME DirTypeOK, DirInv, CertTypeOK, NEW w \in Certs, CertGood(w), certHandler(w)
    PROVE  /\ DirTypeOK' /\ DirInv' /\ CertTypeOK' /\ CertGood(w)'
           /\ \A v \in Users \ {w} : Apart(v)
           /\ \A v \in Certs \ {w} :
                 /\ disk'[v] = disk[v] /\ plainDir'[v] = plainDir[v] /\ tlsCert'[v] = tlsCert[v]
                 /\ loaded'[v] = loaded[v] /\ reloaded'[v] = reloaded[v] /\ heard'[v] = heard[v]
<1>w. w \in Users BY CertsAssumption
<1>1. /\ RunsFor(w) /\ UNCHANGED <<stage, dispatchVars, events>>
      /\ disk' = disk /\ plainDir' = plainDir /\ loaded' = loaded /\ heard' = heard
      /\ HandlerReturns \/ \E pc \in {"read", "next", "set"} : HandlerGoes(pc)
  BY DEF certHandler, CheckEvent, ReloadCert, ReloadKey, UpdateCert, Handling, RunsFor, certVars
<1>2. /\ DirTypeOK' /\ DirInv' /\ StageIs(w, "done")
      /\ \A v \in Users \ {w} : Apart(v)
      /\ HandlerReturns => ~RunsFor(w)'
      /\ \A pc \in {"read", "next", "set"} : HandlerGoes(pc) => RunsFor(w)' /\ running'.pc = pc
  BY <1>w, <1>1, HandlerMoves
<1>3. /\ disk[w].cert \in Nat /\ disk[w].key \in Nat /\ disk[w].cert \in Versions
      /\ tlsCert[w] \in Nat /\ reloaded[w] \in Nat /\ 0 \in Versions
      /\ tlsCert[w] <= disk[w].cert /\ reloaded[w] <= disk[w].cert
  BY CertsAssumption DEF CertTypeOK, Disk, Versions, CertGood
<1>4. UNCHANGED <<stage, handlers>> /\ stage'[w] = "done"
      /\ \A f \in Files : Pending(w, f) <=> Pending(w, f)'
  BY <1>1, <1>2 DEF dispatchVars, StageIs, Pending
<1>p. ASSUME Pending(w, IF plainDir[w] THEN "file" ELSE "..data")
      PROVE  CertDue(w)'
  <2>1. PICK f \in Files : f = IF plainDir[w] THEN "file" ELSE "..data" BY DEF Files
  <2>2. Pending(w, f) BY <1>p, <2>1
  <2>3. Pending(w, f)' BY <1>4, <2>2
  <2>4. f = IF plainDir'[w] THEN "file" ELSE "..data" BY <1>1, <2>1
  <2>5. Pending(w, IF plainDir[w] THEN "file" ELSE "..data")' BY <2>3, <2>4
  <2> QED BY <2>5 DEF CertDue
<1>g. ASSUME tlsCert'[w] <= disk[w].cert, reloaded'[w] <= disk[w].cert,
             RunsFor(w)' /\ running'.pc \in {"next", "set"} => tlsCert'[w] <= reloaded'[w],
             handlers[DirOf[w]] = w /\ Complete(w) /\ KnowsDir(w) /\ CertDue(w) => CertDue(w)'
      PROVE  CertGood(w)'
  BY <1>1, <1>4, <1>g DEF CertGood, Complete, KnowsDir
<1>5. CASE CheckEvent(w)
  <2>1. /\ tlsCert' = tlsCert /\ reloaded' = reloaded /\ running.pc = "check"
        /\ IF Wanted(running.file, plainDir[w]) THEN HandlerGoes("read") ELSE HandlerReturns
    BY <1>5 DEF CheckEvent, certVars, Handling
  <2>2. ~(RunsFor(w)' /\ running'.pc \in {"next", "set"}) BY <1>2, <2>1
  <2>3. ASSUME CertDue(w) PROVE CertDue(w)'
    <3>1. CASE Pending(w, IF plainDir[w] THEN "file" ELSE "..data") BY <1>p, <3>1
    <3>2. CASE Wanted(running.file, plainDir[w])
      <4>1. RunsFor(w)' /\ running'.pc = "read" BY <1>2, <2>1, <3>2
      <4> QED BY <4>1 DEF CertDue
    <3>3. CASE tlsCert[w] = disk[w].cert BY <1>1, <2>1, <3>3 DEF CertDue
    <3> QED BY <2>1, <2>3, <3>1, <3>2, <3>3 DEF CertDue
  <2>4. CertGood(w)' BY <1>3, <1>g, <2>1, <2>2, <2>3
  <2> QED BY <1>1, <1>2, <2>1, <2>4 DEF CertTypeOK
<1>6. CASE ReloadCert(w)
  <2>1. /\ tlsCert' = tlsCert /\ reloaded' = [reloaded EXCEPT ![w] = disk[w].cert]
        /\ HandlerGoes("next")
    BY <1>6 DEF ReloadCert
  <2>2. reloaded' \in [Certs -> Versions] /\ reloaded'[w] = disk[w].cert
        /\ \A v \in Certs \ {w} : reloaded'[v] = reloaded[v]
    BY <1>3, <2>1 DEF CertTypeOK
  <2>3. RunsFor(w)' /\ running'.pc = "next" BY <1>2, <2>1
  <2>4. CertDue(w)' BY <1>1, <2>2, <2>3 DEF CertDue
  <2>e. /\ tlsCert'[w] <= disk[w].cert /\ tlsCert'[w] <= reloaded'[w]
        /\ reloaded'[w] <= disk[w].cert
    BY <1>3, <2>1, <2>2
  <2>5. CertGood(w)' BY <1>g, <2>4, <2>e
  <2> QED BY <1>1, <1>2, <2>1, <2>2, <2>5 DEF CertTypeOK
<1>7. CASE ReloadKey(w)
  <2>1. /\ tlsCert' = tlsCert /\ running.pc = "next"
        /\ IF disk[w].key = reloaded[w] THEN HandlerGoes("set") /\ UNCHANGED reloaded
           ELSE HandlerReturns /\ reloaded' = [reloaded EXCEPT ![w] = 0]
    BY <1>7 DEF ReloadKey, Handling
  <2>t. tlsCert[w] <= reloaded[w] BY <1>1, <2>1 DEF CertGood
  <2>2. CASE disk[w].key = reloaded[w]
    <3>1. HandlerGoes("set") /\ reloaded' = reloaded BY <2>1, <2>2
    <3>2. RunsFor(w)' /\ running'.pc = "set" BY <1>2, <3>1
    <3>3. ASSUME CertDue(w) PROVE CertDue(w)'
      <4>1. CASE Pending(w, IF plainDir[w] THEN "file" ELSE "..data") BY <1>p, <4>1
      <4>2. CASE reloaded[w] = disk[w].cert BY <1>1, <3>1, <3>2, <4>2 DEF CertDue
      <4>3. CASE tlsCert[w] = disk[w].cert BY <1>1, <2>1, <4>3 DEF CertDue
      <4> QED BY <2>1, <3>3, <4>1, <4>2, <4>3 DEF CertDue
    <3>4. CertGood(w)' BY <1>3, <1>g, <2>1, <2>t, <3>1, <3>3
    <3> QED BY <1>1, <1>2, <2>1, <3>1, <3>4 DEF CertTypeOK
  <2>3. CASE disk[w].key # reloaded[w]
    <3>1. HandlerReturns /\ reloaded' = [reloaded EXCEPT ![w] = 0] BY <2>1, <2>3
    <3>2. reloaded' \in [Certs -> Versions] /\ reloaded'[w] = 0
          /\ \A v \in Certs \ {w} : reloaded'[v] = reloaded[v]
      BY <1>3, <3>1 DEF CertTypeOK
    <3>3. ~RunsFor(w)' BY <1>2, <3>1
    <3>4. ASSUME CertDue(w), Complete(w) PROVE CertDue(w)'
      <4>1. CASE Pending(w, IF plainDir[w] THEN "file" ELSE "..data") BY <1>p, <4>1
      <4>2. reloaded[w] # disk[w].cert BY <2>3, <3>4 DEF Complete
      <4>3. CASE tlsCert[w] = disk[w].cert BY <1>1, <2>1, <4>3 DEF CertDue
      <4> QED BY <2>1, <3>4, <4>1, <4>2, <4>3 DEF CertDue
    <3>5. CertGood(w)' BY <1>3, <1>g, <2>1, <3>2, <3>3, <3>4
    <3> QED BY <1>1, <1>2, <2>1, <3>2, <3>5 DEF CertTypeOK
  <2> QED BY <2>2, <2>3
<1>8. CASE UpdateCert(w)
  <2>1. /\ tlsCert' = [tlsCert EXCEPT ![w] = reloaded[w]] /\ running.pc = "set"
        /\ reloaded' = [reloaded EXCEPT ![w] = 0] /\ HandlerReturns
    BY <1>8 DEF UpdateCert, Handling
  <2>2. /\ tlsCert' \in [Certs -> Versions] /\ reloaded' \in [Certs -> Versions]
        /\ tlsCert'[w] = reloaded[w] /\ reloaded'[w] = 0
        /\ \A v \in Certs \ {w} : reloaded'[v] = reloaded[v] /\ tlsCert'[v] = tlsCert[v]
    BY <1>3, <2>1 DEF CertTypeOK
  <2>3. ~RunsFor(w)' BY <1>2, <2>1
  <2>t. tlsCert[w] <= reloaded[w] BY <1>1, <2>1 DEF CertGood
  <2>4. ASSUME CertDue(w) PROVE CertDue(w)'
    <3>1. CASE Pending(w, IF plainDir[w] THEN "file" ELSE "..data") BY <1>p, <3>1
    <3>2. CASE reloaded[w] = disk[w].cert BY <1>1, <2>2, <3>2 DEF CertDue
    <3>3. CASE tlsCert[w] = disk[w].cert
      <4>1. reloaded[w] = disk[w].cert BY <1>3, <2>t, <3>3
      <4> QED BY <3>2, <4>1
    <3> QED BY <2>1, <2>4, <3>1, <3>2, <3>3 DEF CertDue
  <2>5. CertGood(w)' BY <1>3, <1>g, <2>2, <2>3, <2>4
  <2> QED BY <1>1, <1>2, <2>2, <2>5 DEF CertTypeOK
<1> QED BY <1>5, <1>6, <1>7, <1>8 DEF certHandler

LEMMA logHandlerKeeps ==
    ASSUME DirTypeOK, DirInv, LogTypeOK, LogGood, logHandler
    PROVE  /\ DirTypeOK' /\ DirInv' /\ LogTypeOK' /\ LogGood'
           /\ \A v \in Users \ {Log} : Apart(v)
<1>1. /\ RunsFor(Log) /\ UNCHANGED <<stage, dispatchVars, events>>
      /\ logFile' = logFile /\ ctlFileInPlainDir' = ctlFileInPlainDir /\ logHeard' = logHeard
      /\ HandlerReturns \/ \E pc \in {"read", "next", "set"} : HandlerGoes(pc)
  BY DEF logHandler, Handling, RunsFor, logVars, ReadFile, SetLevel, SetDebug
<1>2. /\ DirTypeOK' /\ DirInv' /\ StageIs(Log, "done")
      /\ \A v \in Users \ {Log} : Apart(v)
      /\ HandlerReturns => ~RunsFor(Log)'
      /\ \A pc \in {"read", "next", "set"} : HandlerGoes(pc) => RunsFor(Log)' /\ running'.pc = pc
  BY <1>1, LogAssumption, HandlerMoves
<1>3. /\ stage[Log] = "done" /\ stage' = stage /\ handlers' = handlers
      /\ Pending(Log, LogFile) <=> Pending(Log, LogFile)'
  BY <1>1, <1>2 DEF dispatchVars, StageIs, Pending, LogFile
<1>4. ctlFileInPlainDir = ~LogMounted BY <1>3 DEF LogGood
<1>s. /\ LogSets <=> running.pc = "set"
      /\ LogSets' <=> RunsFor(Log)' /\ running'.pc = "set"
      /\ Handling(Log, "next")' <=> RunsFor(Log)' /\ running'.pc = "next"
      /\ Handling(Log, "next") <=> running.pc = "next"
  BY <1>1, <1>3 DEF LogSets, StageIs, Handling, RunsFor
<1>g. ASSUME LogSets' => programLevel' = newLevel',
             ~LogSets' => debugEnabled' = (programLevel' = "debug"),
             logFile # "nothing" /\ LogDue => LogDue'
      PROVE  LogGood'
  BY <1>1, <1>3, <1>4, <1>g DEF LogGood
<1>5. CASE running.pc = "check"
  <2>1. /\ UNCHANGED logVars
        /\ IF Wanted(running.file, ctlFileInPlainDir) THEN HandlerGoes("read")
                                                     ELSE HandlerReturns
    BY <1>5 DEF logHandler, Handling
  <2>2. ~LogSets /\ ~LogSets' /\ ~Handling(Log, "next")' BY <1>2, <1>s, <1>5, <2>1
  <2>3. ASSUME LogDue PROVE LogDue'
    <3>1. CASE Pending(Log, LogFile) BY <1>3, <3>1 DEF LogDue
    <3>2. CASE running.file = LogFile
      <4>1. Wanted(running.file, ctlFileInPlainDir) BY <1>4, <3>2 DEF Wanted, LogFile
      <4>2. RunsFor(Log)' /\ running'.pc = "read" BY <1>2, <2>1, <4>1
      <4> QED BY <4>2 DEF LogDue
    <3>3. CASE programLevel = logFile BY <2>1, <2>2, <3>3 DEF LogDue, logVars
    <3> QED BY <1>5, <2>3, <3>1, <3>2, <3>3 DEF LogDue
  <2>4. LogGood' BY <1>g, <2>1, <2>2, <2>3 DEF LogGood, logVars
  <2>5. LogTypeOK' BY <2>1 DEF LogTypeOK, logVars
  <2> QED BY <1>2, <2>4, <2>5
<1>6. CASE running.pc = "read"
  <2>1. /\ newLevel' = (IF logFile = "nothing" THEN newLevel ELSE logFile)
        /\ programLevel' = programLevel /\ debugEnabled' = debugEnabled
        /\ IF logFile = "nothing" THEN HandlerReturns ELSE HandlerGoes("next")
    BY <1>6 DEF logHandler, Handling, ReadFile
  <2>2. ~LogSets /\ ~LogSets' BY <1>2, <1>s, <1>6, <2>1
  <2>3. ASSUME logFile # "nothing" PROVE LogDue'
    <3>1. RunsFor(Log)' /\ running'.pc = "next" /\ newLevel' = logFile'
      BY <1>1, <1>2, <2>1, <2>3
    <3> QED BY <3>1 DEF LogDue
  <2>4. LogGood' BY <1>g, <2>1, <2>2, <2>3 DEF LogGood
  <2>5. LogTypeOK' BY <1>1, <2>1 DEF LogTypeOK, Contents
  <2> QED BY <1>2, <2>4, <2>5
<1>7. CASE running.pc = "next"
  <2>1. /\ newLevel' = newLevel /\ programLevel' = newLevel /\ debugEnabled' = debugEnabled
        /\ HandlerGoes("set")
    BY <1>7 DEF logHandler, Handling, SetLevel
  <2>2. RunsFor(Log)' /\ running'.pc = "set" BY <1>2, <2>1
  <2>3. LogSets' /\ ~Handling(Log, "next")' BY <1>s, <2>2
  <2>4. ASSUME LogDue PROVE LogDue'
    <3>1. CASE Pending(Log, LogFile) BY <1>3, <3>1 DEF LogDue
    <3>2. CASE newLevel = logFile
      <4>1. programLevel' = logFile' BY <1>1, <2>1, <3>2
      <4> QED BY <2>3, <4>1 DEF LogDue
    <3> QED BY <1>s, <1>7, <2>4, <3>1, <3>2 DEF LogDue
  <2>5. LogGood' BY <1>g, <2>1, <2>3, <2>4
  <2>6. LogTypeOK' BY <1>1, <2>1 DEF LogTypeOK
  <2> QED BY <1>2, <2>5, <2>6
<1>8. CASE running.pc = "set"
  <2>1. /\ newLevel' = "info" /\ programLevel' = programLevel
        /\ debugEnabled' = (newLevel = "debug") /\ HandlerReturns
    BY <1>8 DEF logHandler, Handling, SetDebug
  <2>2. programLevel = newLevel BY <1>s, <1>8 DEF LogGood
  <2>3. ~LogSets' /\ ~Handling(Log, "next")' BY <1>2, <1>s, <2>1
  <2>4. ASSUME LogDue PROVE LogDue'
    <3>1. CASE Pending(Log, LogFile) BY <1>3, <3>1 DEF LogDue
    <3>2. CASE programLevel = logFile
      <4>1. programLevel' = logFile' BY <1>1, <2>1, <3>2
      <4> QED BY <2>3, <4>1 DEF LogDue
    <3> QED BY <1>8, <2>4, <3>1, <3>2 DEF LogDue
  <2>5. LogGood' BY <1>g, <2>1, <2>2, <2>3, <2>4
  <2>6. LogTypeOK' BY <1>1, <2>1 DEF LogTypeOK, Levels
  <2> QED BY <1>2, <2>5, <2>6
<1>9. running.pc \in {"check", "read", "next", "set"} BY <1>1 DEF DirTypeOK, Call, RunsFor
<1> QED BY <1>5, <1>6, <1>7, <1>8, <1>9

-----------------------------------------------------------------------------
(* Files change *)

(* An event for the user of one directory changes nothing for the others,   *)
(* and takes none of its own away.                                          *)
LEMMA FilesKeepDir ==
    ASSUME DirTypeOK, DirInv, NEW u \in Users, NEW file \in Files, Notify(u, file),
           UNCHANGED <<stage, dispatchVars, running>>
    PROVE  /\ DirTypeOK' /\ DirInv'
           /\ \A v \in Users : Apart(v)
           /\ Hears(u, file) => Pending(u, file)'
<1>1. /\ stage' = stage /\ watched' = watched /\ handlers' = handlers /\ running' = running
  BY DEF dispatchVars
<1>2. /\ events' \in Seq(Event) /\ Len(events') <= MaxEvents
      /\ \A v \in Users, f \in Files : Pending(v, f) => Pending(v, f)'
      /\ DirOf[u] \in watched /\ ~Lost([dir |-> DirOf[u], file |-> file]) => Pending(u, file)'
  BY NotifyKeeps DEF DirTypeOK
<1>3. DirTypeOK' BY <1>1, <1>2 DEF DirTypeOK
<1>4. DirInv' BY <1>1 DEF DirInv, StageIs
<1>5. \A v \in Users : Apart(v) BY <1>1, <1>2 DEF Apart
<1>6. ASSUME Hears(u, file) PROVE Pending(u, file)'
  <2>1. DirOf[u] \in watched BY <1>6 DEF Hears, DirInv, StageIs
  <2> QED BY <1>2, <1>6, <2>1 DEF Hears
<1> QED BY <1>3, <1>4, <1>5, <1>6

LEMMA CertFilesKeep ==
    ASSUME DirTypeOK, DirInv, CertTypeOK, NEW w \in Certs, CertGood(w), CertFiles(w)
    PROVE  /\ DirTypeOK' /\ DirInv' /\ CertTypeOK' /\ CertGood(w)'
           /\ \A v \in Users \ {w} : Apart(v)
           /\ \A v \in Certs \ {w} :
                 /\ disk'[v] = disk[v] /\ plainDir'[v] = plainDir[v] /\ tlsCert'[v] = tlsCert[v]
                 /\ loaded'[v] = loaded[v] /\ reloaded'[v] = reloaded[v] /\ heard'[v] = heard[v]
<1> DEFINE old == disk[w]
<1>w. w \in Users /\ old \in Disk /\ MaxVersion \in Nat \ {0}
  BY CertsAssumption DEF CertTypeOK
<1>o. /\ old.cert \in Nat /\ old.key \in Nat
      /\ w \in Mounted => old.cert = old.key \/ (old.cert = 1 /\ old.key = 0)
  BY <1>w DEF Disk, Versions, CertGood
(* Whatever is written, the version of the certificate does not go back;    *)
(* and who is told of a change has the event it waits for.                  *)
<1>1. ASSUME NEW new \in Disk, NEW file \in Files, NEW told \in BOOLEAN,
             Changes(w, new, file, told), old.cert <= new.cert,
             w \in Mounted => new.cert = new.key \/ (new.cert = 1 /\ new.key = 0),
             told => Hears(w, file) /\ file = (IF w \in Mounted THEN "..data" ELSE "file")
      PROVE  /\ DirTypeOK' /\ DirInv' /\ CertTypeOK' /\ CertGood(w)'
             /\ \A v \in Users \ {w} : Apart(v)
             /\ \A v \in Certs \ {w} : disk'[v] = disk[v] /\ heard'[v] = heard[v]
             /\ UNCHANGED <<plainDir, tlsCert, loaded, reloaded>>
  <2>1. /\ disk' = [disk EXCEPT ![w] = new] /\ heard' = [heard EXCEPT ![w] = told]
        /\ Notify(w, file) /\ UNCHANGED <<stage, dispatchVars, running>>
        /\ plainDir' = plainDir /\ tlsCert' = tlsCert
        /\ loaded' = loaded /\ reloaded' = reloaded
    BY <1>1 DEF Changes
  <2>2. /\ DirTypeOK' /\ DirInv' /\ \A v \in Users : Apart(v)
        /\ Hears(w, file) => Pending(w, file)'
    BY <1>w, <1>1, <2>1, FilesKeepDir
  <2>3. /\ disk'[w] = new /\ heard'[w] = told
        /\ \A v \in Certs \ {w} : disk'[v] = disk[v] /\ heard'[v] = heard[v]
    BY <2>1 DEF CertTypeOK
  <2>4. CertTypeOK' BY <1>1, <2>1 DEF CertTypeOK
  <2>5. /\ tlsCert[w] <= new.cert /\ loaded[w] <= new.cert /\ reloaded[w] <= new.cert
    <3>1. /\ tlsCert[w] <= old.cert /\ loaded[w] <= old.cert /\ reloaded[w] <= old.cert
          /\ tlsCert[w] \in Nat /\ loaded[w] \in Nat /\ reloaded[w] \in Nat
      BY DEF CertGood, CertTypeOK, Versions
    <3>2. new.cert \in Nat BY DEF Disk, Versions
    <3> QED BY <1>o, <1>1, <3>1, <3>2
  <2>6. ASSUME told, KnowsDir(w) PROVE CertDue(w)'
    <3>1. Pending(w, file)' BY <1>1, <2>2, <2>6
    <3>2. file = IF plainDir'[w] THEN "file" ELSE "..data" BY <1>1, <2>1, <2>6 DEF KnowsDir
    <3>3. Pending(w, IF plainDir[w] THEN "file" ELSE "..data")' BY <3>1, <3>2
    <3> QED BY <3>3 DEF CertDue
  <2>7. /\ stage' = stage /\ handlers' = handlers /\ running' = running BY <2>1 DEF dispatchVars
  <2>8. RunsFor(w)' <=> RunsFor(w) BY <2>7 DEF RunsFor
  <2>9. KnowsDir(w)' <=> KnowsDir(w) BY <2>1 DEF KnowsDir
  <2>10. told => handlers[DirOf[w]] = w BY <1>1 DEF Hears
  <2>11. CertGood(w)'
    BY <1>1, <2>1, <2>3, <2>5, <2>6, <2>7, <2>8, <2>9, <2>10 DEF CertGood
  <2> QED BY <2>1, <2>2, <2>3, <2>4, <2>11
<1>2. CASE Mount(w)
  <2>1. Changes(w, [old EXCEPT !.data = TRUE], "..data", FALSE) BY <1>2 DEF Mount
  <2>2. [old EXCEPT !.data = TRUE] \in Disk BY <1>w DEF Disk
  <2>3. [old EXCEPT !.data = TRUE].cert = old.cert /\ [old EXCEPT !.data = TRUE].key = old.key
    BY <1>w DEF Disk
  <2>4. old.cert <= [old EXCEPT !.data = TRUE].cert BY <1>o, <2>3
  <2> DEFINE new == [old EXCEPT !.data = TRUE]
  <2>5. /\ Changes(w, new, "..data", FALSE) /\ new \in Disk
        /\ new.cert = old.cert /\ new.key = old.key /\ old.cert <= new.cert
    BY <2>1, <2>2, <2>3, <2>4
  <2> HIDE DEF old, new
  <2> QED BY <1>o, <1>1, <2>5 DEF Files
<1>3. CASE LinkFiles(w) /\ old.cert = 0
  <2> DEFINE new == [old EXCEPT !.cert = 1]
  <2>1. Changes(w, new, "file", FALSE) /\ w \in Mounted BY <1>3 DEF LinkFiles
  <2>2. new \in Disk /\ new.cert = 1 /\ new.key = old.key BY <1>w DEF Disk, Versions
  <2>3. old.key = 0 /\ old.cert <= new.cert BY <1>o, <1>3, <2>1, <2>2
  <2> HIDE DEF old, new
  <2> QED BY <1>1, <2>1, <2>2, <2>3 DEF Files
<1>4. CASE LinkFiles(w) /\ old.cert # 0
  <2> DEFINE new == [old EXCEPT !.key = 1]
  <2>1. Changes(w, new, "key", FALSE) /\ w \in Mounted /\ old.key = 0 BY <1>4 DEF LinkFiles
  <2>2. new \in Disk /\ new.cert = old.cert /\ new.key = 1 BY <1>w DEF Disk, Versions
  <2>3. new.cert = 1 /\ old.cert <= new.cert BY <1>o, <1>4, <2>1, <2>2
  <2> HIDE DEF old, new
  <2> QED BY <1>1, <2>1, <2>2, <2>3 DEF Files
<1>5. CASE RotateSecret(w)
  <2> DEFINE new == [old EXCEPT !.cert = @ + 1, !.key = @ + 1]
             told == Hears(w, "..data")
  <2>1. /\ w \in Mounted /\ old.key \in 1..(MaxVersion - 1)
        /\ Changes(w, new, "..data", told)
    BY <1>5 DEF RotateSecret
  <2>2. old.cert = old.key /\ old.cert + 1 \in Versions /\ old.key + 1 \in Versions
    BY <1>w, <1>o, <2>1 DEF Versions
  <2>3. new \in Disk /\ new.cert = old.cert + 1 /\ new.key = old.key + 1 BY <1>w, <2>2 DEF Disk
  <2>4. old.cert <= new.cert /\ new.cert = new.key BY <1>o, <2>2, <2>3
  <2>5. told \in BOOLEAN /\ (told => Hears(w, "..data")) BY DEF Hears
  <2> HIDE DEF old, new, told
  <2> QED BY <1>1, <2>1, <2>3, <2>4, <2>5 DEF Files
<1>6. CASE WriteCert(w)
  <2> DEFINE new == [old EXCEPT !.cert = @ + 1]
             told == Hears(w, "file")
  <2>1. w \notin Mounted /\ old.cert < MaxVersion /\ Changes(w, new, "file", told)
    BY <1>6 DEF WriteCert
  <2>2. old.cert + 1 \in Versions BY <1>w, <1>o, <2>1 DEF Versions
  <2>3. new \in Disk /\ new.cert = old.cert + 1 BY <1>w, <2>2 DEF Disk
  <2>4. old.cert <= new.cert BY <1>o, <2>3
  <2>5. told \in BOOLEAN /\ (told => Hears(w, "file")) BY DEF Hears
  <2> HIDE DEF old, new, told
  <2> QED BY <1>1, <2>1, <2>3, <2>4, <2>5 DEF Files
<1>7. CASE WriteKey(w)
  <2> DEFINE new == [old EXCEPT !.key = @ + 1]
  <2>1. w \notin Mounted /\ old.key < MaxVersion /\ Changes(w, new, "key", FALSE)
    BY <1>7 DEF WriteKey
  <2>2. old.key + 1 \in Versions BY <1>w, <1>o, <2>1 DEF Versions
  <2>3. new \in Disk /\ new.cert = old.cert BY <1>w, <2>2 DEF Disk
  <2>4. old.cert <= new.cert BY <1>o, <2>3
  <2> HIDE DEF old, new
  <2> QED BY <1>1, <2>1, <2>3, <2>4 DEF Files
<1> QED BY <1>2, <1>3, <1>4, <1>5, <1>6, <1>7 DEF CertFiles

LEMMA EditKeepsLog ==
    ASSUME DirTypeOK, DirInv, LogTypeOK, LogGood, EditLogFile
    PROVE  /\ DirTypeOK' /\ DirInv' /\ LogTypeOK' /\ LogGood'
           /\ \A v \in Users : Apart(v)
<1>1. /\ Notify(Log, LogFile) /\ UNCHANGED <<stage, dispatchVars, running>>
      /\ UNCHANGED <<ctlFileInPlainDir, programLevel, debugEnabled, newLevel>>
      /\ logFile' \in Contents /\ logHeard' = Hears(Log, LogFile)
  BY DEF EditLogFile
<1>2. LogFile \in Files BY DEF LogFile, Files
<1>3. /\ DirTypeOK' /\ DirInv' /\ \A v \in Users : Apart(v)
      /\ Hears(Log, LogFile) => Pending(Log, LogFile)'
  BY <1>1, <1>2, LogAssumption, FilesKeepDir
<1>4. Hears(Log, LogFile) \in BOOLEAN BY DEF Hears
<1>5. LogTypeOK' BY <1>1, <1>4 DEF LogTypeOK
<1>6. logHeard' => handlers[DirOf[Log]] = Log BY <1>1 DEF Hears
<1>7. logHeard' => LogDue'
  <2>1. logHeard' => Pending(Log, LogFile)' BY <1>1, <1>3
  <2> QED BY <2>1 DEF LogDue
<1>8. LogSets' <=> LogSets BY <1>1 DEF LogSets, StageIs, Handling
<1>9. LogGood' BY <1>1, <1>6, <1>7, <1>8 DEF LogGood, dispatchVars
<1> QED BY <1>3, <1>5, <1>9

-----------------------------------------------------------------------------
LEMMA InitInv == Init => IInv
<1> SUFFICES ASSUME Init PROVE IInv OBVIOUS
<1> USE DEF Init, DirInit, CertInit, LogInit
<1>1. DirTypeOK
  <2>1. << >> \in Seq(Event) /\ Len(<< >>) <= MaxEvents BY EventsAssumption
  <2> QED BY <2>1 DEF DirTypeOK
<1>2. CertTypeOK
  <2>1. 0 \in Versions /\ 1 \in Versions BY CertsAssumption DEF Versions
  <2> QED BY <2>1 DEF CertTypeOK
<1>3. LogTypeOK BY DEF LogTypeOK, Levels
<1>4. DirInv
  <2>1. \A u \in Users : handlers[DirOf[u]] # u
    <3>1. \A u \in Users : DirOf[u] \in Dirs BY DirsAssumption
    <3> QED BY <3>1, NobodyAssumption
  <2> QED BY <2>1 DEF DirInv
<1>5. ASSUME NEW w \in Certs PROVE CertGood(w)
  <2>1. /\ tlsCert[w] = 0 /\ loaded[w] = 0 /\ reloaded[w] = 0 /\ ~heard[w] OBVIOUS
  <2>2. disk[w].cert \in Nat BY DEF Disk, Versions
  <2>3. w \in Mounted => disk[w].cert = disk[w].key BY DEF Empty
  <2>4. ~RunsFor(w) BY DEF RunsFor
  <2> QED BY <2>1, <2>2, <2>3, <2>4 DEF CertGood
<1>6. LogGood
  <2>1. stage[Log] = "new" BY LogAssumption
  <2>2. ~LogSets BY <2>1 DEF LogSets, StageIs, Handling
  <2> QED BY <2>1, <2>2 DEF LogGood
<1> QED BY <1>1, <1>2, <1>3, <1>4, <1>5, <1>6 DEF IInv, TypeOK

LEMMA NextKeepsInv == IInv /\ [Next]_vars => IInv'
<1> SUFFICES ASSUME IInv, [Next]_vars PROVE IInv' OBVIOUS
<1>i. /\ DirTypeOK /\ DirInv /\ CertTypeOK /\ LogTypeOK
      /\ LogGood /\ \A w \in Certs : CertGood(w)
  BY DEF IInv, TypeOK
<1>u. Users = Certs \cup {Log} /\ Log \notin Certs BY WatchersAssumption
(* A step of log control, and one of a certificate watcher                  *)
<1>l. ASSUME UNCHANGED certVars, DirTypeOK', DirInv', LogTypeOK', LogGood',
             \A v \in Users \ {Log} : Apart(v)
      PROVE  IInv'
  <2>1. \A w \in Certs : CertGood(w)'
    BY <1>i, <1>u, <1>l, CertFrame DEF certVars
  <2>2. CertTypeOK' BY <1>i, <1>l DEF CertTypeOK, certVars
  <2> QED BY <1>l, <2>1, <2>2 DEF IInv, TypeOK
<1>c. ASSUME NEW w \in Certs, UNCHANGED logVars, DirTypeOK', DirInv', CertTypeOK', CertGood(w)',
             \A v \in Users \ {w} : Apart(v),
             \A v \in Certs \ {w} :
                 /\ disk'[v] = disk[v] /\ plainDir'[v] = plainDir[v] /\ tlsCert'[v] = tlsCert[v]
                 /\ loaded'[v] = loaded[v] /\ reloaded'[v] = reloaded[v] /\ heard'[v] = heard[v]
      PROVE  IInv'
  <2>1. \A v \in Certs \ {w} : CertGood(v)' BY <1>i, <1>u, <1>c, CertFrame
  <2>2. LogGood' BY <1>i, <1>u, <1>c, LogFrame
  <2>3. LogTypeOK' BY <1>i, <1>c DEF LogTypeOK, logVars
  <2> QED BY <1>c, <2>1, <2>2, <2>3 DEF IInv, TypeOK
<1>1. CASE (initLogging \/ RegisterLog) /\ UNCHANGED certVars
  BY <1>i, <1>l, <1>1, LogSetUpKeeps
<1>2. ASSUME NEW w \in Certs, NewWatcher(w), UNCHANGED logVars PROVE IInv'
  BY <1>i, <1>c, <1>2, NewWatcherKeepsCert
<1>3. CASE Dispatch /\ UNCHANGED <<certVars, logVars>>
  <2>1. DirTypeOK' /\ DirInv' BY <1>i, <1>3, DispatchKeeps
  <2>2. \A w \in Certs : CertGood(w)' BY <1>i, <1>3, DispatchKeepsCert
  <2>3. LogGood' BY <1>i, <1>3, DispatchKeepsLog
  <2>4. CertTypeOK' /\ LogTypeOK' BY <1>i, <1>3 DEF CertTypeOK, certVars, LogTypeOK, logVars
  <2> QED BY <2>1, <2>2, <2>3, <2>4 DEF IInv, TypeOK
<1>4. ASSUME NEW w \in Certs, certHandler(w), UNCHANGED logVars PROVE IInv'
  BY <1>i, <1>c, <1>4, certHandlerKeeps
<1>5. CASE logHandler /\ UNCHANGED certVars
  BY <1>i, <1>l, <1>5, logHandlerKeeps
<1>6. ASSUME NEW w \in Certs, CertFiles(w), UNCHANGED logVars PROVE IInv'
  BY <1>i, <1>c, <1>6, CertFilesKeep
<1>7. CASE EditLogFile /\ UNCHANGED certVars
  BY <1>i, <1>l, <1>7, EditKeepsLog
<1>8. CASE UNCHANGED vars
  <2>1. /\ UNCHANGED <<stage, watched, handlers, events, running>>
        /\ UNCHANGED <<certVars, logVars>>
    BY <1>8 DEF vars, dispatchVars
  <2>2. \A v \in Users : Apart(v) BY <2>1 DEF Apart, Pending
  <2>3. DirTypeOK' /\ DirInv' BY <1>i, <2>1 DEF DirTypeOK, DirInv, StageIs
  <2>4. LogGood' /\ LogTypeOK'
    BY <1>i, <2>1, <2>2, LogFrame, LogAssumption DEF LogTypeOK, logVars
  <2> QED BY <1>l, <2>1, <2>2, <2>3, <2>4
<1> QED BY <1>1, <1>2, <1>3, <1>4, <1>5, <1>6, <1>7, <1>8 DEF Next, Main, Dispatcher, FilesChange

LEMMA InvHolds == Spec => []IInv
BY InitInv, NextKeepsInv, PTL DEF Spec

-----------------------------------------------------------------------------
(* Every state has its type: among them the queue of events never exceeds   *)
(* its limit.                                                               *)
THEOREM WatchersTypeCorrect == Spec => []TypeOK
<1>1. IInv => TypeOK BY DEF IInv
<1> QED BY InvHolds, <1>1, PTL

(* A quiet watcher that was told of the latest pair has it in use.          *)
THEOREM WatchersCatchUp == Spec => []CaughtUp
<1>1. IInv => CaughtUp
  <2> SUFFICES ASSUME IInv, NEW w \in Certs, heard[w], Complete(w), KnowsDir(w),
                      Quiet(w, plainDir[w])
               PROVE  tlsCert[w] = disk[w].cert
    BY DEF CaughtUp
  <2>1. CertDue(w) BY DEF IInv, CertGood
  <2>2. ~RunsFor(w) BY DEF Quiet, RunsFor
  <2>3. ~Pending(w, IF plainDir[w] THEN "file" ELSE "..data")
    BY DEF Pending, Quiet, Wanted
  <2> QED BY <2>1, <2>2, <2>3 DEF CertDue
<1> QED BY InvHolds, <1>1, PTL

(* Quiet log control has the level of the file and the switch of the level. *)
THEOREM LevelFollows == Spec => []LevelFollowsFile
<1>1. IInv => LevelFollowsFile
  <2> SUFFICES ASSUME IInv, Quiet(Log, ctlFileInPlainDir), stage[Log] \in {"new", "done"}
               PROVE  /\ logHeard /\ logFile # "nothing" => programLevel = logFile
                      /\ debugEnabled = (programLevel = "debug")
    BY DEF LevelFollowsFile
  <2>1. LogGood /\ DirInv BY DEF IInv
  <2>2. ~RunsFor(Log) BY DEF Quiet, RunsFor
  <2>3. debugEnabled = (programLevel = "debug")
    BY <2>1, <2>2 DEF LogGood, LogSets, StageIs, Handling, RunsFor
  <2>4. ASSUME logHeard, logFile # "nothing" PROVE programLevel = logFile
    <3>1. StageIs(Log, "done") BY <2>1, <2>4, LogAssumption DEF LogGood, DirInv
    <3>2. ctlFileInPlainDir = ~LogMounted BY <2>1, <3>1 DEF LogGood, StageIs
    <3>w. Wanted(LogFile, ctlFileInPlainDir) BY <3>2, LogAssumption DEF Wanted, LogFile
    <3>3. ~Pending(Log, LogFile)
      <4> SUFFICES ASSUME NEW i \in DOMAIN events,
                          events[i] = [dir |-> DirOf[Log], file |-> LogFile]
                   PROVE  FALSE
        BY DEF Pending
      <4>1. events[i].dir = DirOf[Log] /\ events[i].file = LogFile OBVIOUS
      <4> QED BY <3>w, <4>1 DEF Quiet
    <3> QED BY <2>1, <2>2, <2>4, <3>3 DEF LogGood, LogDue
  <2> QED BY <2>3, <2>4
<1> QED BY InvHolds, <1>1, PTL

(* The pair in use is never replaced by an older one.                       *)
THEOREM NoOlderPair == Spec => NeverOlder
<1>1. IInv /\ [Next]_vars => [\A w \in Certs : tlsCert'[w] >= tlsCert[w]]_tlsCert
  <2> SUFFICES ASSUME IInv, [Next]_vars, tlsCert' # tlsCert, NEW w \in Certs
               PROVE  tlsCert'[w] >= tlsCert[w]
    OBVIOUS
  <2>1. /\ tlsCert \in [Certs -> Versions] /\ loaded \in [Certs -> Versions]
        /\ reloaded \in [Certs -> Versions] /\ \A v \in Certs : CertGood(v)
    BY DEF IInv, TypeOK, CertTypeOK
  <2>2. PICK x \in Certs : SetCert(x) \/ UpdateCert(x)
    BY DEF Next, Main, Dispatcher, FilesChange, NewWatcher, StatDataDir, waitForCert, LoadCert,
       LoadKey, certHandler, CheckEvent, ReloadCert, ReloadKey, CertFiles, Mount, LinkFiles,
       RotateSecret, WriteCert, WriteKey, Changes, certVars, vars
  <2>3. CASE SetCert(x)
    <3>1. tlsCert' = [tlsCert EXCEPT ![x] = loaded[x]] /\ tlsCert[x] = 0
      BY <2>1, <2>3 DEF SetCert, StageIs, CertGood
    <3> QED BY <2>1, <3>1 DEF Versions
  <2>4. CASE UpdateCert(x)
    <3>1. tlsCert' = [tlsCert EXCEPT ![x] = reloaded[x]] /\ tlsCert[x] <= reloaded[x]
      BY <2>1, <2>4 DEF UpdateCert, Handling, RunsFor, CertGood
    <3> QED BY <2>1, <3>1 DEF Versions
  <2> QED BY <2>2, <2>3, <2>4
<1> QED BY InvHolds, <1>1, PTL DEF Spec, NeverOlder
=============================================================================
