------------------------------ MODULE Shutdown ------------------------------
(***************************************************************************)
(* Start and orderly end of the process: main                               *)
(* (cmd/eric-odp-factory/server.go), the REST server (internal/rest), the   *)
(* creators, and the two Controllers with their work queues                 *)
(* (internal/factory/k8swatcher.go).  What the goroutines do with a request *)
(* or a Pod is in OdpFactory; here it matters who waits for whom.           *)
(***************************************************************************)
EXTENDS Naturals, FiniteSets

CONSTANTS
    Handlers,      \* REST handlers: requests served at the same time
    Creators,
    PodWorkers, ConfigMapWorkers,
    QueueSize,     \* capacity of createChannel
    MaxItems       \* items that wait in the queue of a Controller

ASSUME ShutdownAssumption ==
    /\ QueueSize \in Nat
    /\ MaxItems \in Nat
    /\ IsFiniteSet(Handlers)
    /\ PodWorkers # {} /\ ConfigMapWorkers # {}
    /\ PodWorkers \cap ConfigMapWorkers = {}

Controllers == {"Pods", "ConfigMaps"}
WorkersOf(k) == IF k = "Pods" THEN PodWorkers ELSE ConfigMapWorkers
Workers == PodWorkers \cup ConfigMapWorkers

VARIABLES
    main,       \* where main is
    synced,     \* Controllers whose cache has synced
    stop,       \* Controllers whose stop channel is closed
    shutDown,   \* Controllers whose queue has been shut down
    items,      \* items waiting in the queue of each Controller
    worker, creator, handler,
    cleaner,    \* deletedPodsCleaner
    channel     \* number of names in createChannel

controllerVars == <<synced, stop, shutDown, items, worker>>
factoryVars == <<creator, cleaner>>
vars == <<main, controllerVars, factoryVars, handler, channel>>

TypeOK ==
    /\ main \in {"start Pods", "start ConfigMaps", "ready", "cancelled", "drain",
                 "stop Pods", "stop ConfigMaps", "wait", "returned"}
    /\ synced \subseteq Controllers /\ stop \subseteq synced /\ shutDown \subseteq stop
    /\ items \in [Controllers -> 0..MaxItems]
    /\ worker \in [Workers -> {"none", "get", "handle", "gone"}]
    /\ creator \in [Creators -> {"none", "select", "create", "gone"}]
    /\ cleaner \in {"none", "select", "gone"}
    /\ handler \in [Handlers -> {"idle", "body", "send", "reply"}]
    /\ channel \in 0..QueueSize

Init ==
    /\ main = "start Pods"
    /\ synced = {} /\ stop = {} /\ shutDown = {}
    /\ items = [k \in Controllers |-> 0]
    /\ worker = [w \in Workers |-> "none"]
    /\ creator = [c \in Creators |-> "none"]
    /\ cleaner = "none"
    /\ handler = [h \in Handlers |-> "idle"]
    /\ channel = 0

-----------------------------------------------------------------------------
(* Start.  StartController returns when Run has started the workers.        *)

CacheSyncs(k) ==
    /\ <<main, k>> \in {<<"start Pods", "Pods">>, <<"start ConfigMaps", "ConfigMaps">>}
    /\ synced' = synced \cup {k}
    /\ UNCHANGED <<main, stop, shutDown, items, worker, factoryVars, handler, channel>>

StartPods ==
    /\ main = "start Pods" /\ "Pods" \in synced
    /\ main' = "start ConfigMaps"
    /\ worker' = [w \in Workers |-> IF w \in PodWorkers THEN "get" ELSE worker[w]]
    /\ UNCHANGED <<synced, stop, shutDown, items, factoryVars, handler, channel>>

StartConfigMaps ==
    /\ main = "start ConfigMaps" /\ "ConfigMaps" \in synced
    /\ main' = "ready"
    /\ worker' = [w \in Workers |-> IF w \in ConfigMapWorkers THEN "get" ELSE worker[w]]
    /\ creator' = [c \in Creators |-> "select"]
    /\ cleaner' = "select"
    /\ UNCHANGED <<synced, stop, shutDown, items, handler, channel>>

-----------------------------------------------------------------------------
(* End.  main runs down the goroutines one kind after the other.            *)

MainGoes(pc) == main' = pc

(* The signal arrives and ctx is cancelled.                                 *)
Cancel ==
    /\ main = "ready"
    /\ MainGoes("cancelled")
    /\ UNCHANGED <<controllerVars, factoryVars, handler, channel>>

(* http.Server.Shutdown closes the listener, and waits for the requests.    *)
CloseListener ==
    /\ main = "cancelled"
    /\ MainGoes("drain")
    /\ UNCHANGED <<controllerVars, factoryVars, handler, channel>>

RestStopped ==
    /\ main = "drain"
    /\ \A h \in Handlers : handler[h] = "idle"
    /\ MainGoes("stop Pods")
    /\ stop' = stop \cup {"Pods"}
    /\ UNCHANGED <<synced, shutDown, items, worker, factoryVars, handler, channel>>

PodsStopped ==
    /\ main = "stop Pods"
    /\ \A w \in PodWorkers : worker[w] = "gone"
    /\ MainGoes("stop ConfigMaps")
    /\ stop' = stop \cup {"ConfigMaps"}
    /\ UNCHANGED <<synced, shutDown, items, worker, factoryVars, handler, channel>>

ConfigMapsStopped ==
    /\ main = "stop ConfigMaps"
    /\ \A w \in ConfigMapWorkers : worker[w] = "gone"
    /\ MainGoes("wait")
    /\ UNCHANGED <<controllerVars, factoryVars, handler, channel>>

(* Variant: the creators were not added to shutdownWG.                      *)
CleanerGone == cleaner = "gone"

FactoryGone == cleaner = "gone" /\ \A c \in Creators : creator[c] = "gone"

Return ==
    /\ main = "wait"
    /\ FactoryGone
    /\ MainGoes("returned")
    /\ UNCHANGED <<controllerVars, factoryVars, handler, channel>>

(* Variant: cancel is deferred until main returns.                          *)
CancelledAtReturn == main = "returned"

Cancelled == main \notin {"start Pods", "start ConfigMaps", "ready"}

-----------------------------------------------------------------------------
(* REST handlers *)

HandlerGoes(h, pc) == handler' = [handler EXCEPT ![h] = pc]

(* A request is accepted; its body has to be read, or its type is refused.  *)
Accept(h) ==
    /\ main \in {"ready", "cancelled"}
    /\ handler[h] = "idle"
    /\ \E pc \in {"body", "reply"} : HandlerGoes(h, pc)
    /\ UNCHANGED <<main, controllerVars, factoryVars, channel>>

(* The client has sent all of the body: it asks for a Pod that has to be    *)
(* sent to a creator, or the answer is there.                               *)
ReadBody(h) ==
    /\ handler[h] = "body"
    /\ \E pc \in {"send", "reply"} : HandlerGoes(h, pc)
    /\ UNCHANGED <<main, controllerVars, factoryVars, channel>>

Send(h) ==
    /\ handler[h] = "send"
    /\ channel < QueueSize
    /\ channel' = channel + 1
    /\ HandlerGoes(h, "reply")
    /\ UNCHANGED <<main, controllerVars, factoryVars>>

Reply(h) ==
    /\ handler[h] = "reply"
    /\ HandlerGoes(h, "idle")
    /\ UNCHANGED <<main, controllerVars, factoryVars, channel>>

-----------------------------------------------------------------------------
(* createOnDemandPods: select takes either branch when both are ready.      *)

Take(c) ==
    /\ creator[c] = "select"
    /\ channel > 0
    /\ channel' = channel - 1
    /\ creator' = [creator EXCEPT ![c] = "create"]
    /\ UNCHANGED <<main, controllerVars, cleaner, handler>>

Created(c) ==
    /\ creator[c] = "create"
    /\ creator' = [creator EXCEPT ![c] = "select"]
    /\ UNCHANGED <<main, controllerVars, cleaner, handler, channel>>

CreatorQuits(c) ==
    /\ creator[c] = "select"
    /\ Cancelled
    /\ creator' = [creator EXCEPT ![c] = "gone"]
    /\ UNCHANGED <<main, controllerVars, cleaner, handler, channel>>

CleanerQuits ==
    /\ cleaner = "select"
    /\ Cancelled
    /\ cleaner' = "gone"
    /\ UNCHANGED <<main, controllerVars, creator, handler, channel>>

-----------------------------------------------------------------------------
(* Controller: events are added to the queue until it is shut down, and the *)
(* workers take what is left in it before they end.                         *)

AddItem(k) ==
    /\ k \in synced /\ k \notin shutDown
    /\ items[k] < MaxItems
    /\ items' = [items EXCEPT ![k] = @ + 1]
    /\ UNCHANGED <<main, synced, stop, shutDown, worker, factoryVars, handler, channel>>

(* Variant: Run does not wait for stopCh after it has started the workers.  *)
RunMayReturn(k) == k \in synced

StopReceived(k) == k \in stop

(* Run returns from <-stopCh, and its deferred queue.ShutDown runs.         *)
RunReturns(k) ==
    /\ k \notin shutDown /\ StopReceived(k)
    /\ shutDown' = shutDown \cup {k}
    /\ UNCHANGED <<main, synced, stop, items, worker, factoryVars, handler, channel>>

GetItem(k, w) ==
    /\ worker[w] = "get"
    /\ items[k] > 0
    /\ items' = [items EXCEPT ![k] = @ - 1]
    /\ worker' = [worker EXCEPT ![w] = "handle"]
    /\ UNCHANGED <<main, synced, stop, shutDown, factoryVars, handler, channel>>

HandleItem(w) ==
    /\ worker[w] = "handle"
    /\ worker' = [worker EXCEPT ![w] = "get"]
    /\ UNCHANGED <<main, synced, stop, shutDown, items, factoryVars, handler, channel>>

(* Variant: a worker ends with its Controller, whatever waits in the queue. *)
QuitAtOnce(k) == k \in shutDown

Quit(k) == k \in shutDown /\ items[k] = 0

WorkerQuits(k, w) ==
    /\ worker[w] = "get"
    /\ Quit(k)
    /\ worker' = [worker EXCEPT ![w] = "gone"]
    /\ UNCHANGED <<main, synced, stop, shutDown, items, factoryVars, handler, channel>>

-----------------------------------------------------------------------------
MainStep ==
    StartPods \/ StartConfigMaps \/ CloseListener \/ RestStopped \/ PodsStopped
        \/ ConfigMapsStopped \/ Return

HandlerStep(h) == Send(h) \/ Reply(h)
CreatorStep(c) == Take(c) \/ Created(c) \/ CreatorQuits(c)
WorkerStep(k, w) == GetItem(k, w) \/ HandleItem(w) \/ WorkerQuits(k, w)

Next ==
    \/ MainStep \/ Cancel
    \/ \E h \in Handlers : Accept(h) \/ ReadBody(h) \/ HandlerStep(h)
    \/ \E c \in Creators : CreatorStep(c)
    \/ CleanerQuits
    \/ \E k \in Controllers :
         \/ CacheSyncs(k) \/ AddItem(k) \/ RunReturns(k)
         \/ \E w \in WorkersOf(k) : WorkerStep(k, w)

(* The scheduler runs every goroutine that can run, and the calls it makes  *)
(* return: an assumption for LDAP, whose calls have no deadline             *)
(* (userlookup.go:168-179).  Go picks a ready branch of a select at random, *)
(* so a creator that finds ctx done again and again quits.  Signals,        *)
(* requests, events, the first sync of the caches and the rest of a         *)
(* request's body, which has no deadline either (rest.go:71-75), may never  *)
(* come.                                                                    *)
Fairness ==
    /\ WF_vars(MainStep)
    /\ \A h \in Handlers : WF_vars(HandlerStep(h))
    /\ \A c \in Creators : WF_vars(CreatorStep(c)) /\ SF_vars(CreatorQuits(c))
    /\ WF_vars(CleanerQuits)
    /\ \A k \in Controllers :
         /\ WF_vars(RunReturns(k))
         /\ \A w \in WorkersOf(k) : WF_vars(WorkerStep(k, w))

Spec == Init /\ [][Next]_vars /\ Fairness

(* Clients that send the body they have announced.                          *)
PatientSpec == Spec /\ \A h \in Handlers : WF_vars(ReadBody(h))

-----------------------------------------------------------------------------
(* Properties *)

(* When main returns nothing works on any more: every goroutine that uses   *)
(* the factory is gone, and no event has been left in a queue               *)
(* (factory.go:166-167, 243-247, rest.go:190-196, k8swatcher.go:142-147).   *)
NothingRuns ==
    main = "returned" =>
        /\ \A h \in Handlers : handler[h] = "idle"
        /\ \A c \in Creators : creator[c] = "gone"
        /\ \A w \in Workers : worker[w] = "gone"
        /\ \A k \in Controllers : items[k] = 0

(* Somebody goes on without a client or a new event: one of the waits of    *)
(* main is over, or a goroutine that main waits for is not waiting.         *)
MainGoesOn ==
    \/ main = "cancelled"
    \/ main = "drain" /\ \A h \in Handlers : handler[h] = "idle"
    \/ main = "stop Pods" /\ \A w \in PodWorkers : worker[w] = "gone"
    \/ main = "stop ConfigMaps" /\ \A w \in ConfigMapWorkers : worker[w] = "gone"
    \/ main = "wait" /\ FactoryGone

RequestGoesOn ==
    \E h \in Handlers : handler[h] = "reply" \/ (handler[h] = "send" /\ channel < QueueSize)

FactoryGoesOn ==
    \/ \E c \in Creators :
         creator[c] = "create" \/ (creator[c] = "select" /\ (Cancelled \/ channel > 0))
    \/ cleaner = "select" /\ Cancelled

ControllerGoesOn(k) ==
    \/ k \notin shutDown /\ StopReceived(k)
    \/ \E w \in WorkersOf(k) :
         worker[w] = "handle" \/ (worker[w] = "get" /\ (items[k] > 0 \/ Quit(k)))

SomebodyGoesOn ==
    MainGoesOn \/ RequestGoesOn \/ FactoryGoesOn \/ \E k \in Controllers : ControllerGoesOn(k)

(* After the signal only requests hold up the process, in two ways: one     *)
(* waits for the rest of its client's body, or everyone waits on everyone,  *)
(* main for requests that wait for room in a full createChannel and they    *)
(* for creators that are gone (rest.go:136, factory.go:166-167, 283,        *)
(* server.go:211-217).                                                      *)
OnlyRequestsAreStuck ==
    main \in {"cancelled", "drain", "stop Pods", "stop ConfigMaps", "wait"} /\ ~SomebodyGoesOn =>
        /\ main = "drain"
        /\ \E h \in Handlers : handler[h] # "idle"
        /\ \A h \in Handlers :
             handler[h] \in {"idle", "body"} \/ (handler[h] = "send" /\ channel = QueueSize)
        /\ \A c \in Creators : creator[c] = "gone"

BodiesRead == \A h \in Handlers : handler[h] # "body"
Sending == {h \in Handlers : handler[h] = "send"}
Room == channel + Cardinality(Sending) <= QueueSize

(* Once the listener is closed and every body is read, the process ends,    *)
(* provided createChannel has room for every request that is still being    *)
(* sent: nobody else waits for a goroutine that waits for him               *)
(* (server.go:211-221).                                                     *)
EndsIfRoom == (main = "drain" /\ BodiesRead /\ Room) ~> (main = "returned")

(* "Main still running" is an error after SIGTERM (server_test.go:100).     *)
MainReturns == (main = "cancelled") ~> (main = "returned")
=============================================================================
