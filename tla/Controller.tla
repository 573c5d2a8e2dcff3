----------------------------- MODULE Controller -----------------------------
(***************************************************************************)
(* A Controller (internal/factory/k8swatcher.go) with its informer and its  *)
(* work queue in full.  OdpFactory only counts the items of a Pod, and      *)
(* assumes that one that waits is handed out at last; here items have their *)
(* type, the queue is the FIFO of client-go, and both are what follows.     *)
(* Of an object only its presence is kept, and whether it changed since a   *)
(* worker last read it.                                                     *)
(***************************************************************************)
EXTENDS Sequences, Naturals

CONSTANTS
    Keys,
    Deletable, \* bound: keys of objects that may be deleted
    Workers,
    None

ASSUME DeletableAssumption == Deletable \subseteq Keys

VARIABLES
    indexer,    \* objects in the cache
    unread,     \* keys whose cached object changed since a worker read it
    adding,     \* the item a callback is about to add, or None
    queue,      \* the work queue, with its sets
    dirty, processing,
    worker      \* what each worker is doing, with its item

queueVars  == <<queue, dirty, processing>>
vars == <<indexer, unread, adding, queueVars, worker>>

EventTypes == {"create", "update", "delete"}
eventKeyType == Keys \X EventTypes
Key(item) == item[1]

ASSUME NoneAssumption == None \notin eventKeyType \cup Keys

WorkerIdle == [pc |-> "idle", item |-> None]

Init ==
    /\ indexer = {} /\ unread = {}
    /\ adding = None
    /\ queue = << >> /\ dirty = {} /\ processing = {}
    /\ worker = [w \in Workers |-> WorkerIdle]

-----------------------------------------------------------------------------
(* The informer: the cache is changed first, then the callback adds an item *)

(* An object is listed, added or modified; one that is cached is deleted,   *)
(* or was deleted while the watch was broken, which a List shows: then the  *)
(* delta is a tombstone.                                                    *)
Deltas(k) == {"set"} \cup IF k \in indexer \cap Deletable THEN {"gone", "tombstone"} ELSE {}

(* MetaNamespaceKeyFunc knows the key of an object only,                    *)
(* DeletionHandlingMetaNamespaceKeyFunc also that of a tombstone.           *)
HasKey(keyFunc, delta) == keyFunc = "DeletionHandling" \/ delta # "tombstone"

(* Variant: one key function for all the callbacks.                         *)
MetaKeyFunc(delta) == "Meta"

KeyFunc(delta) == IF delta = "set" THEN "Meta" ELSE "DeletionHandling"

EventType(k, delta) ==
    IF delta # "set" THEN "delete" ELSE IF k \in indexer THEN "update" ELSE "create"

Inform(k) ==
    /\ adding = None
    /\ \E delta \in Deltas(k) :
       /\ indexer' = IF delta = "set" THEN indexer \cup {k} ELSE indexer \ {k}
       /\ adding' = IF HasKey(KeyFunc(delta), delta) THEN <<k, EventType(k, delta)>>
                                                     ELSE None
    /\ unread' = unread \cup {k}
    /\ UNCHANGED <<queueVars, worker>>

(* queue.Add: an item that waits is merged with its equal; one that is in   *)
(* hand waits in dirty until its worker is done with it.                    *)
AddItem ==
    /\ adding # None
    /\ adding' = None
    /\ dirty' = dirty \cup {adding}
    /\ queue' = IF adding \in dirty \cup processing THEN queue ELSE Append(queue, adding)
    /\ UNCHANGED <<indexer, unread, processing, worker>>

-----------------------------------------------------------------------------
(* processNextItem *)

WorkerAt(w, pc) == worker[w].pc = pc

(* Variant: Done is called at once, and not when the item was handled.      *)
GetAndDone(w) ==
    /\ WorkerAt(w, "idle") /\ queue # << >>
    /\ worker' = [worker EXCEPT ![w] = [pc |-> "fetch", item |-> Head(queue)]]
    /\ queue' = Tail(queue)
    /\ dirty' = dirty \ {Head(queue)}
    /\ UNCHANGED <<indexer, unread, adding, processing>>

GetItem(w) ==
    /\ WorkerAt(w, "idle") /\ queue # << >>
    /\ worker' = [worker EXCEPT ![w] = [pc |-> "fetch", item |-> Head(queue)]]
    /\ queue' = Tail(queue)
    /\ dirty' = dirty \ {Head(queue)}
    /\ processing' = processing \cup {Head(queue)}
    /\ UNCHANGED <<indexer, unread, adding>>

(* GetByKey; what HandleEvent does with the object is in OdpFactory.        *)
handleItem(w) ==
    /\ WorkerAt(w, "fetch")
    /\ unread' = unread \ {Key(worker[w].item)}
    /\ worker' = [worker EXCEPT ![w].pc = "handle"]
    /\ UNCHANGED <<indexer, adding, queueVars>>

(* Variants: Done is never called; a handled item is queued once more.      *)
NeverDone(w) ==
    /\ WorkerAt(w, "handle")
    /\ worker' = [worker EXCEPT ![w] = WorkerIdle]
    /\ UNCHANGED <<indexer, unread, adding, queueVars>>

DoneAndAgain(w) ==
    /\ WorkerAt(w, "handle")
    /\ worker' = [worker EXCEPT ![w] = WorkerIdle]
    /\ processing' = processing \ {worker[w].item}
    /\ queue' = Append(queue, worker[w].item)
    /\ UNCHANGED <<indexer, unread, adding, dirty>>

Done(w) ==
    /\ WorkerAt(w, "handle")
    /\ LET item == worker[w].item IN
       /\ processing' = processing \ {item}
       /\ queue' = IF item \in dirty THEN Append(queue, item) ELSE queue
    /\ worker' = [worker EXCEPT ![w] = WorkerIdle]
    /\ UNCHANGED <<indexer, unread, adding, dirty>>

processNextItem(w) == GetItem(w) \/ handleItem(w) \/ Done(w)

-----------------------------------------------------------------------------
Next ==
    \/ \E k \in Keys : Inform(k)
    \/ AddItem
    \/ \E w \in Workers : processNextItem(w)

Spec == Init /\ [][Next]_vars

(* The callbacks return, and workers run.  Which worker gets an item is up  *)
(* to the runtime.                                                          *)
Fairness ==
    /\ WF_vars(AddItem)
    /\ WF_vars(\E w \in Workers : GetItem(w))
    /\ \A w \in Workers : WF_vars(handleItem(w)) /\ WF_vars(Done(w))

LiveSpec == Spec /\ Fairness

Distinct(s) == \A i, j \in DOMAIN s : s[i] = s[j] => i = j
Waits(item) == \E i \in DOMAIN queue : queue[i] = item

TypeOK ==
    /\ indexer \subseteq Keys /\ unread \subseteq Keys
    /\ adding \in eventKeyType \cup {None}
    /\ queue \in Seq(eventKeyType) /\ Distinct(queue)
    /\ dirty \subseteq eventKeyType /\ processing \subseteq eventKeyType
    /\ \A item \in eventKeyType : Waits(item) <=> item \in dirty \ processing
    /\ worker \in [Workers -> [pc : {"idle", "fetch", "handle"},
                               item : eventKeyType \cup {None}]]

-----------------------------------------------------------------------------
(* Properties *)

(* A change of the cache that no worker has read will be read: its item is  *)
(* being added, or waits, or a worker that has an item of the object has    *)
(* not read it yet (k8swatcher.go:91-115, 185, 219-233).  The retries of    *)
(* handleErr play no part: the indexer never fails to answer.               *)
NoMissedChange ==
    \A k \in unread :
        \/ adding # None /\ Key(adding) = k
        \/ \E item \in dirty : Key(item) = k
        \/ \E w \in Workers : WorkerAt(w, "fetch") /\ Key(worker[w].item) = k

(* No two workers have the same item, so that at most one worker for each   *)
(* type of event, and not all five, handle one Pod at a time                *)
(* (k8swatcher.go:42-45, 26, 224).                                          *)
OneAtATime ==
    \A v, w \in Workers :
        v # w /\ worker[v].item # None => worker[v].item # worker[w].item

(* The refinement mapping.  OdpFactory counts the items of a Pod that wait  *)
(* or are about to be added; a worker there reads the cache and goes on     *)
(* with what it read until it rests.  Only the variables that its actions   *)
(* of the Controller change matter, the others are left as they are.        *)
One(condition) == IF condition THEN 1 ELSE 0

Pending(k) ==
    One(<<k, "create">> \in dirty) + One(<<k, "update">> \in dirty)
    + One(<<k, "delete">> \in dirty) + One(adding # None /\ Key(adding) = k)

MaxPending == 4

FactoryPlace == [idle |-> "idle", fetch |-> "read", handle |-> "lock"]

FactoryWorker(w) ==
    [pc   |-> FactoryPlace[worker[w].pc],
     name |-> IF WorkerAt(w, "idle") THEN None ELSE Key(worker[w].item),
     pod  |-> None, odp |-> None]

factoryWaiting == [k \in Keys |-> Pending(k)]
factoryWorkers == [w \in Workers |-> FactoryWorker(w)]

Factory == INSTANCE OdpFactory WITH
    Names <- Keys, MaxItems <- MaxPending,
    waiting <- factoryWaiting, worker <- factoryWorkers,
    cache   <- [k \in Keys |-> None],
    Odps <- {}, Uids <- {}, Tokens <- {}, Requesters <- {}, Creators <- {},
    QueueSize <- 1, MaxLag <- 1, TokenWanted <- {}, Faults <- {}, Endings <- {},
    odps <- None, heap <- None, createChannel <- << >>, deletedPods <- {},
    requester <- None, creator <- None, api <- None, watch <- None, tokens <- {},
    undeleted <- {}, instance <- 0

(* What a worker does with the object it has read is in OdpFactory.         *)
FactoryRests(w) ==
    Factory!WorkerAt(w, "lock") /\ Factory!WorkerRests(w) /\ UNCHANGED factoryWaiting

(* All that the informer, the queue and the workers of a Controller do is   *)
(* what OdpFactory takes them to do: it counts the items of a Pod, knows    *)
(* nothing of types, order, dirty and processing, and lets a name be in the *)
(* hands of as many workers as it may have items (k8swatcher.go:91-115,     *)
(* 182, 219-233).                                                           *)
ImplementsFactoryQueue ==
    [][\/ \E k \in Keys : (Factory!AddItem(k) /\ UNCHANGED factoryWorkers)
                           \/ Factory!MergeItem(k)
       \/ \E w \in Workers :
             \/ \E k \in Keys : Factory!GetItem(w, k)
             \/ Factory!ReadCache(w)
             \/ FactoryRests(w)
      ]_<<factoryWaiting, factoryWorkers>>

(* Every change is read by a worker at last, although only weak fairness    *)
(* is assumed of the workers together: the queue is FIFO.                   *)
ChangeIsRead == \A k \in Keys : k \in unread ~> k \notin unread

=============================================================================
