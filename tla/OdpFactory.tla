----------------------------- MODULE OdpFactory -----------------------------
(***************************************************************************)
(* The core of the service (internal/factory): the map of On Demand Pods    *)
(* (odps), the goroutines that work on it, and what they share with the     *)
(* Kubernetes API and the ODP Token service.                                *)
(*                                                                         *)
(*   requesters  REST handlers inside GetOnDemandPod                        *)
(*   creators    the createOnDemandPods goroutines, fed by createChannel    *)
(*   workers     the Controller's pod workers inside handlePodEvent, fed    *)
(*               by a work queue that the informer fills                    *)
(*                                                                         *)
(* odpsMutex protects the map only: an *OnDemandPod taken from the map is   *)
(* read and written without a lock, also after the map has moved on to      *)
(* another object.  The model keeps that aliasing: odps maps a name to an   *)
(* object id and heap maps the id to the object.  Ids, Pod UIDs and tokens  *)
(* nobody refers to any more are used again, so the model is finite without *)
(* a bound on the number of requests.                                       *)
(***************************************************************************)
EXTENDS Naturals, Sequences, FiniteSets

CONSTANTS
    Names,       \* Pod names: one per (user, application, instance)
    Odps,        \* ids of OnDemandPod objects alive at the same time
    Uids,        \* Pod UIDs in sight at the same time
    Tokens,      \* ODP Token names in sight at the same time
    Requesters, Creators, Workers,
    QueueSize,   \* capacity of createChannel
    MaxLag,      \* watch notifications the informer may be behind, per name
    MaxItems,    \* work items of one Pod, with the one being added: 4 in the code
    TokenWanted, \* does a request name token types: {TRUE}, {FALSE} or both
    Faults,      \* the calls that may fail
    Endings,     \* the phases a Pod may end in: Succeeded, Failed or both
    None

ASSUME NoneAssumption ==
    None \notin Names \cup Odps \cup Uids \cup Tokens
ASSUME BoundsAssumption ==
    /\ QueueSize \in Nat \ {0}
    /\ MaxLag \in Nat \ {0}
    /\ MaxItems \in Nat \ {0}
ASSUME ChoiceAssumption ==
    /\ TokenWanted \subseteq BOOLEAN
    /\ Faults \subseteq {"createToken", "deleteToken", "createPod", "deletePod"}
    /\ Endings \subseteq {"Succeeded", "Failed"}

VARIABLES
    odps,          \* OdpFactoryImpl.odps
    heap,          \* the OnDemandPod objects
    createChannel, \* OdpFactoryImpl.createChannel
    deletedPods,   \* OdpFactoryImpl.deletedPods (its keys)
    requester, creator, worker, \* where each goroutine is, and its locals
    waiting,       \* work queue: items of each Pod not yet handed to a worker
    cache,         \* the informer's indexer
    api,           \* the Pods in the namespace
    watch,         \* changes to api the informer has not been told of
    tokens,        \* tokens that exist in the ODP Token service
    undeleted,     \* history: UIDs of the Pods whose DELETE call failed
    instance       \* history: instances of the service, by turns 0 and 1

sharedVars  == <<odps, createChannel, deletedPods>>
controlVars == <<waiting, cache>>
serverVars  == <<api, watch, tokens, undeleted>>
requesterFrame == <<creator, worker, controlVars, instance>>
creatorFrame   == <<requester, worker, controlVars, instance>>
workerFrame    == <<requester, creator, controlVars, instance>>
stillVars      == <<requester, creator, worker, controlVars, instance>>
vars == <<sharedVars, heap, stillVars, serverVars>>

-----------------------------------------------------------------------------
(* Types *)

Finished == {"Succeeded", "Failed"}
Phases   == {"Pending", "Running"} \cup Endings

Pod == [uid : Uids, phase : Phases, token : Tokens \cup {None}]

(* code is ResultCode, with one "Failed" for the codes 1 to 5; err is       *)
(* ErrorTime: unset, set, or set more than errorTTL ago; wants stands for   *)
(* len(TokenTypes) > 0, requested and created for tRequested and tCreated   *)
(* being set, token for TokenName.                                          *)
Odp == [wants : BOOLEAN, requested : BOOLEAN, created : BOOLEAN,
        code : {"Creating", "Ready", "Failed"},
        err : {"none", "fresh", "expired"},
        token : Tokens \cup {None}]

NewOdp(requested, wants) ==
    [wants |-> wants, requested |-> requested, created |-> FALSE,
     code |-> "Creating", err |-> "none", token |-> None]

IdleRequester == [pc |-> "idle", name |-> None, odp |-> None]
IdleCreator   == [pc |-> "idle", name |-> None, odp |-> None, token |-> None]
IdleWorker    == [pc |-> "idle", name |-> None, pod |-> None, odp |-> None]

RequesterState ==
    [pc : {"idle", "check", "send"}, name : Names \cup {None}, odp : Odps \cup {None}]

CreatorState ==
    [pc : {"idle", "find", "checks", "token", "spec", "post", "done", "failed", "undo"},
     name : Names \cup {None}, odp : Odps \cup {None}, token : Tokens \cup {None}]

WorkerState ==
    [pc : {"idle", "read", "lock", "reload", "act", "remember", "token", "clear", "delete"},
     name : Names \cup {None}, pod : Pod \cup {None}, odp : Odps \cup {None}]

TypeOK ==
    /\ odps \in [Names -> Odps \cup {None}]
    /\ heap \in [Odps -> Odp]
    /\ createChannel \in Seq(Names) /\ Len(createChannel) <= QueueSize
    /\ deletedPods \subseteq Uids
    /\ requester \in [Requesters -> RequesterState]
    /\ creator \in [Creators -> CreatorState]
    /\ worker \in [Workers -> WorkerState]
    /\ waiting \in [Names -> 0..MaxItems]
    /\ cache \in [Names -> Pod \cup {None}]
    /\ api \in [Names -> Pod \cup {None}]
    /\ watch \in [Names -> Seq(Pod \cup {None})]
    /\ \A n \in Names : Len(watch[n]) <= MaxLag
    /\ tokens \subseteq Tokens
    /\ undeleted \subseteq Uids
    /\ instance \in {0, 1}

-----------------------------------------------------------------------------
(* What is still referred to *)

HeldOdps == {odps[n] : n \in Names} \cup {requester[r].odp : r \in Requesters}
            \cup {creator[c].odp : c \in Creators}
            \cup {worker[w].odp : w \in Workers}

Watched(n) == {watch[n][i] : i \in DOMAIN watch[n]}

PodsInSight == ({api[n] : n \in Names} \cup {cache[n] : n \in Names}
                \cup (UNION {Watched(n) : n \in Names})
                \cup {worker[w].pod : w \in Workers}) \ {None}

FreshOdps == Odps \ HeldOdps
FreshUids == Uids \ ({p.uid : p \in PodsInSight} \cup deletedPods \cup undeleted)
FreshTokens == Tokens \ (tokens \cup {p.token : p \in PodsInSight}
                         \cup {heap[o].token : o \in HeldOdps \ {None}}
                         \cup {creator[c].token : c \in Creators})

(* The informer is told of each change in order.  When it is MaxLag changes *)
(* behind, its watch has been closed and it will list the namespace again:  *)
(* it only sees the latest change.                                          *)
SetPod(n, p) ==
    /\ api' = [api EXCEPT ![n] = p]
    /\ watch' = [watch EXCEPT ![n] = IF Len(@) < MaxLag THEN Append(@, p)
                                     ELSE [@ EXCEPT ![MaxLag] = p]]

RemovePod(n) == SetPod(n, None) /\ undeleted' = undeleted \ {api[n].uid}

-----------------------------------------------------------------------------
(* NewOdpFactory.  The service may start beside Pods an earlier instance    *)
(* created; StartController returns once the cache has synced, and the      *)
(* informer then has queued a create event for each of them.                *)

ExistingPods ==
    {a \in [Names -> Pod \cup {None}] :
        \A m, n \in Names : (m # n /\ a[m] # None /\ a[n] # None) =>
            /\ a[m].uid # a[n].uid
            /\ a[m].token = None \/ a[m].token # a[n].token}

CreateEvents(a) == [n \in Names |-> IF a[n] = None THEN 0 ELSE 1]

Init ==
    /\ odps = [n \in Names |-> None]
    /\ heap = [o \in Odps |-> NewOdp(FALSE, FALSE)]
    /\ createChannel = << >>
    /\ deletedPods = {}
    /\ requester = [r \in Requesters |-> IdleRequester]
    /\ creator = [c \in Creators |-> IdleCreator]
    /\ worker = [w \in Workers |-> IdleWorker]
    /\ api \in ExistingPods
    /\ cache = api
    /\ watch = [n \in Names |-> << >>]
    /\ waiting = CreateEvents(api)
    /\ tokens = {api[n].token : n \in {m \in Names : api[m] # None}} \ {None}
    /\ undeleted = {}
    /\ instance = 0

(* The process dies and is started again: everything in memory is lost.     *)
Restart ==
    /\ odps' = [n \in Names |-> None]
    /\ heap' = [o \in Odps |-> NewOdp(FALSE, FALSE)]
    /\ createChannel' = << >>
    /\ deletedPods' = {}
    /\ requester' = [r \in Requesters |-> IdleRequester]
    /\ creator' = [c \in Creators |-> IdleCreator]
    /\ worker' = [w \in Workers |-> IdleWorker]
    /\ cache' = api
    /\ watch' = [n \in Names |-> << >>]
    /\ waiting' = CreateEvents(api)
    /\ undeleted' = {}
    /\ instance' = 1 - instance
    /\ UNCHANGED <<api, tokens>>

-----------------------------------------------------------------------------
(* GetOnDemandPod *)

setOdpError(o) ==
    heap' = [heap EXCEPT ![o].code = "Failed", ![o].err = "fresh"]

isOdpErrorExpired(o) == heap[o].err = "expired"

(* The section under odpsMutex.  A request for an entry whose error has not *)
(* expired, or that has none, changes nothing: it is answered from the      *)
(* entry, and is not a step of the model.                                   *)
Request(r, n) ==
    /\ requester[r].pc = "idle"
    /\ odps[n] # None => isOdpErrorExpired(odps[n])
    /\ \E o \in FreshOdps, wants \in TokenWanted :
         /\ heap' = [heap EXCEPT ![o] = NewOdp(TRUE, wants)]
         /\ odps' = [odps EXCEPT ![n] = o]
         /\ requester' = [requester EXCEPT
                             ![r] = [pc |-> "check", name |-> n, odp |-> o]]
    /\ UNCHANGED <<createChannel, deletedPods, requesterFrame, serverVars>>

(* After the lock is released ErrorTime is read: an error that another      *)
(* goroutine has set meanwhile is returned, and nothing is sent.            *)
CheckError(r) ==
    /\ requester[r].pc = "check"
    /\ IF heap[requester[r].odp].err # "none"
       THEN requester' = [requester EXCEPT ![r] = IdleRequester]
       ELSE requester' = [requester EXCEPT ![r].pc = "send"]
    /\ UNCHANGED <<sharedVars, heap, requesterFrame, serverVars>>

(* The send blocks while the channel is full.  (Variant: off by one.)       *)
CanSendOneMore == Len(createChannel) <= QueueSize
CanSend == Len(createChannel) < QueueSize

SendCreate(r) ==
    /\ requester[r].pc = "send"
    /\ CanSend
    /\ createChannel' = Append(createChannel, requester[r].name)
    /\ requester' = [requester EXCEPT ![r] = IdleRequester]
    /\ UNCHANGED <<odps, heap, deletedPods, requesterFrame, serverVars>>

-----------------------------------------------------------------------------
(* createOnDemandPods, createOnDemandPod *)

CreatorAt(c, pc) == creator[c].pc = pc
CreatorGoes(c, pc) == creator' = [creator EXCEPT ![c].pc = pc]
CreatorRests(c) == creator' = [creator EXCEPT ![c] = IdleCreator]

TakeName(c) ==
    /\ CreatorAt(c, "idle")
    /\ createChannel # << >>
    /\ createChannel' = Tail(createChannel)
    /\ creator' = [creator EXCEPT ![c] =
            [pc |-> "find", name |-> Head(createChannel), odp |-> None, token |-> None]]
    /\ UNCHANGED <<odps, heap, deletedPods, creatorFrame, serverVars>>

FindOdp(c) ==
    /\ CreatorAt(c, "find")
    /\ IF odps[creator[c].name] = None THEN CreatorRests(c)
       ELSE creator' = [creator EXCEPT ![c].pc = "checks",
                                       ![c].odp = odps[creator[c].name]]
    /\ UNCHANGED <<sharedVars, heap, creatorFrame, serverVars>>

(* There is no template for the application, the LDAP lookup fails, or the  *)
(* user is in none of the template's access groups.                         *)
Refuse(c) ==
    /\ CreatorAt(c, "checks")
    /\ setOdpError(creator[c].odp)
    /\ CreatorRests(c)
    /\ UNCHANGED <<sharedVars, creatorFrame, serverVars>>

Admit(c) ==
    /\ CreatorAt(c, "checks")
    /\ CreatorGoes(c, IF heap[creator[c].odp].wants THEN "token" ELSE "spec")
    /\ UNCHANGED <<sharedVars, heap, creatorFrame, serverVars>>

(* The answer of the service may lack the name of the token.                *)
createOdpToken(c) ==
    /\ CreatorAt(c, "token")
    /\ \E t \in FreshTokens :
         /\ tokens' = tokens \cup {t}
         /\ \E name \in {t} \cup (IF "createToken" \in Faults THEN {None} ELSE {}) :
              heap' = [heap EXCEPT ![creator[c].odp].token = name]
    /\ CreatorGoes(c, "spec")
    /\ UNCHANGED <<sharedVars, creatorFrame, api, watch, undeleted>>

(* The call fails, or its answer is lost after the token was created.       *)
createOdpTokenFails(c) ==
    /\ CreatorAt(c, "token")
    /\ "createToken" \in Faults
    /\ \/ UNCHANGED tokens
       \/ \E t \in FreshTokens : tokens' = tokens \cup {t}
    /\ setOdpError(creator[c].odp)
    /\ CreatorRests(c)
    /\ UNCHANGED <<sharedVars, creatorFrame, api, watch, undeleted>>

(* Variant: getPodSpec returns nil without setOdpError.                     *)
getPodSpecFailsSilently(c) ==
    /\ CreatorAt(c, "spec")
    /\ CreatorRests(c)
    /\ UNCHANGED <<sharedVars, heap, creatorFrame, serverVars>>

(* The template cannot be executed or decoded, or rejects the request.      *)
getPodSpecFails(c) ==
    /\ CreatorAt(c, "spec")
    /\ setOdpError(creator[c].odp)
    /\ CreatorRests(c)
    /\ UNCHANGED <<sharedVars, creatorFrame, serverVars>>

(* The Pod's annotation is the TokenName the object has at this moment.     *)
getPodSpec(c) ==
    /\ CreatorAt(c, "spec")
    /\ creator' = [creator EXCEPT ![c].pc = "post",
                                  ![c].token = heap[creator[c].odp].token]
    /\ UNCHANGED <<sharedVars, heap, creatorFrame, serverVars>>

(* The Kubernetes side of createPod.                                        *)
PostPod(c) ==
    \E u \in FreshUids :
        /\ api[creator[c].name] = None
        /\ SetPod(creator[c].name, [uid |-> u, phase |-> "Pending",
                                    token |-> creator[c].token])

createPod(c) ==
    /\ CreatorAt(c, "post")
    /\ PostPod(c)
    /\ CreatorGoes(c, "done")
    /\ UNCHANGED <<sharedVars, heap, creatorFrame, tokens, undeleted>>

(* A Pod of that name exists, or the call fails before or after its effect. *)
createPodFails(c) ==
    /\ CreatorAt(c, "post")
    /\ \/ api[creator[c].name] # None /\ UNCHANGED <<api, watch>>
       \/ "createPod" \in Faults /\ (PostPod(c) \/ UNCHANGED <<api, watch>>)
    /\ CreatorGoes(c, "failed")
    /\ UNCHANGED <<sharedVars, heap, creatorFrame, tokens, undeleted>>

(* Variant: ResultCode is set when the Pod was made, not when it was asked for. *)
CodeAfterPost(c) ==
    /\ CreatorAt(c, "done")
    /\ heap' = [heap EXCEPT ![creator[c].odp].created = TRUE,
                            ![creator[c].odp].code = "Creating"]
    /\ CreatorRests(c)
    /\ UNCHANGED <<sharedVars, creatorFrame, serverVars>>

PodCreated(c) ==
    /\ CreatorAt(c, "done")
    /\ heap' = [heap EXCEPT ![creator[c].odp].created = TRUE]
    /\ CreatorRests(c)
    /\ UNCHANGED <<sharedVars, creatorFrame, serverVars>>

PodNotCreated(c) ==
    /\ CreatorAt(c, "failed")
    /\ heap' = [heap EXCEPT ![creator[c].odp].created = TRUE,
                            ![creator[c].odp].code = "Failed",
                            ![creator[c].odp].err = "fresh"]
    /\ CreatorGoes(c, "undo")
    /\ UNCHANGED <<sharedVars, creatorFrame, serverVars>>

(* An error of DeleteToken is only logged.                                  *)
deleteOdpToken(o) ==
    \/ tokens' = tokens \ {heap[o].token}
    \/ "deleteToken" \in Faults /\ UNCHANGED tokens

UndoToken(c) ==
    /\ CreatorAt(c, "undo")
    /\ deleteOdpToken(creator[c].odp)
    /\ CreatorRests(c)
    /\ UNCHANGED <<sharedVars, heap, creatorFrame, api, watch, undeleted>>

CreatorStep(c) ==
    \/ TakeName(c) \/ FindOdp(c) \/ Refuse(c) \/ Admit(c)
    \/ createOdpToken(c) \/ createOdpTokenFails(c)
    \/ getPodSpec(c) \/ getPodSpecFails(c)
    \/ createPod(c) \/ createPodFails(c)
    \/ PodCreated(c) \/ PodNotCreated(c) \/ UndoToken(c)

-----------------------------------------------------------------------------
(* Controller: informer callbacks, work queue, handleItem *)

(* Variant: a Pod some worker has in hand is not queued again.              *)
AddItemUnlessInHand(n) ==
    IF \E w \in Workers : worker[w].name = n THEN UNCHANGED waiting
    ELSE waiting' = [waiting EXCEPT ![n] = 1]

(* A callback of the informer adds the item <<key, event type>> to the      *)
(* queue.  handleItem does not look at the type, so the model only counts   *)
(* the items of a Pod, and the one a callback is still about to add among   *)
(* them: 3 types and that one in the code.  With a smaller bound the new    *)
(* item is merged at once.                                                  *)
AddItem(n) ==
    \/ /\ waiting[n] < MaxItems
       /\ waiting' = [waiting EXCEPT ![n] = @ + 1]
    \/ waiting[n] > 0 /\ UNCHANGED waiting

(* The queue keeps an item that waits already once.                         *)
MergeItem(n) ==
    /\ waiting[n] > 1
    /\ waiting' = [waiting EXCEPT ![n] = @ - 1]
    /\ UNCHANGED <<sharedVars, heap, requester, creator, worker, cache, serverVars, instance>>

(* The informer applies the next change (or, after a new list, the latest)  *)
(* to its cache; only a Pod that came and went in between makes no event.   *)
Inform(n) ==
    /\ watch[n] # << >>
    /\ \E i \in {1, Len(watch[n])} :
         /\ cache' = [cache EXCEPT ![n] = watch[n][i]]
         /\ watch' = [watch EXCEPT ![n] = SubSeq(@, i + 1, Len(@))]
         /\ IF cache[n] = None /\ watch[n][i] = None THEN UNCHANGED waiting
                                                    ELSE AddItem(n)
    /\ UNCHANGED <<sharedVars, heap, requester, creator, worker>>
    /\ UNCHANGED <<api, tokens, undeleted, instance>>

WorkerAt(w, pc) == worker[w].pc = pc
WorkerGoes(w, pc) == worker' = [worker EXCEPT ![w].pc = pc]
WorkerRests(w) == worker' = [worker EXCEPT ![w] = IdleWorker]
NameOf(w) == worker[w].name

InHand(n) == {w \in Workers : worker[w].name = n}

(* queue.Get: an item is handed to one worker at a time; items of one Pod   *)
(* with different types are handed to several.                              *)
GetItem(w, n) ==
    /\ WorkerAt(w, "idle")
    /\ waiting[n] > 0
    /\ Cardinality(InHand(n)) < MaxItems
    /\ waiting' = [waiting EXCEPT ![n] = @ - 1]
    /\ worker' = [worker EXCEPT ![w] =
            [pc |-> "read", name |-> n, pod |-> None, odp |-> None]]
    /\ UNCHANGED <<sharedVars, heap, requester, creator, cache, serverVars, instance>>

ReadCache(w) ==
    /\ WorkerAt(w, "read")
    /\ worker' = [worker EXCEPT ![w].pc = "lock", ![w].pod = cache[NameOf(w)]]
    /\ UNCHANGED <<sharedVars, heap, workerFrame, serverVars>>

-----------------------------------------------------------------------------
(* handlePodEvent: the section under odpsMutex has four outcomes *)

Locked(w) == WorkerAt(w, "lock")

(* Variant: the entry of a Pod that is gone is removed, whatever its error. *)
PodGoneIsForgotten(w) ==
    /\ Locked(w) /\ worker[w].pod = None
    /\ odps' = [odps EXCEPT ![NameOf(w)] = None]
    /\ WorkerRests(w)
    /\ UNCHANGED <<heap, createChannel, deletedPods, workerFrame, serverVars>>

PodDeleted(w) ==
    /\ Locked(w) /\ worker[w].pod = None
    /\ LET o == odps[NameOf(w)] IN
       odps' = IF o # None /\ isOdpErrorExpired(o)
               THEN [odps EXCEPT ![NameOf(w)] = None] ELSE odps
    /\ WorkerRests(w)
    /\ UNCHANGED <<heap, createChannel, deletedPods, workerFrame, serverVars>>

DropEvent(w) ==
    /\ Locked(w) /\ worker[w].pod # None
    /\ odps[NameOf(w)] = None
    /\ worker[w].pod.uid \in deletedPods
    /\ WorkerRests(w)
    /\ UNCHANGED <<sharedVars, heap, workerFrame, serverVars>>

KnownOdp(w) ==
    /\ Locked(w) /\ worker[w].pod # None
    /\ odps[NameOf(w)] # None
    /\ worker' = [worker EXCEPT ![w].pc = "act", ![w].odp = odps[NameOf(w)]]
    /\ UNCHANGED <<sharedVars, heap, workerFrame, serverVars>>

NewEntry(w) ==
    /\ Locked(w) /\ worker[w].pod # None
    /\ odps[NameOf(w)] = None
    /\ worker[w].pod.uid \notin deletedPods
    /\ \E o \in FreshOdps :
         /\ heap' = [heap EXCEPT ![o] = NewOdp(FALSE, FALSE)]
         /\ odps' = [odps EXCEPT ![NameOf(w)] = o]
         /\ worker' = [worker EXCEPT ![w].pc = "reload", ![w].odp = o]
    /\ UNCHANGED <<createChannel, deletedPods, workerFrame, serverVars>>

(* An error of GetToken is only logged.                                     *)
reloadOdp(w) ==
    /\ WorkerAt(w, "reload")
    /\ heap' = IF worker[w].pod.token = None THEN heap
               ELSE [heap EXCEPT ![worker[w].odp].token = worker[w].pod.token]
    /\ WorkerGoes(w, "act")
    /\ UNCHANGED <<sharedVars, workerFrame, serverVars>>

-----------------------------------------------------------------------------
(* handlePodUpdate, handlePodFinished *)

ActOn(w, phase) == WorkerAt(w, "act") /\ worker[w].pod.phase = phase

PodPending(w) ==
    /\ ActOn(w, "Pending")
    /\ WorkerRests(w)
    /\ UNCHANGED <<sharedVars, heap, workerFrame, serverVars>>

(* Variant: a Pod that runs clears the error of its entry.                  *)
PodRunningForgives(w) ==
    /\ ActOn(w, "Running")
    /\ heap' = [heap EXCEPT ![worker[w].odp].code = "Ready", ![worker[w].odp].err = "none"]
    /\ WorkerRests(w)
    /\ UNCHANGED <<sharedVars, workerFrame, serverVars>>

PodRunning(w) ==
    /\ ActOn(w, "Running")
    /\ heap' = [heap EXCEPT ![worker[w].odp].code = "Ready"]
    /\ WorkerRests(w)
    /\ UNCHANGED <<sharedVars, workerFrame, serverVars>>

PodFailed(w) ==
    /\ ActOn(w, "Failed")
    /\ setOdpError(worker[w].odp)
    /\ WorkerGoes(w, "token")
    /\ UNCHANGED <<sharedVars, workerFrame, serverVars>>

PodSucceeded(w) ==
    /\ ActOn(w, "Succeeded")
    /\ odps' = [odps EXCEPT ![NameOf(w)] = None]
    /\ WorkerGoes(w, "remember")
    /\ UNCHANGED <<heap, createChannel, deletedPods, workerFrame, serverVars>>

(* odpsMutex has been released: deletedPods has a lock of its own.          *)
RememberDeleted(w) ==
    /\ WorkerAt(w, "remember")
    /\ deletedPods' = deletedPods \cup {worker[w].pod.uid}
    /\ WorkerGoes(w, "token")
    /\ UNCHANGED <<odps, heap, createChannel, workerFrame, serverVars>>

(* Variant: the handler returns after it has dealt with the token.          *)
WorkerKeepsPod(w) == WorkerRests(w)

(* The object is not used again after this.                                 *)
WorkerDeletes(w) ==
    worker' = [worker EXCEPT ![w].pc = "delete", ![w].odp = None]

DeleteTokenOfPod(w) ==
    /\ WorkerAt(w, "token")
    /\ IF heap[worker[w].odp].token = None
       THEN WorkerDeletes(w) /\ UNCHANGED tokens
       ELSE WorkerGoes(w, "clear") /\ deleteOdpToken(worker[w].odp)
    /\ UNCHANGED <<sharedVars, heap, workerFrame, api, watch, undeleted>>

ClearToken(w) ==
    /\ WorkerAt(w, "clear")
    /\ heap' = [heap EXCEPT ![worker[w].odp].token = None]
    /\ WorkerDeletes(w)
    /\ UNCHANGED <<sharedVars, workerFrame, serverVars>>

(* The Pod is deleted by name.  A finished Pod goes at once; one that still *)
(* runs is given time to end (PodVanishes).  An error is only logged.       *)
deletePod(w) ==
    /\ WorkerAt(w, "delete")
    /\ LET n == NameOf(w) IN
       \/ api[n] # None /\ RemovePod(n)
       \/ /\ api[n] # None => api[n].phase \notin Finished
          /\ UNCHANGED <<api, watch, undeleted>>
       \/ /\ "deletePod" \in Faults
          /\ api[n] # None
          /\ undeleted' = undeleted \cup {api[n].uid}
          /\ UNCHANGED <<api, watch>>
    /\ WorkerRests(w)
    /\ UNCHANGED <<sharedVars, heap, workerFrame, tokens>>

WorkerStep(w) ==
    \/ ReadCache(w)
    \/ PodDeleted(w) \/ DropEvent(w) \/ KnownOdp(w) \/ NewEntry(w) \/ reloadOdp(w)
    \/ PodPending(w) \/ PodRunning(w) \/ PodFailed(w) \/ PodSucceeded(w)
    \/ RememberDeleted(w) \/ DeleteTokenOfPod(w) \/ ClearToken(w) \/ deletePod(w)

-----------------------------------------------------------------------------
(* Time and the cluster *)

(* deletedPodsCleaner forgets the UIDs that are older than deletedTTL.      *)
deletedPodsCleaner ==
    /\ \E old \in (SUBSET deletedPods) \ {{}} : deletedPods' = deletedPods \ old
    /\ UNCHANGED <<odps, heap, createChannel, stillVars, serverVars>>

(* errorTTL passes.  Only the entries of the map are ever asked.            *)
ErrorExpires(n) ==
    /\ odps[n] # None
    /\ heap[odps[n]].err = "fresh"
    /\ heap' = [heap EXCEPT ![odps[n]].err = "expired"]
    /\ UNCHANGED <<sharedVars, stillVars, serverVars>>

(* A Pod moves on, or its status is written again in the same phase.        *)
NextPhases(p) ==
    CASE p = "Pending" -> Phases
      [] p = "Running" -> Phases \ {"Pending"}
      [] OTHER -> {p}

PodMoves(n) ==
    /\ api[n] # None
    /\ \E ph \in NextPhases(api[n].phase) :
           SetPod(n, [api[n] EXCEPT !.phase = ph])
    /\ UNCHANGED <<sharedVars, heap, stillVars, tokens, undeleted>>

(* Eviction, a drained node, kubectl delete, or the end of a grace period.  *)
PodVanishes(n) ==
    /\ api[n] # None
    /\ RemovePod(n)
    /\ UNCHANGED <<sharedVars, heap, stillVars, tokens>>

-----------------------------------------------------------------------------
RequesterStep(r) == CheckError(r) \/ SendCreate(r)

Cluster == \E n \in Names : ErrorExpires(n) \/ PodMoves(n) \/ PodVanishes(n)

Step ==
    \/ \E r \in Requesters, n \in Names : Request(r, n)
    \/ \E r \in Requesters : RequesterStep(r)
    \/ \E c \in Creators : CreatorStep(c)
    \/ \E n \in Names : Inform(n) \/ MergeItem(n)
    \/ \E w \in Workers, n \in Names : GetItem(w, n)
    \/ \E w \in Workers : WorkerStep(w)
    \/ deletedPodsCleaner
    \/ Cluster

Next == Step \/ Restart

Spec == Init /\ [][Next]_vars

(* Goroutines that can run do run, the informer is told of every change,    *)
(* and calls to Kubernetes, LDAP and the Token service return.  Both queues *)
(* are FIFO, and so is the list of goroutines that wait to send, which is   *)
(* what strong fairness of GetItem and SendCreate stands for.  Requests,    *)
(* time and the cluster are under no obligation, and the process does not   *)
(* restart (Init already covers a start beside any Pods).                   *)
Fairness ==
    /\ \A r \in Requesters : WF_vars(CheckError(r)) /\ SF_vars(SendCreate(r))
    /\ \A c \in Creators : WF_vars(CreatorStep(c))
    /\ \A n \in Names : WF_vars(Inform(n))
    /\ \A n \in Names : SF_vars(\E w \in Workers : GetItem(w, n))
    /\ \A w \in Workers : WF_vars(WorkerStep(w))
    /\ WF_vars(deletedPodsCleaner)

LiveSpec == Init /\ [][Step]_vars /\ Fairness

-----------------------------------------------------------------------------
(* Properties *)

Queued(n) == \E i \in DOMAIN createChannel : createChannel[i] = n

(* A requested object nobody has given an outcome to yet.                   *)
Awaited(n) ==
    /\ odps[n] # None
    /\ heap[odps[n]].requested /\ ~heap[odps[n]].created
    /\ heap[odps[n]].code = "Creating" /\ heap[odps[n]].err = "none"

OnItsWay(n) ==
    \/ \E r \in Requesters : requester[r].odp = odps[n]
    \/ Queued(n)
    \/ \E c \in Creators : CreatorAt(c, "find") /\ creator[c].name = n
    \/ \E c \in Creators : creator[c].odp = odps[n]

(* The entry a client is told is "Creating" is always on its way to an      *)
(* outcome: its name is held by the request that will send it, or is in     *)
(* createChannel, or a creator has it (factory.go:281, 513, 519).  Nothing  *)
(* else would ever look at the entry again.                                 *)
NoLostCreate == \A n \in Names : Awaited(n) => OnItsWay(n)

FinishedPod(n) == api[n] # None /\ api[n].phase \in Finished

(* Somebody will still look at the Pod: an item of its name waits, or a     *)
(* worker is about to read the cache, or holds the Pod in a finished phase. *)
Noticed(n) ==
    \/ waiting[n] > 0
    \/ \E w \in Workers :
         /\ NameOf(w) = n
         /\ \/ WorkerAt(w, "read")
            \/ /\ worker[w].pod # None
               /\ worker[w].pod.uid = api[n].uid
               /\ worker[w].pod.phase \in Finished

(* A finished Pod is not forgotten: the informer has still to hear of it,   *)
(* or a work item or a worker has it, or its DELETE call has failed.  The   *)
(* queue merges items, and events of Pods in deletedPods are dropped        *)
(* (factory_podevents.go:40-51), but never the last one that matters.       *)
NoAbandonedPod ==
    \A n \in Names :
        FinishedPod(n) => \/ watch[n] # << >>
                          \/ Noticed(n)
                          \/ api[n].uid \in undeleted

(* Only Pods whose handler goes on to delete them are in deletedPods        *)
(* (factory_podevents.go:104-116), so dropping an event leaks no Pod.       *)
DroppedPodIsDeleted ==
    \A n \in Names :
        api[n] # None /\ api[n].uid \in deletedPods =>
            \/ api[n].uid \in undeleted
            \/ \E w \in Workers :
                 /\ worker[w].pc \in {"token", "clear", "delete"}
                 /\ NameOf(w) = n /\ worker[w].pod.uid = api[n].uid

(* What a client was told stays true: an entry leaves the map, or is        *)
(* replaced, only when its error has expired or because a Pod of its name   *)
(* has ended well (factory.go:259, factory_podevents.go:29, 97-102), or     *)
(* because the service was started again.                                   *)
EntryStays ==
    [][\A n \in Names :
         odps[n] # None /\ odps'[n] # odps[n] =>
            \/ heap[odps[n]].err = "expired"
            \/ \E w \in Workers : ActOn(w, "Succeeded") /\ NameOf(w) = n
            \/ instance' # instance
      ]_vars

(* The refinement mapping.  What ServeHTTP answers for an entry: an error,  *)
(* when ErrorTime is set (rest.go:173-175), whatever ResultCode says; a     *)
(* requested entry is "asked" until its Pod was posted.                     *)
Shown(entry) ==
    IF entry.err = "fresh" THEN "failed"
    ELSE IF entry.err = "expired" THEN "expired"
    ELSE IF entry.code = "Ready" THEN "ready"
    ELSE IF entry.requested /\ ~entry.created THEN "asked" ELSE "creating"

ShownNow == [n \in Names |-> IF odps[n] = None THEN "absent" ELSE Shown(heap[odps[n]])]
EndedNow == {n \in Names : \E w \in Workers : ActOn(w, "Succeeded") /\ NameOf(w) = n}

Lifecycle == INSTANCE OdpLifecycle WITH shown <- ShownNow, ended <- EndedNow

(* The answers clients get follow the life cycle of OdpLifecycle, whatever  *)
(* the goroutines do to the entries they share: an error is never taken     *)
(* back before it expires, a Pod that was ready is never "creating" again,  *)
(* one step changes the answer for one name only                            *)
(* (factory.go:245-290, helpers.go:27-33, factory_podevents.go:15-140).     *)
ImplementsLifecycle == Lifecycle!Spec

(* Every accepted request gets an outcome: a Pod, an error or an entry that *)
(* is gone (factory.go:281-284, 292-385).                                   *)
CreateEnds == \A n \in Names : Awaited(n) ~> ~Awaited(n)

(* Every Pod that finishes is removed from the namespace unless its DELETE  *)
(* call fails (factory_podevents.go:75-76, 116).                            *)
FinishedPodGoes ==
    \A n \in Names :
        FinishedPod(n) ~> \/ ~FinishedPod(n)
                          \/ api[n] # None /\ api[n].uid \in undeleted

-----------------------------------------------------------------------------
(* Claims of the comments and of the API description that the code breaks *)

(* Nothing is going on and the informer is up to date.                      *)
Quiescent ==
    /\ \A r \in Requesters : requester[r].pc = "idle"
    /\ \A c \in Creators : creator[c].pc = "idle"
    /\ \A w \in Workers : worker[w].pc = "idle"
    /\ createChannel = << >>
    /\ \A n \in Names : waiting[n] = 0 /\ watch[n] = << >>

(* "Pod has been deleted, make sure we've removed from odps"                *)
(* (factory_podevents.go:26): an entry that is Ready has a Pod.             *)
ReadyHasPod ==
    Quiescent => \A n \in Names :
        odps[n] # None /\ heap[odps[n]].code = "Ready" /\ heap[odps[n]].err = "none"
            => api[n] # None

(* "Recently deleted pods. We use this so we can ignore events from ODPs    *)
(* that we get just after we've deleted the ODP" (factory.go:161-162): an   *)
(* event of such a Pod puts no error on an entry and removes none.          *)
StaleEventIgnored ==
    [][\A w \in Workers :
         Locked(w) /\ worker[w].pod # None /\ worker[w].pod.uid \in deletedPods
            => ~(worker'[w].pc = "act" /\ worker'[w].pod.phase \in Finished)
      ]_vars

=============================================================================
