-------------------------- MODULE OdpFactoryProofs --------------------------
(***************************************************************************)
(* Type correctness, NoLostCreate and EntryStays of OdpFactory, for every  *)
(* value of its constants.                                                 *)
(***************************************************************************)
EXTENDS OdpFactory, SequenceTheorems, TLAPS

-----------------------------------------------------------------------------
(* Typed strengthens TypeOK with what each goroutine holds, by where it is. *)

TypedMap     == odps \in [Names -> Odps \cup {None}]
TypedHeap    == heap \in [Odps -> Odp]
TypedChannel == createChannel \in Seq(Names) /\ Len(createChannel) <= QueueSize
TypedPods    == deletedPods \subseteq Uids /\ undeleted \subseteq Uids
TypedTokens  == tokens \subseteq Tokens
TypedQueue   == waiting \in [Names -> 0..MaxItems]
TypedCache   == cache \in [Names -> Pod \cup {None}]
TypedInstance == instance \in {0, 1}

TypedServer ==
    /\ api \in [Names -> Pod \cup {None}]
    /\ watch \in [Names -> Seq(Pod \cup {None})]
    /\ \A n \in Names : Len(watch[n]) <= MaxLag

TypedRequester ==
    /\ requester \in [Requesters -> RequesterState]
    /\ \A r \in Requesters :
          IF requester[r].pc = "idle" THEN requester[r].odp = None
          ELSE requester[r].name \in Names /\ requester[r].odp \in Odps

TypedCreator ==
    /\ creator \in [Creators -> CreatorState]
    /\ \A c \in Creators :
          /\ creator[c].pc # "idle" => creator[c].name \in Names
          /\ IF creator[c].pc \in {"idle", "find"} THEN creator[c].odp = None
             ELSE creator[c].odp \in Odps

TypedWorker ==
    /\ worker \in [Workers -> WorkerState]
    /\ \A w \in Workers :
          /\ worker[w].pc # "idle" => worker[w].name \in Names
          /\ worker[w].pc \notin {"idle", "read", "lock"} => worker[w].pod \in Pod
          /\ worker[w].pc \in {"reload", "act", "remember", "token", "clear"} =>
                worker[w].odp \in Odps

Typed ==
    /\ TypedMap /\ TypedHeap /\ TypedChannel /\ TypedPods /\ TypedTokens
    /\ TypedQueue /\ TypedCache /\ TypedInstance /\ TypedServer
    /\ TypedRequester /\ TypedCreator /\ TypedWorker

LEMMA TypedImpliesTypeOK == Typed => TypeOK
BY DEF Typed, TypedInstance, TypeOK, TypedMap, TypedHeap, TypedChannel, TypedPods,
   TypedTokens, TypedQueue, TypedCache, TypedServer, TypedRequester, TypedCreator,
   TypedWorker

-----------------------------------------------------------------------------
LEMMA InitTyped == Init => Typed
BY BoundsAssumption, NoneAssumption DEF Init, Typed, TypedInstance, TypedMap, TypedHeap,
   TypedChannel, TypedPods, TypedTokens, TypedQueue, TypedCache, TypedServer,
   TypedRequester, TypedCreator, TypedWorker, ExistingPods, CreateEvents, NewOdp, Odp,
   Pod, IdleRequester, IdleCreator, IdleWorker, RequesterState, CreatorState,
   WorkerState

LEMMA SetPodTyped ==
    ASSUME TypedServer, NEW n \in Names, NEW p \in Pod \cup {None}, SetPod(n, p)
    PROVE  TypedServer'
<1>1. api' \in [Names -> Pod \cup {None}]
  BY DEF SetPod, TypedServer
<1>2. ASSUME NEW m \in Names
      PROVE  watch'[m] \in Seq(Pod \cup {None}) /\ Len(watch'[m]) <= MaxLag
  <2>1. CASE m # n
    BY <2>1 DEF SetPod, TypedServer
  <2>2. CASE m = n /\ Len(watch[n]) < MaxLag
    <3>1. watch'[n] = Append(watch[n], p)
      BY <2>2 DEF SetPod, TypedServer
    <3>2. QED
      BY <2>2, <3>1, BoundsAssumption DEF TypedServer
  <2>3. CASE m = n /\ ~(Len(watch[n]) < MaxLag)
    <3>1. watch'[n] = [watch[n] EXCEPT ![MaxLag] = p]
      BY <2>3 DEF SetPod, TypedServer
    <3>2. Len(watch[n]) = MaxLag /\ MaxLag \in 1..Len(watch[n])
      BY <2>3, BoundsAssumption DEF TypedServer
    <3>3. watch[n] \in Seq(Pod \cup {None})
      BY DEF TypedServer
    <3>4. QED
      BY <2>3, <3>1, <3>2, <3>3, ExceptSeq
  <2>4. QED
    BY <2>1, <2>2, <2>3
<1>3. watch' = [m \in Names |-> watch'[m]]
  BY DEF SetPod, TypedServer
<1>4. QED
  BY <1>1, <1>2, <1>3 DEF TypedServer

LEMMA NewOdpTyped ==
    ASSUME NEW requested \in BOOLEAN, NEW wants \in BOOLEAN
    PROVE  NewOdp(requested, wants) \in Odp
BY DEF NewOdp, Odp

LEMMA ErrorTyped ==
    ASSUME TypedHeap, NEW o \in Odps, setOdpError(o)
    PROVE  TypedHeap'
BY DEF TypedHeap, setOdpError, Odp

LEMMA FailedTyped ==
    ASSUME NEW h \in Odp
    PROVE  [h EXCEPT !.created = TRUE, !.code = "Failed", !.err = "fresh"] \in Odp
<1>1. ASSUME NEW g \in Odp
      PROVE  [g EXCEPT !.code = "Failed", !.err = "fresh"] \in Odp
  BY DEF Odp
<1>2. [h EXCEPT !.created = TRUE] \in Odp
  BY DEF Odp
<1>3. [[h EXCEPT !.created = TRUE] EXCEPT !.code = "Failed", !.err = "fresh"] \in Odp
  BY <1>1, <1>2
<1>4. QED
  BY <1>3

LEMMA PostPodTyped ==
    ASSUME TypedServer, TypedCreator, NEW c \in Creators, CreatorAt(c, "post"), PostPod(c)
    PROVE  TypedServer'
<1>1. PICK u \in FreshUids :
          SetPod(creator[c].name, [uid |-> u, phase |-> "Pending",
                                   token |-> creator[c].token])
  BY DEF PostPod
<1>2. [uid |-> u, phase |-> "Pending", token |-> creator[c].token] \in Pod
  BY <1>1 DEF FreshUids, Pod, Phases, TypedCreator, CreatorState
<1>3. creator[c].name \in Names
  BY DEF TypedCreator, CreatorAt
<1>4. QED
  BY <1>1, <1>2, <1>3, SetPodTyped

LEMMA RequestTyped ==
    ASSUME Typed, NEW r \in Requesters, NEW n \in Names, Request(r, n)
    PROVE  Typed'
<1>1. TypedRequester'
  BY DEF Typed, TypedRequester, Request, FreshOdps, RequesterState
<1>2. TypedHeap'
  <2>1. PICK o \in FreshOdps, wants \in TokenWanted :
            heap' = [heap EXCEPT ![o] = NewOdp(TRUE, wants)]
    BY DEF Request
  <2>2. o \in Odps /\ NewOdp(TRUE, wants) \in Odp
    BY NewOdpTyped, ChoiceAssumption DEF FreshOdps
  <2>3. QED
    BY <2>1, <2>2 DEF Typed, TypedHeap
<1>3. TypedMap'
  BY DEF Typed, TypedMap, Request, FreshOdps
<1>4. QED
  BY <1>1, <1>2, <1>3 DEF Typed, TypedInstance, TypedChannel, TypedPods, TypedTokens,
     TypedQueue, TypedCache, TypedServer, TypedCreator, TypedWorker, Request,
     requesterFrame, controlVars, serverVars

LEMMA CheckErrorTyped ==
    ASSUME Typed, NEW r \in Requesters, CheckError(r)
    PROVE  Typed'
<1>1. TypedRequester'
  BY DEF Typed, TypedRequester, CheckError, IdleRequester, RequesterState
<1>2. QED
  BY <1>1 DEF Typed, TypedInstance, TypedMap, TypedHeap, TypedChannel, TypedPods,
     TypedTokens, TypedQueue, TypedCache, TypedServer, TypedCreator, TypedWorker,
     CheckError, requesterFrame, controlVars, sharedVars, serverVars

LEMMA SendCreateTyped ==
    ASSUME Typed, NEW r \in Requesters, SendCreate(r)
    PROVE  Typed'
<1>1. TypedRequester'
  BY DEF Typed, TypedRequester, SendCreate, IdleRequester, RequesterState
<1>2. TypedChannel'
  BY BoundsAssumption DEF Typed, TypedChannel, TypedRequester, SendCreate, CanSend
<1>3. QED
  BY <1>1, <1>2 DEF Typed, TypedInstance, TypedMap, TypedHeap, TypedPods, TypedTokens,
     TypedQueue, TypedCache, TypedServer, TypedCreator, TypedWorker, SendCreate,
     requesterFrame, controlVars, serverVars

LEMMA TakeNameTyped ==
    ASSUME Typed, NEW c \in Creators, TakeName(c)
    PROVE  Typed'
<1>1. TypedCreator'
  BY DEF Typed, TypedCreator, TypedChannel, TakeName, CreatorAt, CreatorState
<1>2. TypedChannel'
  BY BoundsAssumption DEF Typed, TypedChannel, TakeName
<1>3. QED
  BY <1>1, <1>2 DEF Typed, TypedInstance, TypedMap, TypedHeap, TypedPods, TypedTokens,
     TypedQueue, TypedCache, TypedServer, TypedRequester, TypedWorker, TakeName,
     creatorFrame, controlVars, serverVars

LEMMA FindOdpTyped ==
    ASSUME Typed, NEW c \in Creators, FindOdp(c)
    PROVE  Typed'
<1>1. TypedCreator'
  BY DEF Typed, TypedCreator, TypedMap, FindOdp, CreatorAt, CreatorRests, IdleCreator,
     CreatorState
<1>2. QED
  BY <1>1 DEF Typed, TypedInstance, TypedMap, TypedHeap, TypedChannel, TypedPods,
     TypedTokens, TypedQueue, TypedCache, TypedServer, TypedRequester, TypedWorker,
     FindOdp, creatorFrame, controlVars, sharedVars, serverVars

LEMMA RefuseTyped ==
    ASSUME Typed, NEW c \in Creators, Refuse(c)
    PROVE  Typed'
<1>1. TypedCreator'
  BY DEF Typed, TypedCreator, Refuse, CreatorAt, CreatorRests, IdleCreator, CreatorState
<1>2. TypedHeap'
  BY ErrorTyped DEF Typed, TypedHeap, TypedCreator, Refuse, CreatorAt
<1>3. QED
  BY <1>1, <1>2 DEF Typed, TypedInstance, TypedMap, TypedChannel, TypedPods,
     TypedTokens, TypedQueue, TypedCache, TypedServer, TypedRequester, TypedWorker,
     Refuse, creatorFrame, controlVars, sharedVars, serverVars

LEMMA AdmitTyped ==
    ASSUME Typed, NEW c \in Creators, Admit(c)
    PROVE  Typed'
<1>1. TypedCreator'
  BY DEF Typed, TypedCreator, Admit, CreatorAt, CreatorGoes, CreatorState
<1>2. QED
  BY <1>1 DEF Typed, TypedInstance, TypedMap, TypedHeap, TypedChannel, TypedPods,
     TypedTokens, TypedQueue, TypedCache, TypedServer, TypedRequester, TypedWorker,
     Admit, creatorFrame, controlVars, sharedVars, serverVars

LEMMA createOdpTokenTyped ==
    ASSUME Typed, NEW c \in Creators, createOdpToken(c)
    PROVE  Typed'
<1>1. TypedCreator'
  BY DEF Typed, TypedCreator, createOdpToken, CreatorAt, CreatorGoes, CreatorState
<1>2. TypedHeap'
  BY DEF Typed, TypedHeap, TypedCreator, createOdpToken, CreatorAt, FreshTokens, Odp
<1>3. TypedTokens'
  BY DEF Typed, TypedTokens, createOdpToken, FreshTokens
<1>4. QED
  BY <1>1, <1>2, <1>3 DEF Typed, TypedInstance, TypedMap, TypedChannel, TypedPods,
     TypedQueue, TypedCache, TypedServer, TypedRequester, TypedWorker, createOdpToken,
     creatorFrame, controlVars, sharedVars

LEMMA createOdpTokenFailsTyped ==
    ASSUME Typed, NEW c \in Creators, createOdpTokenFails(c)
    PROVE  Typed'
<1>1. TypedCreator'
  BY DEF Typed, TypedCreator, createOdpTokenFails, CreatorAt, CreatorRests, IdleCreator,
     CreatorState
<1>2. TypedHeap'
  BY ErrorTyped DEF Typed, TypedHeap, TypedCreator, createOdpTokenFails, CreatorAt
<1>3. TypedTokens'
  BY DEF Typed, TypedTokens, createOdpTokenFails, FreshTokens
<1>4. QED
  BY <1>1, <1>2, <1>3 DEF Typed, TypedInstance, TypedMap, TypedChannel, TypedPods,
     TypedQueue, TypedCache, TypedServer, TypedRequester, TypedWorker,
     createOdpTokenFails, creatorFrame, controlVars, sharedVars

LEMMA getPodSpecTyped ==
    ASSUME Typed, NEW c \in Creators, getPodSpec(c)
    PROVE  Typed'
<1> DEFINE token == heap[creator[c].odp].token
<1>1. token \in Tokens \cup {None}
  BY DEF Typed, TypedCreator, TypedHeap, getPodSpec, CreatorAt, Odp
<1>2. creator' = [creator EXCEPT ![c].pc = "post", ![c].token = token]
      /\ creator[c].pc = "spec"
  BY DEF getPodSpec, CreatorAt
<1>3. TypedCreator'
  <2> HIDE DEF token
  <2> QED BY <1>1, <1>2 DEF Typed, TypedCreator, CreatorState
<1>4. QED
  BY <1>3 DEF Typed, TypedInstance, TypedMap, TypedHeap, TypedChannel, TypedPods,
     TypedTokens, TypedQueue, TypedCache, TypedServer, TypedRequester, TypedWorker,
     getPodSpec, creatorFrame, controlVars, sharedVars, serverVars

LEMMA getPodSpecFailsTyped ==
    ASSUME Typed, NEW c \in Creators, getPodSpecFails(c)
    PROVE  Typed'
<1>1. TypedCreator'
  BY DEF Typed, TypedCreator, getPodSpecFails, CreatorAt, CreatorRests, IdleCreator,
     CreatorState
<1>2. TypedHeap'
  BY ErrorTyped DEF Typed, TypedHeap, TypedCreator, getPodSpecFails, CreatorAt
<1>3. QED
  BY <1>1, <1>2 DEF Typed, TypedInstance, TypedMap, TypedChannel, TypedPods,
     TypedTokens, TypedQueue, TypedCache, TypedServer, TypedRequester, TypedWorker,
     getPodSpecFails, creatorFrame, controlVars, sharedVars, serverVars

LEMMA createPodTyped ==
    ASSUME Typed, NEW c \in Creators, createPod(c)
    PROVE  Typed'
<1>1. TypedCreator'
  BY DEF Typed, TypedCreator, createPod, CreatorAt, CreatorGoes, CreatorState
<1>2. TypedServer'
  BY PostPodTyped DEF Typed, TypedServer, TypedCreator, createPod, CreatorAt
<1>3. QED
  BY <1>1, <1>2 DEF Typed, TypedInstance, TypedMap, TypedHeap, TypedChannel, TypedPods,
     TypedTokens, TypedQueue, TypedCache, TypedRequester, TypedWorker, createPod,
     creatorFrame, controlVars, sharedVars

LEMMA createPodFailsTyped ==
    ASSUME Typed, NEW c \in Creators, createPodFails(c)
    PROVE  Typed'
<1>1. TypedCreator'
  BY DEF Typed, TypedCreator, createPodFails, CreatorAt, CreatorGoes, CreatorState
<1>2. TypedServer'
  BY PostPodTyped DEF Typed, TypedServer, TypedCreator, createPodFails, CreatorAt
<1>3. QED
  BY <1>1, <1>2 DEF Typed, TypedInstance, TypedMap, TypedHeap, TypedChannel, TypedPods,
     TypedTokens, TypedQueue, TypedCache, TypedRequester, TypedWorker, createPodFails,
     creatorFrame, controlVars, sharedVars

LEMMA PodCreatedTyped ==
    ASSUME Typed, NEW c \in Creators, PodCreated(c)
    PROVE  Typed'
<1>1. TypedCreator'
  BY DEF Typed, TypedCreator, PodCreated, CreatorAt, CreatorRests, IdleCreator,
     CreatorState
<1>2. TypedHeap'
  BY DEF Typed, TypedHeap, TypedCreator, PodCreated, CreatorAt, Odp
<1>3. QED
  BY <1>1, <1>2 DEF Typed, TypedInstance, TypedMap, TypedChannel, TypedPods,
     TypedTokens, TypedQueue, TypedCache, TypedServer, TypedRequester, TypedWorker,
     PodCreated, creatorFrame, controlVars, sharedVars, serverVars

LEMMA PodNotCreatedTyped ==
    ASSUME Typed, NEW c \in Creators, PodNotCreated(c)
    PROVE  Typed'
<1>1. TypedCreator'
  BY DEF Typed, TypedCreator, PodNotCreated, CreatorAt, CreatorGoes, CreatorState
<1>2. TypedHeap'
  <2> DEFINE o == creator[c].odp
  <2>1. o \in Odps
    BY DEF Typed, TypedCreator, PodNotCreated, CreatorAt
  <2>2. [heap[o] EXCEPT !.created = TRUE, !.code = "Failed", !.err = "fresh"] \in Odp
    BY <2>1, FailedTyped DEF Typed, TypedHeap
  <2>3. heap' = [heap EXCEPT ![o] = [heap[o] EXCEPT !.created = TRUE, !.code = "Failed",
                                                    !.err = "fresh"]]
    BY <2>1 DEF Typed, TypedHeap, PodNotCreated
  <2>4. QED
    BY <2>1, <2>2, <2>3 DEF Typed, TypedHeap
<1>3. QED
  BY <1>1, <1>2 DEF Typed, TypedInstance, TypedMap, TypedChannel, TypedPods,
     TypedTokens, TypedQueue, TypedCache, TypedServer, TypedRequester, TypedWorker,
     PodNotCreated, creatorFrame, controlVars, sharedVars, serverVars

LEMMA UndoTokenTyped ==
    ASSUME Typed, NEW c \in Creators, UndoToken(c)
    PROVE  Typed'
<1>1. TypedCreator'
  BY DEF Typed, TypedCreator, UndoToken, CreatorAt, CreatorRests, IdleCreator,
     CreatorState
<1>2. TypedTokens'
  BY DEF Typed, TypedTokens, UndoToken, deleteOdpToken
<1>3. QED
  BY <1>1, <1>2 DEF Typed, TypedInstance, TypedMap, TypedHeap, TypedChannel, TypedPods,
     TypedQueue, TypedCache, TypedServer, TypedRequester, TypedWorker, UndoToken,
     creatorFrame, controlVars, sharedVars

LEMMA InformTyped ==
    ASSUME Typed, NEW n \in Names, Inform(n)
    PROVE  Typed'
<1>1. TypedCache'
  BY DEF Typed, TypedCache, TypedServer, Inform
<1>2. TypedQueue'
  BY BoundsAssumption DEF Typed, TypedQueue, Inform, AddItem
<1>3. TypedServer'
  BY BoundsAssumption DEF Typed, TypedServer, Inform
<1>4. QED
  BY <1>1, <1>2, <1>3 DEF Typed, TypedInstance, TypedMap, TypedHeap, TypedChannel,
     TypedPods, TypedTokens, TypedRequester, TypedCreator, TypedWorker, Inform,
     controlVars, sharedVars

LEMMA MergeItemTyped ==
    ASSUME Typed, NEW n \in Names, MergeItem(n)
    PROVE  Typed'
<1>1. TypedQueue'
  BY BoundsAssumption DEF Typed, TypedQueue, MergeItem
<1>2. QED
  BY <1>1 DEF Typed, TypedInstance, TypedMap, TypedHeap, TypedChannel, TypedPods,
     TypedTokens, TypedCache, TypedServer, TypedRequester, TypedCreator, TypedWorker,
     MergeItem, sharedVars, serverVars

LEMMA GetItemTyped ==
    ASSUME Typed, NEW w \in Workers, NEW n \in Names, GetItem(w, n)
    PROVE  Typed'
<1>1. TypedWorker'
  BY DEF Typed, TypedWorker, GetItem, WorkerAt, WorkerState
<1>2. TypedQueue'
  BY BoundsAssumption DEF Typed, TypedQueue, GetItem
<1>3. QED
  BY <1>1, <1>2 DEF Typed, TypedInstance, TypedMap, TypedHeap, TypedChannel, TypedPods,
     TypedTokens, TypedCache, TypedServer, TypedRequester, TypedCreator, GetItem,
     workerFrame, controlVars, sharedVars, serverVars

LEMMA ReadCacheTyped ==
    ASSUME Typed, NEW w \in Workers, ReadCache(w)
    PROVE  Typed'
<1>1. TypedWorker'
  BY DEF Typed, TypedWorker, TypedCache, ReadCache, WorkerAt, NameOf, WorkerState
<1>2. QED
  BY <1>1 DEF Typed, TypedInstance, TypedMap, TypedHeap, TypedChannel, TypedPods,
     TypedTokens, TypedQueue, TypedCache, TypedServer, TypedRequester, TypedCreator,
     ReadCache, workerFrame, controlVars, sharedVars, serverVars

LEMMA PodDeletedTyped ==
    ASSUME Typed, NEW w \in Workers, PodDeleted(w)
    PROVE  Typed'
<1>1. TypedWorker'
  BY DEF Typed, TypedWorker, PodDeleted, Locked, WorkerAt, WorkerRests, IdleWorker,
     WorkerState
<1>2. TypedMap'
  BY DEF Typed, TypedMap, PodDeleted, NameOf
<1>3. QED
  BY <1>1, <1>2 DEF Typed, TypedInstance, TypedHeap, TypedChannel, TypedPods,
     TypedTokens, TypedQueue, TypedCache, TypedServer, TypedRequester, TypedCreator,
     PodDeleted, workerFrame, controlVars, serverVars

LEMMA DropEventTyped ==
    ASSUME Typed, NEW w \in Workers, DropEvent(w)
    PROVE  Typed'
<1>1. TypedWorker'
  BY DEF Typed, TypedWorker, DropEvent, Locked, WorkerAt, WorkerRests, IdleWorker,
     WorkerState
<1>2. QED
  BY <1>1 DEF Typed, TypedInstance, TypedMap, TypedHeap, TypedChannel, TypedPods,
     TypedTokens, TypedQueue, TypedCache, TypedServer, TypedRequester, TypedCreator,
     DropEvent, workerFrame, controlVars, sharedVars, serverVars

LEMMA KnownOdpTyped ==
    ASSUME Typed, NEW w \in Workers, KnownOdp(w)
    PROVE  Typed'
<1>1. TypedWorker'
  BY DEF Typed, TypedWorker, TypedMap, KnownOdp, Locked, WorkerAt, NameOf, WorkerState
<1>2. QED
  BY <1>1 DEF Typed, TypedInstance, TypedMap, TypedHeap, TypedChannel, TypedPods,
     TypedTokens, TypedQueue, TypedCache, TypedServer, TypedRequester, TypedCreator,
     KnownOdp, workerFrame, controlVars, sharedVars, serverVars

LEMMA NewEntryTyped ==
    ASSUME Typed, NEW w \in Workers, NewEntry(w)
    PROVE  Typed'
<1>1. TypedWorker'
  <2>1. PICK o \in FreshOdps :
            worker' = [worker EXCEPT ![w].pc = "reload", ![w].odp = o]
    BY DEF NewEntry
  <2>2. o \in Odps /\ worker[w].pc = "lock" /\ worker[w].pod \in Pod
    BY DEF FreshOdps, NewEntry, Locked, WorkerAt, Typed, TypedWorker, WorkerState
  <2>3. QED
    BY <2>1, <2>2 DEF Typed, TypedWorker, WorkerState
<1>2. TypedHeap'
  BY NewOdpTyped DEF Typed, TypedHeap, NewEntry, FreshOdps
<1>3. TypedMap'
  BY DEF Typed, TypedMap, NewEntry, FreshOdps, NameOf
<1>4. QED
  BY <1>1, <1>2, <1>3 DEF Typed, TypedInstance, TypedChannel, TypedPods, TypedTokens,
     TypedQueue, TypedCache, TypedServer, TypedRequester, TypedCreator, NewEntry,
     workerFrame, controlVars, serverVars

LEMMA reloadOdpTyped ==
    ASSUME Typed, NEW w \in Workers, reloadOdp(w)
    PROVE  Typed'
<1>1. TypedWorker'
  BY DEF Typed, TypedWorker, reloadOdp, WorkerAt, WorkerGoes, WorkerState
<1>2. TypedHeap'
  BY DEF Typed, TypedHeap, TypedWorker, reloadOdp, WorkerAt, Pod, Odp
<1>3. QED
  BY <1>1, <1>2 DEF Typed, TypedInstance, TypedMap, TypedChannel, TypedPods,
     TypedTokens, TypedQueue, TypedCache, TypedServer, TypedRequester, TypedCreator,
     reloadOdp, workerFrame, controlVars, sharedVars, serverVars

LEMMA PodPendingTyped ==
    ASSUME Typed, NEW w \in Workers, PodPending(w)
    PROVE  Typed'
<1>1. TypedWorker'
  BY DEF Typed, TypedWorker, PodPending, ActOn, WorkerAt, WorkerRests, IdleWorker,
     WorkerState
<1>2. QED
  BY <1>1 DEF Typed, TypedInstance, TypedMap, TypedHeap, TypedChannel, TypedPods,
     TypedTokens, TypedQueue, TypedCache, TypedServer, TypedRequester, TypedCreator,
     PodPending, workerFrame, controlVars, sharedVars, serverVars

LEMMA PodRunningTyped ==
    ASSUME Typed, NEW w \in Workers, PodRunning(w)
    PROVE  Typed'
<1>1. TypedWorker'
  BY DEF Typed, TypedWorker, PodRunning, ActOn, WorkerAt, WorkerRests, IdleWorker,
     WorkerState
<1>2. TypedHeap'
  BY DEF Typed, TypedHeap, TypedWorker, PodRunning, ActOn, WorkerAt, Odp
<1>3. QED
  BY <1>1, <1>2 DEF Typed, TypedInstance, TypedMap, TypedChannel, TypedPods,
     TypedTokens, TypedQueue, TypedCache, TypedServer, TypedRequester, TypedCreator,
     PodRunning, workerFrame, controlVars, sharedVars, serverVars

LEMMA PodFailedTyped ==
    ASSUME Typed, NEW w \in Workers, PodFailed(w)
    PROVE  Typed'
<1>1. TypedWorker'
  BY DEF Typed, TypedWorker, PodFailed, ActOn, WorkerAt, WorkerGoes, WorkerState
<1>2. TypedHeap'
  BY ErrorTyped DEF Typed, TypedHeap, TypedWorker, PodFailed, ActOn, WorkerAt
<1>3. QED
  BY <1>1, <1>2 DEF Typed, TypedInstance, TypedMap, TypedChannel, TypedPods,
     TypedTokens, TypedQueue, TypedCache, TypedServer, TypedRequester, TypedCreator,
     PodFailed, workerFrame, controlVars, sharedVars, serverVars

LEMMA PodSucceededTyped ==
    ASSUME Typed, NEW w \in Workers, PodSucceeded(w)
    PROVE  Typed'
<1>1. TypedWorker'
  BY DEF Typed, TypedWorker, PodSucceeded, ActOn, WorkerAt, WorkerGoes, WorkerState
<1>2. TypedMap'
  BY DEF Typed, TypedMap, PodSucceeded, NameOf
<1>3. QED
  BY <1>1, <1>2 DEF Typed, TypedInstance, TypedHeap, TypedChannel, TypedPods,
     TypedTokens, TypedQueue, TypedCache, TypedServer, TypedRequester, TypedCreator,
     PodSucceeded, workerFrame, controlVars, serverVars

LEMMA RememberDeletedTyped ==
    ASSUME Typed, NEW w \in Workers, RememberDeleted(w)
    PROVE  Typed'
<1>1. TypedWorker'
  BY DEF Typed, TypedWorker, RememberDeleted, WorkerAt, WorkerGoes, WorkerState
<1>2. TypedPods'
  BY DEF Typed, TypedPods, TypedWorker, RememberDeleted, WorkerAt, Pod, serverVars
<1>3. QED
  BY <1>1, <1>2 DEF Typed, TypedInstance, TypedMap, TypedHeap, TypedChannel,
     TypedTokens, TypedQueue, TypedCache, TypedServer, TypedRequester, TypedCreator,
     RememberDeleted, workerFrame, controlVars, serverVars

LEMMA DeleteTokenOfPodTyped ==
    ASSUME Typed, NEW w \in Workers, DeleteTokenOfPod(w)
    PROVE  Typed'
<1>1. TypedWorker'
  BY DEF Typed, TypedWorker, DeleteTokenOfPod, WorkerAt, WorkerGoes, WorkerDeletes,
     WorkerState
<1>2. TypedTokens'
  BY DEF Typed, TypedTokens, DeleteTokenOfPod, deleteOdpToken
<1>3. QED
  BY <1>1, <1>2 DEF Typed, TypedInstance, TypedMap, TypedHeap, TypedChannel, TypedPods,
     TypedQueue, TypedCache, TypedServer, TypedRequester, TypedCreator,
     DeleteTokenOfPod, workerFrame, controlVars, sharedVars

LEMMA ClearTokenTyped ==
    ASSUME Typed, NEW w \in Workers, ClearToken(w)
    PROVE  Typed'
<1>1. TypedWorker'
  BY DEF Typed, TypedWorker, ClearToken, WorkerAt, WorkerDeletes, WorkerState
<1>2. TypedHeap'
  BY DEF Typed, TypedHeap, TypedWorker, ClearToken, ActOn, WorkerAt, Odp
<1>3. QED
  BY <1>1, <1>2 DEF Typed, TypedInstance, TypedMap, TypedChannel, TypedPods,
     TypedTokens, TypedQueue, TypedCache, TypedServer, TypedRequester, TypedCreator,
     ClearToken, workerFrame, controlVars, sharedVars, serverVars

LEMMA deletePodTyped ==
    ASSUME Typed, NEW w \in Workers, deletePod(w)
    PROVE  Typed'
<1>1. TypedWorker'
  BY DEF Typed, TypedWorker, deletePod, WorkerAt, WorkerRests, IdleWorker, WorkerState
<1>2. TypedServer'
  BY SetPodTyped DEF Typed, TypedServer, TypedWorker, deletePod, WorkerAt, NameOf,
     RemovePod
<1>3. TypedPods'
  BY DEF Typed, TypedPods, TypedWorker, TypedServer, deletePod, WorkerAt, NameOf,
     RemovePod, Pod, sharedVars
<1>4. QED
  BY <1>1, <1>2, <1>3 DEF Typed, TypedInstance, TypedMap, TypedHeap, TypedChannel,
     TypedTokens, TypedQueue, TypedCache, TypedRequester, TypedCreator, deletePod,
     workerFrame, controlVars, sharedVars

LEMMA deletedPodsCleanerTyped ==
    ASSUME Typed, deletedPodsCleaner
    PROVE  Typed'
<1>1. TypedPods'
  BY DEF Typed, TypedPods, deletedPodsCleaner, serverVars
<1>2. QED
  BY <1>1 DEF Typed, TypedInstance, TypedMap, TypedHeap, TypedChannel, TypedTokens,
     TypedQueue, TypedCache, TypedServer, TypedRequester, TypedCreator, TypedWorker,
     deletedPodsCleaner, stillVars, controlVars, serverVars

LEMMA ErrorExpiresTyped ==
    ASSUME Typed, NEW n \in Names, ErrorExpires(n)
    PROVE  Typed'
<1>1. TypedHeap'
  BY DEF Typed, TypedHeap, TypedMap, ErrorExpires, Odp
<1>2. QED
  BY <1>1 DEF Typed, TypedInstance, TypedMap, TypedChannel, TypedPods, TypedTokens,
     TypedQueue, TypedCache, TypedServer, TypedRequester, TypedCreator, TypedWorker,
     ErrorExpires, stillVars, controlVars, sharedVars, serverVars

LEMMA PodMovesTyped ==
    ASSUME Typed, NEW n \in Names, PodMoves(n)
    PROVE  Typed'
<1>1. TypedServer'
  BY SetPodTyped DEF Typed, TypedServer, PodMoves, NextPhases, Pod, Phases
<1>2. QED
  BY <1>1 DEF Typed, TypedInstance, TypedMap, TypedHeap, TypedChannel, TypedPods,
     TypedTokens, TypedQueue, TypedCache, TypedRequester, TypedCreator, TypedWorker,
     PodMoves, stillVars, controlVars, sharedVars

LEMMA PodVanishesTyped ==
    ASSUME Typed, NEW n \in Names, PodVanishes(n)
    PROVE  Typed'
<1>1. TypedServer'
  BY SetPodTyped DEF Typed, TypedServer, PodVanishes, RemovePod
<1>2. TypedPods'
  BY DEF Typed, TypedPods, TypedServer, PodVanishes, RemovePod, Pod, sharedVars
<1>3. QED
  BY <1>1, <1>2 DEF Typed, TypedInstance, TypedMap, TypedHeap, TypedChannel,
     TypedTokens, TypedQueue, TypedCache, TypedRequester, TypedCreator, TypedWorker,
     PodVanishes, stillVars, controlVars, sharedVars

LEMMA RestartTyped ==
    ASSUME Typed, Restart
    PROVE  Typed'
<1>1. TypedHeap'
  BY NewOdpTyped DEF Restart, TypedHeap
<1>2. TypedRequester' /\ TypedCreator' /\ TypedWorker'
  BY DEF Restart, TypedRequester, TypedCreator, TypedWorker, IdleRequester, IdleCreator,
     IdleWorker, RequesterState, CreatorState, WorkerState
<1>3. TypedMap' /\ TypedChannel' /\ TypedPods' /\ TypedTokens' /\ TypedInstance'
  BY BoundsAssumption DEF Typed, TypedInstance, Restart, TypedMap, TypedChannel,
     TypedPods, TypedTokens
<1>4. TypedQueue' /\ TypedCache' /\ TypedServer'
  BY BoundsAssumption DEF Typed, Restart, CreateEvents, TypedQueue, TypedCache, TypedServer
<1>5. QED
  BY <1>1, <1>2, <1>3, <1>4 DEF Typed

LEMMA StutterTyped ==
    ASSUME Typed, UNCHANGED vars
    PROVE  Typed'
BY DEF Typed, TypedInstance, TypedMap, TypedHeap, TypedChannel, TypedPods, TypedTokens,
   TypedQueue, TypedCache, TypedServer, TypedRequester, TypedCreator, TypedWorker, vars,
   sharedVars, stillVars, controlVars, serverVars

-----------------------------------------------------------------------------
(* The inductive invariant of NoLostCreate.  A request sends the name of    *)
(* its object under which the map has it; a creator that only has a token   *)
(* to give back has already set tCreated.                                   *)

NameMatches ==
    \A r \in Requesters, n \in Names :
        odps[n] # None /\ requester[r].odp = odps[n] => requester[r].name = n

UndoneIsCreated ==
    \A c \in Creators : creator[c].pc = "undo" => heap[creator[c].odp].created

Core == NameMatches /\ UndoneIsCreated /\ NoLostCreate

IInv == Typed /\ Core

(* No object goes back to waiting for its outcome.                          *)
Settles ==
    \A o \in Odps :
        /\ heap[o].created => heap'[o].created
        /\ heap'[o].requested => heap[o].requested
        /\ heap'[o].code = "Creating" => heap[o].code = "Creating"
        /\ heap'[o].err = "none" => heap[o].err = "none"

(* Creators keep their objects; whoever looks for a name still does.        *)
CreatorsKeep ==
    \A c \in Creators :
        /\ creator'[c].odp = creator[c].odp
        /\ creator[c].pc = "find" =>
              creator'[c].pc = "find" /\ creator'[c].name = creator[c].name
        /\ creator'[c].pc = "undo" =>
              creator[c].pc = "undo" \/ heap'[creator[c].odp].created

LEMMA InitCore == Init => Core
<1> SUFFICES ASSUME Init PROVE Core
  OBVIOUS
<1>1. \A n \in Names : odps[n] = None
  BY DEF Init
<1>2. \A c \in Creators : creator[c].pc = "idle"
  BY DEF Init, IdleCreator
<1>3. UndoneIsCreated
  BY <1>2 DEF UndoneIsCreated
<1>4. NameMatches /\ NoLostCreate
  BY <1>1 DEF NameMatches, NoLostCreate, Awaited
<1>5. QED
  BY <1>3, <1>4 DEF Core

LEMMA RestartCore == Restart => Core'
<1> SUFFICES ASSUME Restart PROVE Core'
  OBVIOUS
<1>1. \A n \in Names : odps'[n] = None
  BY DEF Restart
<1>2. \A c \in Creators : creator'[c].pc = "idle"
  BY DEF Restart, IdleCreator
<1>3. UndoneIsCreated'
  BY <1>2 DEF UndoneIsCreated
<1>4. NameMatches' /\ NoLostCreate'
  BY <1>1 DEF NameMatches, NoLostCreate, Awaited
<1>5. QED
  BY <1>3, <1>4 DEF Core

LEMMA Unrelated ==
    ASSUME Core, UNCHANGED <<odps, heap, createChannel, requester, creator>>
    PROVE  Core'
BY DEF Core, NameMatches, UndoneIsCreated, NoLostCreate, Awaited, OnItsWay, Queued, CreatorAt

LEMMA SettlesAwaited ==
    ASSUME Typed, Settles, UNCHANGED odps, NEW n \in Names, Awaited(n)'
    PROVE  Awaited(n)
BY DEF Typed, TypedMap, Settles, Awaited

LEMMA CreatorMoves ==
    ASSUME IInv, Settles, CreatorsKeep, UNCHANGED <<odps, createChannel, requester>>
    PROVE  Core'
<1>1. NameMatches'
  BY DEF IInv, Core, NameMatches
<1>2. ASSUME NEW c \in Creators, creator'[c].pc = "undo"
      PROVE  heap'[creator'[c].odp].created
  <2>1. CASE creator[c].pc = "undo"
    BY <2>1 DEF IInv, Core, UndoneIsCreated, Typed, TypedCreator, Settles, CreatorsKeep
  <2>2. CASE creator[c].pc # "undo"
    BY <1>2, <2>2 DEF CreatorsKeep
  <2>3. QED
    BY <2>1, <2>2
<1>3. ASSUME NEW n \in Names, Awaited(n)'
      PROVE  OnItsWay(n)'
  <2>1. OnItsWay(n)
    BY <1>3, SettlesAwaited DEF IInv, Core, NoLostCreate
  <2>2. QED
    BY <2>1 DEF OnItsWay, Queued, CreatorAt, CreatorsKeep
<1>4. QED
  BY <1>1, <1>2, <1>3 DEF Core, UndoneIsCreated, NoLostCreate

LEMMA HeapOnly ==
    ASSUME IInv, Settles, UNCHANGED <<odps, createChannel, requester, creator>>
    PROVE  Core'
<1>1. CreatorsKeep
  BY DEF CreatorsKeep
<1>2. QED
  BY <1>1, CreatorMoves

LEMMA MapOnly ==
    ASSUME IInv, UNCHANGED <<heap, createChannel, requester, creator>>,
           \A n \in Names : odps'[n] = odps[n] \/ odps'[n] = None
    PROVE  Core'
BY DEF IInv, Core, NameMatches, UndoneIsCreated, NoLostCreate, Awaited, OnItsWay, Queued,
       CreatorAt

(* A creator that lets go of an object leaves it with an outcome.           *)
LEMMA CreatorLetsGo ==
    ASSUME IInv, Settles, UNCHANGED <<odps, createChannel, requester>>,
           NEW c \in Creators, creator[c].pc # "find", CreatorRests(c),
           \/ heap'[creator[c].odp].created
           \/ heap'[creator[c].odp].err # "none"
    PROVE  Core'
<1>1. /\ creator'[c] = IdleCreator
      /\ \A d \in Creators \ {c} : creator'[d] = creator[d]
  BY DEF CreatorRests, IInv, Typed, TypedCreator
<1>2. NameMatches'
  BY DEF IInv, Core, NameMatches
<1>3. UndoneIsCreated'
  <2>1. SUFFICES ASSUME NEW d \in Creators, creator'[d].pc = "undo"
                 PROVE  heap'[creator'[d].odp].created
    BY DEF UndoneIsCreated
  <2>2. d # c /\ creator'[d] = creator[d]
    BY <1>1, <2>1 DEF IdleCreator
  <2>3. QED
    BY <2>1, <2>2 DEF IInv, Core, UndoneIsCreated, Typed, TypedCreator, Settles
<1>4. ASSUME NEW n \in Names, Awaited(n)'
      PROVE  OnItsWay(n)'
  <2>1. OnItsWay(n)
    BY <1>4, SettlesAwaited DEF IInv, Core, NoLostCreate
  <2>2. creator[c].odp # odps[n]
    BY <1>4 DEF Awaited
  <2>3. QED
    BY <1>1, <2>1, <2>2 DEF OnItsWay, Queued, CreatorAt
<1>5. QED
  BY <1>2, <1>3, <1>4 DEF Core, NoLostCreate

-----------------------------------------------------------------------------
(* One lemma per action that Unrelated does not cover.                      *)

LEMMA RequestCore ==
    ASSUME IInv, NEW r \in Requesters, NEW n \in Names, Request(r, n)
    PROVE  Core'
<1>1. PICK o \in FreshOdps, wants \in TokenWanted :
          /\ heap' = [heap EXCEPT ![o] = NewOdp(TRUE, wants)]
          /\ odps' = [odps EXCEPT ![n] = o]
          /\ requester' = [requester EXCEPT ![r] = [pc |-> "check", name |-> n, odp |-> o]]
  BY DEF Request
<1>2. /\ UNCHANGED <<createChannel, creator>>
      /\ requester[r].pc = "idle" /\ requester[r].odp = None
  BY DEF Request, requesterFrame, IInv, Typed, TypedRequester
<1>3. /\ o \in Odps
      /\ \A m \in Names : odps[m] # o
      /\ \A q \in Requesters : requester[q].odp # o
      /\ \A c \in Creators : creator[c].odp # o
  BY DEF FreshOdps, HeldOdps
<1>4. /\ odps'[n] = o /\ \A m \in Names \ {n} : odps'[m] = odps[m]
      /\ requester'[r].odp = o /\ requester'[r].name = n
      /\ \A q \in Requesters \ {r} : requester'[q] = requester[q]
      /\ \A p \in Odps \ {o} : heap'[p] = heap[p]
  BY <1>1, <1>3 DEF IInv, Typed, TypedMap, TypedHeap, TypedRequester
<1>5. NameMatches'
  BY <1>3, <1>4 DEF NameMatches, IInv, Core
<1>6. UndoneIsCreated'
  BY <1>2, <1>3, <1>4 DEF UndoneIsCreated, IInv, Core, Typed, TypedCreator
<1>7. ASSUME NEW m \in Names, Awaited(m)'
      PROVE  OnItsWay(m)'
  <2>1. CASE m = n
    BY <1>4, <2>1 DEF OnItsWay
  <2>2. CASE m # n
    <3>1. odps[m] # None /\ odps[m] \in Odps \ {o} /\ odps'[m] = odps[m]
      BY <1>3, <1>4, <1>7, <2>2 DEF Awaited, IInv, Typed, TypedMap
    <3>2. Awaited(m)
      BY <1>4, <1>7, <3>1 DEF Awaited
    <3>3. OnItsWay(m)
      BY <3>2 DEF IInv, Core, NoLostCreate
    <3>4. QED
      BY <1>2, <1>4, <3>1, <3>3 DEF OnItsWay, Queued, CreatorAt
  <2>3. QED
    BY <2>1, <2>2
<1>8. QED
  BY <1>5, <1>6, <1>7 DEF Core, NoLostCreate

LEMMA CheckErrorCore ==
    ASSUME IInv, NEW r \in Requesters, CheckError(r)
    PROVE  Core'
<1>1. /\ UNCHANGED <<odps, heap, createChannel, creator>>
      /\ \A q \in Requesters \ {r} : requester'[q] = requester[q]
  BY DEF CheckError, requesterFrame, sharedVars, IInv, Typed, TypedRequester
<1>2. \/ requester'[r].odp = None /\ heap[requester[r].odp].err # "none"
      \/ requester'[r].odp = requester[r].odp /\ requester'[r].name = requester[r].name
  BY DEF CheckError, IdleRequester, IInv, Typed, TypedRequester, RequesterState
<1>3. NameMatches'
  BY <1>1, <1>2 DEF NameMatches, IInv, Core
<1>4. UndoneIsCreated'
  BY <1>1 DEF UndoneIsCreated, IInv, Core
<1>5. ASSUME NEW n \in Names, Awaited(n)'
      PROVE  OnItsWay(n)'
  <2>1. Awaited(n) /\ OnItsWay(n)
    BY <1>1, <1>5 DEF Awaited, IInv, Core, NoLostCreate
  <2>2. requester[r].odp = odps[n] => requester'[r].odp = odps[n]
    BY <1>2, <2>1 DEF Awaited
  <2>3. QED
    BY <1>1, <2>1, <2>2 DEF OnItsWay, Queued, CreatorAt
<1>6. QED
  BY <1>3, <1>4, <1>5 DEF Core, NoLostCreate

LEMMA SendCreateCore ==
    ASSUME IInv, NEW r \in Requesters, SendCreate(r)
    PROVE  Core'
<1>1. /\ UNCHANGED <<odps, heap, creator>>
      /\ createChannel' = Append(createChannel, requester[r].name)
      /\ createChannel \in Seq(Names) /\ requester[r].name \in Names
      /\ requester'[r].odp = None
      /\ \A q \in Requesters \ {r} : requester'[q] = requester[q]
  BY DEF SendCreate, requesterFrame, IdleRequester, IInv, Typed, TypedRequester, TypedChannel
<1>2. NameMatches'
  BY <1>1 DEF NameMatches, IInv, Core
<1>3. UndoneIsCreated'
  BY <1>1 DEF UndoneIsCreated, IInv, Core
<1>4. ASSUME NEW n \in Names, Awaited(n)'
      PROVE  OnItsWay(n)'
  <2>1. Awaited(n) /\ OnItsWay(n) /\ odps[n] # None
    BY <1>1, <1>4 DEF Awaited, IInv, Core, NoLostCreate
  <2>2. CASE requester[r].odp = odps[n]
    <3>1. requester[r].name = n
      BY <2>1, <2>2 DEF IInv, Core, NameMatches
    <3>2. /\ Len(createChannel) + 1 \in DOMAIN createChannel'
          /\ createChannel'[Len(createChannel) + 1] = n
      BY <1>1, <3>1
    <3>3. QED
      BY <3>2 DEF OnItsWay, Queued
  <2>3. CASE Queued(n)
    <3>1. PICK i \in DOMAIN createChannel : createChannel[i] = n
      BY <2>3 DEF Queued
    <3>2. i \in DOMAIN createChannel' /\ createChannel'[i] = n
      BY <1>1, <3>1
    <3>3. QED
      BY <3>2 DEF OnItsWay, Queued
  <2>4. CASE requester[r].odp # odps[n] /\ ~Queued(n)
    BY <1>1, <2>1, <2>4 DEF OnItsWay, CreatorAt
  <2>5. QED
    BY <2>2, <2>3, <2>4
<1>5. QED
  BY <1>2, <1>3, <1>4 DEF Core, NoLostCreate

LEMMA TakeNameCore ==
    ASSUME IInv, NEW c \in Creators, TakeName(c)
    PROVE  Core'
<1>1. /\ UNCHANGED <<odps, heap, requester>>
      /\ createChannel \in Seq(Names) /\ createChannel # << >>
      /\ createChannel' = Tail(createChannel)
      /\ creator[c].pc = "idle" /\ creator[c].odp = None
      /\ creator'[c].pc = "find" /\ creator'[c].name = Head(createChannel)
      /\ \A d \in Creators \ {c} : creator'[d] = creator[d]
  BY DEF TakeName, CreatorAt, creatorFrame, IInv, Typed, TypedCreator, TypedChannel
<1>2. NameMatches'
  BY <1>1 DEF NameMatches, IInv, Core
<1>3. UndoneIsCreated'
  BY <1>1 DEF UndoneIsCreated, IInv, Core
<1>4. ASSUME NEW n \in Names, Awaited(n)'
      PROVE  OnItsWay(n)'
  <2>1. Awaited(n) /\ OnItsWay(n) /\ odps[n] # None
    BY <1>1, <1>4 DEF Awaited, IInv, Core, NoLostCreate
  <2>2. CASE Queued(n)
    <3>1. PICK i \in DOMAIN createChannel : createChannel[i] = n
      BY <2>2 DEF Queued
    <3>2. CASE i = 1
      BY <1>1, <3>1, <3>2 DEF OnItsWay, CreatorAt
    <3>3. CASE i # 1
      <4>1. i - 1 \in DOMAIN createChannel' /\ createChannel'[i - 1] = n
        BY <1>1, <3>1, <3>3
      <4>2. QED
        BY <4>1 DEF OnItsWay, Queued
    <3>4. QED
      BY <3>2, <3>3
  <2>3. CASE ~Queued(n)
    BY <1>1, <2>1, <2>3 DEF OnItsWay, CreatorAt
  <2>4. QED
    BY <2>2, <2>3
<1>5. QED
  BY <1>2, <1>3, <1>4 DEF Core, NoLostCreate

LEMMA FindOdpCore ==
    ASSUME IInv, NEW c \in Creators, FindOdp(c)
    PROVE  Core'
<1>1. /\ UNCHANGED <<odps, heap, createChannel, requester>>
      /\ creator[c].pc = "find" /\ creator[c].odp = None /\ creator[c].name \in Names
      /\ \A d \in Creators \ {c} : creator'[d] = creator[d]
      /\ creator'[c].pc # "undo"
      /\ odps[creator[c].name] # None => creator'[c].odp = odps[creator[c].name]
  BY DEF FindOdp, CreatorAt, CreatorRests, IdleCreator, creatorFrame, sharedVars, IInv,
         Typed, TypedCreator, CreatorState
<1>2. NameMatches'
  BY <1>1 DEF NameMatches, IInv, Core
<1>3. UndoneIsCreated'
  BY <1>1 DEF UndoneIsCreated, IInv, Core
<1>4. ASSUME NEW n \in Names, Awaited(n)'
      PROVE  OnItsWay(n)'
  <2>1. Awaited(n) /\ OnItsWay(n) /\ odps[n] # None
    BY <1>1, <1>4 DEF Awaited, IInv, Core, NoLostCreate
  <2>2. QED
    BY <1>1, <2>1 DEF OnItsWay, Queued, CreatorAt
<1>5. QED
  BY <1>2, <1>3, <1>4 DEF Core, NoLostCreate

LEMMA NewEntryCore ==
    ASSUME IInv, NEW w \in Workers, NewEntry(w)
    PROVE  Core'
<1> DEFINE n == NameOf(w)
<1>1. PICK o \in FreshOdps : /\ heap' = [heap EXCEPT ![o] = NewOdp(FALSE, FALSE)]
                             /\ odps' = [odps EXCEPT ![n] = o]
  BY DEF NewEntry
<1>2. UNCHANGED <<createChannel, requester, creator>> /\ n \in Names
  BY DEF NewEntry, workerFrame, Locked, WorkerAt, NameOf, IInv, Typed, TypedWorker
<1>3. /\ o \in Odps
      /\ \A m \in Names : odps[m] # o
      /\ \A q \in Requesters : requester[q].odp # o
      /\ \A c \in Creators : creator[c].odp # o
  BY DEF FreshOdps, HeldOdps
<1>4. /\ odps'[n] = o /\ \A m \in Names \ {n} : odps'[m] = odps[m]
      /\ heap'[o].requested = FALSE
      /\ \A p \in Odps \ {o} : heap'[p] = heap[p]
  BY <1>1, <1>2, <1>3 DEF NewOdp, IInv, Typed, TypedMap, TypedHeap
<1>5. NameMatches'
  BY <1>2, <1>3, <1>4 DEF NameMatches, IInv, Core
<1>6. UndoneIsCreated'
  BY <1>2, <1>3, <1>4 DEF UndoneIsCreated, IInv, Core, Typed, TypedCreator
<1>7. ASSUME NEW m \in Names, Awaited(m)'
      PROVE  OnItsWay(m)'
  <2>1. m # n
    BY <1>4, <1>7 DEF Awaited
  <2>2. odps[m] # None /\ odps[m] \in Odps \ {o} /\ odps'[m] = odps[m]
    BY <1>3, <1>4, <1>7, <2>1 DEF Awaited, IInv, Typed, TypedMap
  <2>3. OnItsWay(m)
    BY <1>4, <1>7, <2>2 DEF Awaited, IInv, Core, NoLostCreate
  <2>4. QED
    BY <1>2, <2>2, <2>3 DEF OnItsWay, Queued, CreatorAt
<1>8. QED
  BY <1>5, <1>6, <1>7 DEF Core, NoLostCreate

LEMMA RefuseCore ==
    ASSUME IInv, NEW c \in Creators, Refuse(c)
    PROVE  Core'
<1>1. creator[c].odp \in Odps /\ creator[c].pc # "find"
  BY DEF Refuse, CreatorAt, IInv, Typed, TypedCreator
<1>2. Settles /\ heap'[creator[c].odp].err # "none"
  BY <1>1 DEF Refuse, setOdpError, Settles, IInv, Typed, TypedHeap, Odp
<1>3. QED
  BY <1>1, <1>2, CreatorLetsGo DEF Refuse, creatorFrame, sharedVars

LEMMA createOdpTokenFailsCore ==
    ASSUME IInv, NEW c \in Creators, createOdpTokenFails(c)
    PROVE  Core'
<1>1. creator[c].odp \in Odps /\ creator[c].pc # "find"
  BY DEF createOdpTokenFails, CreatorAt, IInv, Typed, TypedCreator
<1>2. Settles /\ heap'[creator[c].odp].err # "none"
  BY <1>1 DEF createOdpTokenFails, setOdpError, Settles, IInv, Typed, TypedHeap, Odp
<1>3. QED
  BY <1>1, <1>2, CreatorLetsGo DEF createOdpTokenFails, creatorFrame, sharedVars

LEMMA getPodSpecFailsCore ==
    ASSUME IInv, NEW c \in Creators, getPodSpecFails(c)
    PROVE  Core'
<1>1. creator[c].odp \in Odps /\ creator[c].pc # "find"
  BY DEF getPodSpecFails, CreatorAt, IInv, Typed, TypedCreator
<1>2. Settles /\ heap'[creator[c].odp].err # "none"
  BY <1>1 DEF getPodSpecFails, setOdpError, Settles, IInv, Typed, TypedHeap, Odp
<1>3. QED
  BY <1>1, <1>2, CreatorLetsGo DEF getPodSpecFails, creatorFrame, sharedVars

LEMMA PodCreatedCore ==
    ASSUME IInv, NEW c \in Creators, PodCreated(c)
    PROVE  Core'
<1>1. creator[c].odp \in Odps /\ creator[c].pc # "find"
  BY DEF PodCreated, CreatorAt, IInv, Typed, TypedCreator
<1>2. Settles /\ heap'[creator[c].odp].created
  BY <1>1 DEF PodCreated, Settles, IInv, Typed, TypedHeap, Odp
<1>3. QED
  BY <1>1, <1>2, CreatorLetsGo DEF PodCreated, creatorFrame, sharedVars

LEMMA UndoTokenCore ==
    ASSUME IInv, NEW c \in Creators, UndoToken(c)
    PROVE  Core'
<1>1. creator[c].pc # "find" /\ heap'[creator[c].odp].created /\ Settles
  BY DEF UndoToken, CreatorAt, IInv, Core, UndoneIsCreated, Settles
<1>2. QED
  BY <1>1, CreatorLetsGo DEF UndoToken, creatorFrame, sharedVars

LEMMA AdmitCore ==
    ASSUME IInv, NEW c \in Creators, Admit(c)
    PROVE  Core'
<1>1. creator[c].odp \in Odps /\ creator[c].pc \notin {"find", "undo"}
  BY DEF Admit, CreatorAt, IInv, Typed, TypedCreator
<1>2. Settles
  BY DEF Admit, Settles, sharedVars
<1>3. CreatorsKeep
  BY <1>1 DEF Admit, CreatorGoes, CreatorsKeep, IInv, Typed, TypedCreator, CreatorState
<1>4. QED
  BY <1>2, <1>3, CreatorMoves DEF Admit, creatorFrame, sharedVars

LEMMA createOdpTokenCore ==
    ASSUME IInv, NEW c \in Creators, createOdpToken(c)
    PROVE  Core'
<1>1. creator[c].odp \in Odps /\ creator[c].pc \notin {"find", "undo"}
  BY DEF createOdpToken, CreatorAt, IInv, Typed, TypedCreator
<1>2. Settles
  BY <1>1 DEF createOdpToken, Settles, IInv, Typed, TypedHeap, Odp
<1>3. CreatorsKeep
  BY <1>1 DEF createOdpToken, CreatorGoes, CreatorsKeep, IInv, Typed, TypedCreator,
     CreatorState
<1>4. QED
  BY <1>2, <1>3, CreatorMoves DEF createOdpToken, creatorFrame, sharedVars

LEMMA getPodSpecCore ==
    ASSUME IInv, NEW c \in Creators, getPodSpec(c)
    PROVE  Core'
<1>1. creator[c].odp \in Odps /\ creator[c].pc \notin {"find", "undo"}
  BY DEF getPodSpec, CreatorAt, IInv, Typed, TypedCreator
<1>2. Settles
  BY DEF getPodSpec, Settles, sharedVars
<1>3. CreatorsKeep
  BY <1>1 DEF getPodSpec, CreatorsKeep, IInv, Typed, TypedCreator, CreatorState
<1>4. QED
  BY <1>2, <1>3, CreatorMoves DEF getPodSpec, creatorFrame, sharedVars

LEMMA createPodCore ==
    ASSUME IInv, NEW c \in Creators, createPod(c)
    PROVE  Core'
<1>1. creator[c].odp \in Odps /\ creator[c].pc \notin {"find", "undo"}
  BY DEF createPod, CreatorAt, IInv, Typed, TypedCreator
<1>2. Settles
  BY DEF createPod, Settles, sharedVars
<1>3. CreatorsKeep
  BY <1>1 DEF createPod, CreatorGoes, CreatorsKeep, IInv, Typed, TypedCreator,
     CreatorState
<1>4. QED
  BY <1>2, <1>3, CreatorMoves DEF createPod, creatorFrame, sharedVars

LEMMA createPodFailsCore ==
    ASSUME IInv, NEW c \in Creators, createPodFails(c)
    PROVE  Core'
<1>1. creator[c].odp \in Odps /\ creator[c].pc \notin {"find", "undo"}
  BY DEF createPodFails, CreatorAt, IInv, Typed, TypedCreator
<1>2. Settles
  BY DEF createPodFails, Settles, sharedVars
<1>3. CreatorsKeep
  BY <1>1 DEF createPodFails, CreatorGoes, CreatorsKeep, IInv, Typed, TypedCreator,
     CreatorState
<1>4. QED
  BY <1>2, <1>3, CreatorMoves DEF createPodFails, creatorFrame, sharedVars

LEMMA PodNotCreatedCore ==
    ASSUME IInv, NEW c \in Creators, PodNotCreated(c)
    PROVE  Core'
<1>1. creator[c].odp \in Odps /\ creator[c].pc \notin {"find", "undo"}
  BY DEF PodNotCreated, CreatorAt, IInv, Typed, TypedCreator
<1>2. Settles
  BY <1>1 DEF PodNotCreated, Settles, IInv, Typed, TypedHeap, Odp
<1>3. CreatorsKeep
  BY <1>1 DEF PodNotCreated, CreatorGoes, CreatorsKeep, IInv, Typed, TypedCreator,
     CreatorState, TypedHeap, Odp
<1>4. QED
  BY <1>2, <1>3, CreatorMoves DEF PodNotCreated, creatorFrame, sharedVars

LEMMA reloadOdpCore ==
    ASSUME IInv, NEW w \in Workers, reloadOdp(w)
    PROVE  Core'
<1>1. worker[w].odp \in Odps
  BY DEF reloadOdp, WorkerAt, IInv, Typed, TypedWorker
<1>2. Settles
  BY <1>1 DEF reloadOdp, Settles, IInv, Typed, TypedHeap, Odp
<1>3. QED
  BY <1>2, HeapOnly DEF reloadOdp, workerFrame, sharedVars

LEMMA PodRunningCore ==
    ASSUME IInv, NEW w \in Workers, PodRunning(w)
    PROVE  Core'
<1>1. worker[w].odp \in Odps
  BY DEF PodRunning, ActOn, WorkerAt, IInv, Typed, TypedWorker
<1>2. Settles
  BY <1>1 DEF PodRunning, Settles, IInv, Typed, TypedHeap, Odp
<1>3. QED
  BY <1>2, HeapOnly DEF PodRunning, workerFrame, sharedVars

LEMMA PodFailedCore ==
    ASSUME IInv, NEW w \in Workers, PodFailed(w)
    PROVE  Core'
<1>1. worker[w].odp \in Odps
  BY DEF PodFailed, ActOn, WorkerAt, IInv, Typed, TypedWorker
<1>2. Settles
  BY <1>1 DEF PodFailed, setOdpError, Settles, IInv, Typed, TypedHeap, Odp
<1>3. QED
  BY <1>2, HeapOnly DEF PodFailed, workerFrame, sharedVars

LEMMA ClearTokenCore ==
    ASSUME IInv, NEW w \in Workers, ClearToken(w)
    PROVE  Core'
<1>1. worker[w].odp \in Odps
  BY DEF ClearToken, WorkerAt, IInv, Typed, TypedWorker
<1>2. Settles
  BY <1>1 DEF ClearToken, Settles, IInv, Typed, TypedHeap, Odp
<1>3. QED
  BY <1>2, HeapOnly DEF ClearToken, workerFrame, sharedVars

LEMMA ErrorExpiresCore ==
    ASSUME IInv, NEW n \in Names, ErrorExpires(n)
    PROVE  Core'
<1>1. odps[n] \in Odps
  BY DEF ErrorExpires, IInv, Typed, TypedMap
<1>2. Settles
  BY <1>1 DEF ErrorExpires, Settles, IInv, Typed, TypedHeap, Odp
<1>3. QED
  BY <1>2, HeapOnly DEF ErrorExpires, stillVars, sharedVars

LEMMA PodDeletedCore ==
    ASSUME IInv, NEW w \in Workers, PodDeleted(w)
    PROVE  Core'
<1>1. \A n \in Names : odps'[n] = odps[n] \/ odps'[n] = None
  BY DEF PodDeleted, IInv, Typed, TypedMap
<1>2. QED
  BY <1>1, MapOnly DEF PodDeleted, workerFrame

LEMMA PodSucceededCore ==
    ASSUME IInv, NEW w \in Workers, PodSucceeded(w)
    PROVE  Core'
<1>1. \A n \in Names : odps'[n] = odps[n] \/ odps'[n] = None
  BY DEF PodSucceeded, IInv, Typed, TypedMap
<1>2. QED
  BY <1>1, MapOnly DEF PodSucceeded, workerFrame

-----------------------------------------------------------------------------
(* All steps together *)

LEMMA CreatorStepIInv ==
    ASSUME IInv, NEW c \in Creators, CreatorStep(c)
    PROVE  IInv'
<1>1. CASE TakeName(c)
  BY <1>1, TakeNameTyped, TakeNameCore DEF IInv
<1>2. CASE FindOdp(c)
  BY <1>2, FindOdpTyped, FindOdpCore DEF IInv
<1>3. CASE Refuse(c)
  BY <1>3, RefuseTyped, RefuseCore DEF IInv
<1>4. CASE Admit(c)
  BY <1>4, AdmitTyped, AdmitCore DEF IInv
<1>5. CASE createOdpToken(c)
  BY <1>5, createOdpTokenTyped, createOdpTokenCore DEF IInv
<1>6. CASE createOdpTokenFails(c)
  BY <1>6, createOdpTokenFailsTyped, createOdpTokenFailsCore DEF IInv
<1>7. CASE getPodSpec(c)
  BY <1>7, getPodSpecTyped, getPodSpecCore DEF IInv
<1>8. CASE getPodSpecFails(c)
  BY <1>8, getPodSpecFailsTyped, getPodSpecFailsCore DEF IInv
<1>9. CASE createPod(c)
  BY <1>9, createPodTyped, createPodCore DEF IInv
<1>10. CASE createPodFails(c)
  BY <1>10, createPodFailsTyped, createPodFailsCore DEF IInv
<1>11. CASE PodCreated(c)
  BY <1>11, PodCreatedTyped, PodCreatedCore DEF IInv
<1>12. CASE PodNotCreated(c)
  BY <1>12, PodNotCreatedTyped, PodNotCreatedCore DEF IInv
<1>13. CASE UndoToken(c)
  BY <1>13, UndoTokenTyped, UndoTokenCore DEF IInv
<1>14. QED
  BY <1>1, <1>2, <1>3, <1>4, <1>5, <1>6, <1>7, <1>8, <1>9, <1>10, <1>11, <1>12, <1>13 DEF CreatorStep

LEMMA WorkerStepIInv ==
    ASSUME IInv, NEW w \in Workers, WorkerStep(w)
    PROVE  IInv'
<1>1. CASE ReadCache(w)
  BY <1>1, ReadCacheTyped, Unrelated DEF IInv, ReadCache, workerFrame, sharedVars
<1>2. CASE PodDeleted(w)
  BY <1>2, PodDeletedTyped, PodDeletedCore DEF IInv
<1>3. CASE DropEvent(w)
  BY <1>3, DropEventTyped, Unrelated DEF IInv, DropEvent, workerFrame, sharedVars
<1>4. CASE KnownOdp(w)
  BY <1>4, KnownOdpTyped, Unrelated DEF IInv, KnownOdp, workerFrame, sharedVars
<1>5. CASE NewEntry(w)
  BY <1>5, NewEntryTyped, NewEntryCore DEF IInv
<1>6. CASE reloadOdp(w)
  BY <1>6, reloadOdpTyped, reloadOdpCore DEF IInv
<1>7. CASE PodPending(w)
  BY <1>7, PodPendingTyped, Unrelated DEF IInv, PodPending, workerFrame, sharedVars
<1>8. CASE PodRunning(w)
  BY <1>8, PodRunningTyped, PodRunningCore DEF IInv
<1>9. CASE PodFailed(w)
  BY <1>9, PodFailedTyped, PodFailedCore DEF IInv
<1>10. CASE PodSucceeded(w)
  BY <1>10, PodSucceededTyped, PodSucceededCore DEF IInv
<1>11. CASE RememberDeleted(w)
  BY <1>11, RememberDeletedTyped, Unrelated DEF IInv, RememberDeleted, workerFrame, sharedVars
<1>12. CASE DeleteTokenOfPod(w)
  BY <1>12, DeleteTokenOfPodTyped, Unrelated DEF IInv, DeleteTokenOfPod, workerFrame, sharedVars
<1>13. CASE ClearToken(w)
  BY <1>13, ClearTokenTyped, ClearTokenCore DEF IInv
<1>14. CASE deletePod(w)
  BY <1>14, deletePodTyped, Unrelated DEF IInv, deletePod, workerFrame, sharedVars
<1>15. QED
  BY <1>1, <1>2, <1>3, <1>4, <1>5, <1>6, <1>7, <1>8, <1>9, <1>10, <1>11, <1>12, <1>13,
     <1>14 DEF WorkerStep

LEMMA ClusterIInv ==
    ASSUME IInv, NEW n \in Names, ErrorExpires(n) \/ PodMoves(n) \/ PodVanishes(n)
    PROVE  IInv'
<1>1. CASE ErrorExpires(n)
  BY <1>1, ErrorExpiresTyped, ErrorExpiresCore DEF IInv
<1>2. CASE PodMoves(n)
  BY <1>2, PodMovesTyped, Unrelated DEF IInv, PodMoves, stillVars, sharedVars
<1>3. CASE PodVanishes(n)
  BY <1>3, PodVanishesTyped, Unrelated DEF IInv, PodVanishes, stillVars, sharedVars
<1>4. QED
  BY <1>1, <1>2, <1>3

LEMMA InitIInv == Init => IInv
BY InitTyped, InitCore DEF IInv

LEMMA NextIInv == IInv /\ [Next]_vars => IInv'
<1> SUFFICES ASSUME IInv, [Next]_vars
             PROVE  IInv'
  OBVIOUS
<1>1. ASSUME NEW r \in Requesters, NEW n \in Names, Request(r, n)
      PROVE  IInv'
  BY <1>1, RequestTyped, RequestCore DEF IInv
<1>2. ASSUME NEW r \in Requesters, RequesterStep(r)
      PROVE  IInv'
  BY <1>2, CheckErrorTyped, CheckErrorCore, SendCreateTyped, SendCreateCore
     DEF IInv, RequesterStep
<1>3. ASSUME NEW n \in Names, Inform(n) \/ MergeItem(n)
      PROVE  IInv'
  BY <1>3, InformTyped, MergeItemTyped, Unrelated DEF IInv, Inform, MergeItem, sharedVars
<1>4. ASSUME NEW w \in Workers, NEW n \in Names, GetItem(w, n)
      PROVE  IInv'
  BY <1>4, GetItemTyped, Unrelated DEF IInv, GetItem, sharedVars
<1>5. CASE deletedPodsCleaner
  BY <1>5, deletedPodsCleanerTyped, Unrelated DEF IInv, deletedPodsCleaner, stillVars
<1>6. CASE Restart
  BY <1>6, RestartTyped, RestartCore DEF IInv
<1>7. CASE UNCHANGED vars
  BY <1>7, StutterTyped, Unrelated DEF IInv, vars, sharedVars, stillVars
<1>8. QED
  BY <1>1, <1>2, <1>3, <1>4, <1>5, <1>6, <1>7, CreatorStepIInv, WorkerStepIInv, ClusterIInv
     DEF Next, Step, Cluster

LEMMA InvariantIInv == Spec => []IInv
BY InitIInv, NextIInv, PTL DEF Spec

(* Every variable of the factory, of its goroutines and of its view of the  *)
(* cluster keeps its type, and createChannel never exceeds its capacity.    *)
THEOREM TypeCorrect == Spec => []TypeOK
<1>1. IInv => TypeOK
  BY TypedImpliesTypeOK DEF IInv
<1>2. QED
  BY <1>1, InvariantIInv, PTL

(* However requests, creators, Pod events, errors, expiry and restarts      *)
(* interleave, an entry that is "Creating" without an outcome is held by    *)
(* the request that will send its name, is in createChannel, or is with a   *)
(* creator (factory.go:249-290, 504-525).                                   *)
THEOREM NoCreateIsLost == Spec => []NoLostCreate
<1>1. IInv => NoLostCreate
  BY DEF IInv, Core
<1>2. QED
  BY <1>1, InvariantIInv, PTL

-----------------------------------------------------------------------------
(* EntryStays needs the types only: four actions write the map.             *)

LEMMA StepEntryStays ==
    ASSUME IInv, [Next]_vars, NEW n \in Names, odps[n] # None, odps'[n] # odps[n]
    PROVE  \/ heap[odps[n]].err = "expired"
           \/ \E w \in Workers : ActOn(w, "Succeeded") /\ NameOf(w) = n
           \/ instance' # instance
<1>1. ASSUME NEW r \in Requesters, NEW m \in Names, Request(r, m)
      PROVE  heap[odps[n]].err = "expired"
  BY <1>1 DEF Request, isOdpErrorExpired, IInv, Typed, TypedMap
<1>2. ASSUME NEW r \in Requesters, RequesterStep(r)
      PROVE  FALSE
  BY <1>2 DEF RequesterStep, CheckError, SendCreate, sharedVars
<1>3. ASSUME NEW c \in Creators, CreatorStep(c)
      PROVE  FALSE
  BY <1>3 DEF CreatorStep, TakeName, FindOdp, Refuse, Admit, createOdpToken,
     createOdpTokenFails, getPodSpec, getPodSpecFails, createPod, createPodFails, PodCreated,
     PodNotCreated, UndoToken, sharedVars
<1>4. ASSUME NEW m \in Names, Inform(m) \/ MergeItem(m)
      PROVE  FALSE
  BY <1>4 DEF Inform, MergeItem, sharedVars
<1>5. ASSUME NEW w \in Workers, NEW m \in Names, GetItem(w, m)
      PROVE  FALSE
  BY <1>5 DEF GetItem, sharedVars
<1>6. ASSUME NEW w \in Workers, WorkerStep(w)
      PROVE  \/ heap[odps[n]].err = "expired"
             \/ ActOn(w, "Succeeded") /\ NameOf(w) = n
  <2>1. CASE PodDeleted(w)
    BY <2>1 DEF PodDeleted, isOdpErrorExpired, IInv, Typed, TypedMap
  <2>2. CASE NewEntry(w)
    BY <2>2 DEF NewEntry, IInv, Typed, TypedMap
  <2>3. CASE PodSucceeded(w)
    BY <2>3 DEF PodSucceeded, IInv, Typed, TypedMap
  <2>4. CASE ReadCache(w) \/ DropEvent(w) \/ KnownOdp(w) \/ reloadOdp(w) \/ PodPending(w)
             \/ PodRunning(w) \/ PodFailed(w) \/ RememberDeleted(w)
             \/ DeleteTokenOfPod(w) \/ ClearToken(w) \/ deletePod(w)
    BY <2>4 DEF ReadCache, DropEvent, KnownOdp, reloadOdp, PodPending, PodRunning,
       PodFailed, RememberDeleted, DeleteTokenOfPod, ClearToken, deletePod, sharedVars
  <2>5. QED
    BY <1>6, <2>1, <2>2, <2>3, <2>4 DEF WorkerStep
<1>7. CASE deletedPodsCleaner \/ Cluster \/ UNCHANGED vars
  BY <1>7 DEF deletedPodsCleaner, Cluster, ErrorExpires, PodMoves, PodVanishes, vars,
     sharedVars
<1>8. CASE Restart
  BY <1>8 DEF Restart, IInv, Typed, TypedInstance
<1>9. QED
  BY <1>1, <1>2, <1>3, <1>4, <1>5, <1>6, <1>7, <1>8 DEF Next, Step

(* What a client was told stays true: an entry that has no expired error    *)
(* leaves the map, or is replaced, only when a worker handles the end of a  *)
(* Pod of its name that ended well (factory.go:259,                         *)
(* factory_podevents.go:29, 97-102), or in the step that starts a new       *)
(* instance of the service.  The last entry of the map is no exception.     *)
THEOREM EntriesStay == Spec => EntryStays
<1>1. IInv /\ [Next]_vars =>
        [\A n \in Names :
           odps[n] # None /\ odps'[n] # odps[n] =>
              \/ heap[odps[n]].err = "expired"
              \/ \E w \in Workers : ActOn(w, "Succeeded") /\ NameOf(w) = n
              \/ instance' # instance]_vars
  BY StepEntryStays
<1>2. QED
  BY <1>1, InvariantIInv, PTL DEF Spec, EntryStays
=============================================================================
