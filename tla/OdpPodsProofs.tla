---------------------------- MODULE OdpPodsProofs ----------------------------
(***************************************************************************)
(* NoAbandonedPod and DroppedPodIsDeleted of OdpFactory, for every value of *)
(* its constants.  The types come from OdpFactoryProofs.  Each property     *)
(* needs the other: an event of a Pod in deletedPods may be dropped because *)
(* a worker is about to delete that Pod.  Both rest on what the informer    *)
(* and the workers can still see of a Pod.                                  *)
(***************************************************************************)
EXTENDS OdpFactoryProofs

-----------------------------------------------------------------------------
(* The invariant *)

(* p is the Pod called n, or somebody still takes it for that Pod.          *)
Sight(n, p) ==
    /\ p # None
    /\ \/ p = api[n]
       \/ p = cache[n]
       \/ p \in Watched(n)
       \/ \E w \in Workers : NameOf(w) = n /\ worker[w].pod = p

(* A UID belongs to one name.                                               *)
OneName ==
    \A m, n \in Names : \A p, q \in Pod :
        Sight(m, p) /\ Sight(n, q) /\ p.uid = q.uid => m = n

(* Nobody sees a Pod in a finished phase that has not finished.             *)
OnlyForward ==
    \A n \in Names : \A p \in Pod :
        Sight(n, p) /\ api[n] # None /\ p.uid = api[n].uid /\ p.phase \in Finished
            => api[n].phase \in Finished

(* The last thing the informer is told, or was told, is how things are.     *)
Told ==
    \A n \in Names :
        api[n] = IF watch[n] = << >> THEN cache[n] ELSE watch[n][Len(watch[n])]

(* A worker at rest has nothing; a handler past the section under odpsMutex *)
(* has a Pod, and one that cleans up has a Pod it saw finished.             *)
HoldsItsPod(w) ==
    /\ worker[w].pc = "idle" => worker[w] = IdleWorker
    /\ worker[w].pc \notin {"idle", "read", "lock"} => worker[w].pod # None
    /\ worker[w].pc \in {"remember", "token", "clear", "delete"} =>
          worker[w].pod.phase \in Finished

HoldsPod == \A w \in Workers : HoldsItsPod(w)

PodInv ==
    OneName /\ OnlyForward /\ Told /\ HoldsPod /\ DroppedPodIsDeleted /\ NoAbandonedPod

LEMMA InitPodInv == Init => PodInv
<1> SUFFICES ASSUME Init
             PROVE  PodInv
  OBVIOUS
<1>1. \A n \in Names : /\ api[n] \in Pod \cup {None} /\ cache[n] = api[n]
                       /\ watch[n] = << >> /\ Watched(n) = {}
  BY DEF Init, ExistingPods, Watched
<1>2. \A w \in Workers : worker[w] = IdleWorker /\ worker[w].pc = "idle"
                        /\ worker[w].pod = None
  BY DEF Init, IdleWorker
<1>3. ASSUME NEW n \in Names, NEW p \in Pod, Sight(n, p)
      PROVE  api[n] # None /\ p = api[n]
  BY <1>1, <1>2, <1>3 DEF Sight
<1>4. OneName
  BY <1>3 DEF OneName, Init, ExistingPods
<1>5. OnlyForward
  BY <1>3 DEF OnlyForward
<1>6. Told /\ HoldsPod
  BY <1>1, <1>2 DEF Told, HoldsPod, HoldsItsPod
<1>7. DroppedPodIsDeleted
  BY DEF DroppedPodIsDeleted, Init
<1>8. \A n \in Names : api[n] # None => waiting[n] > 0
  BY DEF Init, CreateEvents
<1>9. NoAbandonedPod
  BY <1>8 DEF NoAbandonedPod, FinishedPod, Noticed
<1>10. QED
  BY <1>4, <1>5, <1>6, <1>7, <1>9 DEF PodInv

-----------------------------------------------------------------------------
(* Steps that touch neither Pods, nor what is known of them *)

LEMMA QuietKeeps ==
    ASSUME PodInv,
           UNCHANGED <<worker, waiting, cache, api, watch, undeleted, deletedPods>>
    PROVE  PodInv'
<1>1. ASSUME NEW n, NEW p
      PROVE  Sight(n, p)' <=> Sight(n, p)
  BY DEF PodInv, Sight, Watched, NameOf
<1>2. OneName' /\ OnlyForward'
  BY <1>1 DEF PodInv, OneName, OnlyForward
<1>3. Told' /\ HoldsPod'
  BY DEF PodInv, Told, HoldsPod, HoldsItsPod
<1>4. DroppedPodIsDeleted'
  BY DEF PodInv, DroppedPodIsDeleted, NameOf
<1>5. NoAbandonedPod'
  BY DEF PodInv, NoAbandonedPod, FinishedPod, Noticed, NameOf, WorkerAt
<1>6. QED
  BY <1>2, <1>3, <1>4, <1>5 DEF PodInv

(* Merging two items of a Pod leaves one.                                   *)
LEMMA MergeItemKeeps ==
    ASSUME PodInv, Typed, NEW n \in Names, MergeItem(n)
    PROVE  PodInv'
<1>1. /\ UNCHANGED <<worker, cache, api, watch, undeleted, deletedPods>>
      /\ \A m \in Names : waiting[m] > 0 => waiting'[m] > 0
  BY BoundsAssumption DEF MergeItem, sharedVars, serverVars, Typed, TypedQueue
<1>2. ASSUME NEW m, NEW p
      PROVE  Sight(m, p)' <=> Sight(m, p)
  BY <1>1 DEF PodInv, Sight, Watched, NameOf
<1>3. OneName' /\ OnlyForward'
  BY <1>1, <1>2 DEF PodInv, OneName, OnlyForward
<1>4. Told' /\ HoldsPod' /\ DroppedPodIsDeleted'
  BY <1>1 DEF PodInv, Told, HoldsPod, HoldsItsPod, DroppedPodIsDeleted, NameOf
<1>5. NoAbandonedPod'
  BY <1>1 DEF PodInv, NoAbandonedPod, FinishedPod, Noticed, NameOf, WorkerAt
<1>6. QED
  BY <1>3, <1>4, <1>5 DEF PodInv

LEMMA RequesterQuiet ==
    ASSUME PodInv, NEW r \in Requesters, RequesterStep(r)
    PROVE  PodInv'
BY QuietKeeps DEF RequesterStep, CheckError, SendCreate, requesterFrame, controlVars,
   sharedVars, serverVars

LEMMA RequestQuiet ==
    ASSUME PodInv, NEW r \in Requesters, NEW n \in Names, Request(r, n)
    PROVE  PodInv'
BY QuietKeeps DEF Request, requesterFrame, controlVars, serverVars

LEMMA ErrorExpiresQuiet ==
    ASSUME PodInv, NEW n \in Names, ErrorExpires(n)
    PROVE  PodInv'
BY QuietKeeps DEF ErrorExpires, stillVars, controlVars, sharedVars, serverVars

LEMMA CreatorQuiet ==
    ASSUME PodInv, NEW c \in Creators, CreatorStep(c),
           ~createPod(c), ~(createPodFails(c) /\ ~UNCHANGED <<api, watch>>)
    PROVE  PodInv'
<1>1. UNCHANGED <<worker, waiting, cache, api, watch, undeleted, deletedPods>>
  BY DEF CreatorStep, TakeName, FindOdp, Refuse, Admit, createOdpToken, createOdpTokenFails,
     getPodSpec, getPodSpecFails, createPodFails, PodCreated, PodNotCreated, UndoToken,
     creatorFrame, controlVars, sharedVars, serverVars
<1>2. QED
  BY <1>1, QuietKeeps

-----------------------------------------------------------------------------
(* What a change of the namespace does to the sights *)

LEMMA SetPodSees ==
    ASSUME TypedServer, NEW n \in Names, NEW p, SetPod(n, p)
    PROVE  /\ api'[n] = p
           /\ watch'[n] # << >> /\ watch'[n][Len(watch'[n])] = p
           /\ \A m \in Names : m # n => api'[m] = api[m] /\ watch'[m] = watch[m]
           /\ \A q : q \in Watched(n)' => q \in Watched(n) \/ q = p
           /\ \A m \in Names : m # n => Watched(m)' = Watched(m)
<1>1. /\ api'[n] = p
      /\ watch'[n] = IF Len(watch[n]) < MaxLag THEN Append(watch[n], p)
                     ELSE [watch[n] EXCEPT ![MaxLag] = p]
      /\ \A m \in Names : m # n => api'[m] = api[m] /\ watch'[m] = watch[m]
  BY DEF SetPod, TypedServer
<1>2. watch[n] \in Seq(Pod \cup {None}) /\ Len(watch[n]) <= MaxLag /\ Len(watch[n]) \in Nat
  BY DEF TypedServer
<1>3. CASE Len(watch[n]) < MaxLag
  <2>1. watch'[n] = Append(watch[n], p)
    BY <1>1, <1>3
  <2>2. DEFINE s == watch[n]
               t == Append(s, p)
  <2>3. Len(t) = Len(s) + 1 /\ t[Len(t)] = p /\ \A i \in 1..Len(s) : t[i] = s[i]
    BY <1>2
  <2>4. DOMAIN t = 1..(Len(s) + 1) /\ DOMAIN s = 1..Len(s)
    BY <1>2
  <2>5. t # << >>
    <3>1. 1 \in DOMAIN t /\ DOMAIN << >> = 1..0
      BY <1>2, <2>4
    <3>2. QED
      BY <3>1
  <2>6. \A i \in DOMAIN t : t[i] = p \/ \E j \in DOMAIN s : t[i] = s[j]
    <3>1. \A i \in 1..(Len(s) + 1) : i \in 1..Len(s) \/ i = Len(s) + 1
      BY <1>2
    <3>2. t[Len(s) + 1] = p
      BY <2>3
    <3> HIDE DEF s, t
    <3>3. QED
      BY <2>3, <2>4, <3>1, <3>2
  <2>7. QED
    BY <1>1, <2>1, <2>3, <2>5, <2>6 DEF Watched
<1>4. CASE ~(Len(watch[n]) < MaxLag)
  <2>1. watch'[n] = [watch[n] EXCEPT ![MaxLag] = p]
    BY <1>1, <1>4
  <2>2. Len(watch[n]) = MaxLag /\ MaxLag \in DOMAIN watch[n] /\ MaxLag > 0
    BY <1>2, <1>4, BoundsAssumption
  <2>3. DOMAIN watch'[n] = DOMAIN watch[n] /\ watch'[n][MaxLag] = p
    BY <1>2, <2>1, <2>2
  <2>4. \A i \in DOMAIN watch[n] : watch'[n][i] = p \/ watch'[n][i] = watch[n][i]
    BY <1>2, <2>1
  <2>5. DOMAIN watch'[n] = 1..MaxLag
    BY <1>2, <2>2, <2>3
  <2>6. Len(watch'[n]) = MaxLag
    BY <2>1, <2>2, <1>2
  <2>7. watch'[n] # << >>
    BY <2>2, <2>3
  <2>8. QED
    BY <1>1, <2>3, <2>4, <2>6, <2>7 DEF Watched
<1>5. QED
  BY <1>3, <1>4

LEMMA FewerSights ==
    ASSUME PodInv, api' = api,
           \A n \in Names : \A p \in Pod : Sight(n, p)' => Sight(n, p)
    PROVE  OneName' /\ OnlyForward'
<1>1. OneName'
  <2>1. SUFFICES ASSUME NEW m \in Names, NEW n \in Names, NEW p \in Pod, NEW q \in Pod,
                        Sight(m, p)', Sight(n, q)', p.uid = q.uid
                 PROVE  m = n
    BY DEF OneName
  <2>2. Sight(m, p) /\ Sight(n, q)
    BY <2>1
  <2>3. QED
    BY <2>1, <2>2 DEF PodInv, OneName
<1>2. OnlyForward'
  <2>1. SUFFICES ASSUME NEW n \in Names, NEW p \in Pod, Sight(n, p)', api'[n] # None,
                        p.uid = api'[n].uid, p.phase \in Finished
                 PROVE  api'[n].phase \in Finished
    BY DEF OnlyForward
  <2>2. Sight(n, p)
    BY <2>1
  <2>3. QED
    BY <2>1, <2>2 DEF PodInv, OnlyForward
<1>3. QED
  BY <1>1, <1>2

LEMMA WorkerSights ==
    ASSUME UNCHANGED <<cache, api, watch>>,
           \A w \in Workers :
              \/ worker'[w].pod = None
              \/ /\ worker'[w].name = worker[w].name
                 /\ \/ worker'[w].pod = worker[w].pod
                    \/ worker'[w].pod = cache[worker[w].name]
    PROVE  \A n \in Names : \A p \in Pod : Sight(n, p)' => Sight(n, p)
BY DEF Sight, Watched, NameOf

LEMMA FreshUid ==
    ASSUME Typed, NEW n \in Names, NEW p \in Pod, NEW u \in FreshUids, Sight(n, p)
    PROVE  p.uid # u
<1>1. p = api[n] \/ p = cache[n] => p \in PodsInSight
  BY DEF Sight, PodsInSight
<1>2. ASSUME p \in Watched(n)
      PROVE  p \in PodsInSight
  <2>1. p \in UNION {Watched(m) : m \in Names}
    <3>1. Watched(n) \in {Watched(m) : m \in Names}
      OBVIOUS
    <3>2. QED
      BY <1>2, <3>1
  <2>2. QED
    BY <2>1 DEF Sight, PodsInSight
<1>3. (\E w \in Workers : NameOf(w) = n /\ worker[w].pod = p) => p \in PodsInSight
  BY DEF Sight, PodsInSight
<1>4. p \in PodsInSight
  BY <1>1, <1>2, <1>3 DEF Sight
<1>5. QED
  BY <1>4 DEF FreshUids

LEMMA NamesIn ==
    ASSUME Typed
    PROVE  /\ \A n \in Names : api[n] \in Pod \cup {None} /\ cache[n] \in Pod \cup {None}
           /\ \A w \in Workers : worker[w].pc # "idle" => NameOf(w) \in Names
           /\ \A p \in Pod : p.uid \in Uids /\ p.phase \in Phases
BY DEF Typed, TypedServer, TypedCache, TypedWorker, NameOf, Pod

-----------------------------------------------------------------------------
(* The two properties, name by name *)

DroppedIsDeleted(n) ==
    api[n] # None /\ api[n].uid \in deletedPods =>
        \/ api[n].uid \in undeleted
        \/ \E w \in Workers :
             /\ worker[w].pc \in {"token", "clear", "delete"}
             /\ NameOf(w) = n /\ worker[w].pod.uid = api[n].uid

NotAbandoned(n) ==
    FinishedPod(n) => watch[n] # << >> \/ Noticed(n) \/ api[n].uid \in undeleted

Kept(n) == DroppedIsDeleted(n) /\ NotAbandoned(n)

LEMMA KeptAll ==
    (\A n \in Names : Kept(n)) <=> DroppedPodIsDeleted /\ NoAbandonedPod
BY DEF Kept, DroppedIsDeleted, NotAbandoned, DroppedPodIsDeleted, NoAbandonedPod

LEMMA KeptAllNext ==
    (\A n \in Names : Kept(n)') => DroppedPodIsDeleted' /\ NoAbandonedPod'
BY DEF Kept, DroppedIsDeleted, NotAbandoned, DroppedPodIsDeleted, NoAbandonedPod

(* A step that does nothing to the Pod called m, to its items, or to the    *)
(* workers that handle it.                                                  *)
LEMMA OtherName ==
    ASSUME PodInv, NEW m \in Names,
           api'[m] = api[m], watch'[m] = watch[m], waiting'[m] = waiting[m],
           \A w \in Workers : NameOf(w) = m => worker'[w] = worker[w],
           api[m] # None /\ api[m].uid \in undeleted => api[m].uid \in undeleted',
           api[m] # None /\ api[m].uid \in deletedPods' => api[m].uid \in deletedPods
    PROVE  Kept(m)'
<1>1. DroppedIsDeleted(m) /\ NotAbandoned(m)
  BY KeptAll DEF PodInv, Kept
<1>2. DroppedIsDeleted(m)'
  BY <1>1 DEF DroppedIsDeleted, NameOf
<1>3. NotAbandoned(m)'
  BY <1>1 DEF NotAbandoned, FinishedPod, Noticed, NameOf, WorkerAt
<1>4. QED
  BY <1>2, <1>3 DEF Kept

(* A UID is that of one Pod of the namespace.                               *)
LEMMA UidsDiffer ==
    ASSUME PodInv, Typed, NEW m \in Names, NEW n \in Names, m # n,
           api[m] # None, api[n] # None
    PROVE  api[m].uid # api[n].uid
<1>1. Sight(m, api[m]) /\ Sight(n, api[n])
  BY DEF Sight
<1>2. api[m] \in Pod /\ api[n] \in Pod
  BY NamesIn
<1>3. QED
  BY <1>1, <1>2 DEF PodInv, OneName

-----------------------------------------------------------------------------
(* The namespace changes *)

LEMMA SetPodSights ==
    ASSUME Typed, NEW n \in Names, NEW p, SetPod(n, p), cache' = cache,
           \A w \in Workers : \/ worker'[w].pod = None
                              \/ /\ worker'[w].pod = worker[w].pod
                                 /\ worker'[w].name = worker[w].name
    PROVE  \A m \in Names : \A q \in Pod : Sight(m, q)' => Sight(m, q) \/ (m = n /\ q = p)
<1>1. /\ api'[n] = p
      /\ \A m \in Names : m # n => api'[m] = api[m] /\ Watched(m)' = Watched(m)
      /\ \A q : q \in Watched(n)' => q \in Watched(n) \/ q = p
  BY SetPodSees DEF Typed
<1>2. SUFFICES ASSUME NEW m \in Names, NEW q \in Pod, Sight(m, q)', ~(m = n /\ q = p)
               PROVE  Sight(m, q)
  OBVIOUS
<1>3. q # None
  BY <1>2 DEF Sight
<1>4. q = api'[m] => q = api[m]
  BY <1>1, <1>2
<1>5. q \in Watched(m)' => q \in Watched(m)
  BY <1>1, <1>2
<1>6. ASSUME NEW w \in Workers, worker'[w].name = m, worker'[w].pod = q
      PROVE  worker[w].name = m /\ worker[w].pod = q
  BY <1>3, <1>6
<1>7. QED
  BY <1>2, <1>3, <1>4, <1>5, <1>6 DEF Sight, NameOf

LEMMA SetPodTold ==
    ASSUME Typed, Told, NEW n \in Names, NEW p, SetPod(n, p), cache' = cache
    PROVE  Told'
BY SetPodSees DEF Typed, Told

(* Sights of Pods that were seen before, perhaps in an earlier phase.       *)
LEMMA SameUids ==
    ASSUME OneName,
           \A m \in Names : \A q \in Pod :
              Sight(m, q)' => \E p \in Pod : Sight(m, p) /\ p.uid = q.uid
    PROVE  OneName'
<1>1. SUFFICES ASSUME NEW m \in Names, NEW n \in Names, NEW p \in Pod, NEW q \in Pod,
                      Sight(m, p)', Sight(n, q)', p.uid = q.uid
               PROVE  m = n
  BY DEF OneName
<1>2. PICK p0 \in Pod : Sight(m, p0) /\ p0.uid = p.uid
  BY <1>1
<1>3. PICK q0 \in Pod : Sight(n, q0) /\ q0.uid = q.uid
  BY <1>1
<1>4. QED
  BY <1>1, <1>2, <1>3 DEF OneName

LEMMA RemovePodSights ==
    ASSUME PodInv, Typed, NEW n \in Names, RemovePod(n), cache' = cache,
           \A w \in Workers : \/ worker'[w].pod = None
                              \/ /\ worker'[w].pod = worker[w].pod
                                 /\ worker'[w].name = worker[w].name
    PROVE  OneName' /\ OnlyForward' /\ Told'
<1>1. SetPod(n, None)
  BY DEF RemovePod
<1>2. \A m \in Names : \A q \in Pod : Sight(m, q)' => Sight(m, q)
  <2>1. \A m \in Names : \A q \in Pod : Sight(m, q)' => q # None
    BY DEF Sight
  <2>2. QED
    BY <1>1, <2>1, SetPodSights
<1>3. OneName'
  BY <1>2, SameUids DEF PodInv
<1>4. \A m \in Names : api'[m] = None \/ api'[m] = api[m]
  BY <1>1, SetPodSees DEF Typed
<1>5. OnlyForward'
  <2>1. SUFFICES ASSUME NEW m \in Names, NEW p \in Pod, Sight(m, p)', api'[m] # None,
                        p.uid = api'[m].uid, p.phase \in Finished
                 PROVE  api'[m].phase \in Finished
    BY DEF OnlyForward
  <2>2. Sight(m, p) /\ api'[m] = api[m]
    BY <1>2, <1>4, <2>1
  <2>3. QED
    BY <2>1, <2>2 DEF PodInv, OnlyForward
<1>6. QED
  BY <1>1, <1>3, <1>5, SetPodTold DEF PodInv

(* The rest of the cluster: an eviction, or a Pod that moves on.            *)
LEMMA RemovePodOthers ==
    ASSUME PodInv, Typed, NEW n \in Names, api[n] # None, RemovePod(n),
           waiting' = waiting, deletedPods' = deletedPods,
           \A w \in Workers : NameOf(w) \in Names \ {n} => worker'[w] = worker[w]
    PROVE  \A m \in Names : Kept(m)'
<1>1. /\ api'[n] = None
      /\ \A m \in Names : m # n => api'[m] = api[m] /\ watch'[m] = watch[m]
  BY SetPodSees DEF Typed, RemovePod
<1>2. undeleted' = undeleted \ {api[n].uid}
  BY DEF RemovePod
<1>3. Kept(n)'
  BY <1>1 DEF Kept, DroppedIsDeleted, NotAbandoned, FinishedPod
<1>4. ASSUME NEW m \in Names, m # n
      PROVE  Kept(m)'
  <2>1. api[m] # None => api[m].uid # api[n].uid
    BY <1>4, UidsDiffer
  <2>2. QED
    BY <1>1, <1>2, <1>4, <2>1, OtherName
<1>5. QED
  BY <1>3, <1>4

LEMMA PodVanishesKeeps ==
    ASSUME PodInv, Typed, NEW n \in Names, PodVanishes(n)
    PROVE  PodInv'
<1>1. api[n] # None /\ RemovePod(n)
      /\ UNCHANGED <<worker, waiting, cache, deletedPods>>
  BY DEF PodVanishes, sharedVars, stillVars, controlVars
<1>2. OneName' /\ OnlyForward' /\ Told'
  BY <1>1, RemovePodSights
<1>3. DroppedPodIsDeleted' /\ NoAbandonedPod'
  BY <1>1, RemovePodOthers, KeptAllNext
<1>4. HoldsPod'
  BY <1>1 DEF PodInv, HoldsPod, HoldsItsPod
<1>5. QED
  BY <1>2, <1>3, <1>4 DEF PodInv

LEMMA PodMovesKeeps ==
    ASSUME PodInv, Typed, NEW n \in Names, PodMoves(n)
    PROVE  PodInv'
<1>1. api[n] # None /\ UNCHANGED <<worker, waiting, cache, deletedPods, undeleted>>
  BY DEF PodMoves, sharedVars, stillVars, controlVars
<1>2. PICK ph \in NextPhases(api[n].phase) : SetPod(n, [api[n] EXCEPT !.phase = ph])
  BY DEF PodMoves
<1>3. api[n] \in Pod /\ Sight(n, api[n])
  BY <1>1, NamesIn DEF Sight
<1>4. PICK p : p = [api[n] EXCEPT !.phase = ph]
  OBVIOUS
<1>5. p.uid = api[n].uid /\ p.phase = ph /\ SetPod(n, p)
  BY <1>2, <1>3, <1>4 DEF Pod
<1>6. api[n].phase \in Finished => ph = api[n].phase
  BY <1>2, <1>3 DEF NextPhases, Finished, Pod
<1>7. /\ api'[n] = p /\ watch'[n] # << >>
      /\ \A m \in Names : m # n => api'[m] = api[m] /\ watch'[m] = watch[m]
  BY <1>5, SetPodSees DEF Typed
<1>8. \A m \in Names : \A q \in Pod : Sight(m, q)' => Sight(m, q) \/ (m = n /\ q = p)
  BY <1>1, <1>5, SetPodSights
<1>9. OneName'
  <2>1. ASSUME NEW m \in Names, NEW q \in Pod, Sight(m, q)'
        PROVE  \E r \in Pod : Sight(m, r) /\ r.uid = q.uid
    BY <1>3, <1>5, <1>8, <2>1
  <2>2. QED
    BY <2>1, SameUids DEF PodInv
<1>10. OnlyForward'
  <2>1. SUFFICES ASSUME NEW m \in Names, NEW q \in Pod, Sight(m, q)', api'[m] # None,
                        q.uid = api'[m].uid, q.phase \in Finished
                 PROVE  api'[m].phase \in Finished
    BY DEF OnlyForward
  <2>2. CASE m = n /\ q = p
    BY <1>7, <2>1, <2>2
  <2>3. CASE m = n /\ Sight(m, q)
    <3>1. api[n].phase \in Finished
      BY <1>1, <1>5, <1>7, <2>1, <2>3 DEF PodInv, OnlyForward
    <3>2. QED
      BY <1>5, <1>6, <1>7, <2>3, <3>1
  <2>4. CASE m # n /\ Sight(m, q)
    BY <1>7, <2>1, <2>4 DEF PodInv, OnlyForward
  <2>5. QED
    BY <1>8, <2>1, <2>2, <2>3, <2>4
<1>11. Told' /\ HoldsPod'
  BY <1>1, <1>5, SetPodTold DEF PodInv, HoldsPod, HoldsItsPod
<1>12. Kept(n)'
  <2>1. DroppedIsDeleted(n)
    BY KeptAll DEF PodInv, Kept
  <2>2. DroppedIsDeleted(n)'
    BY <1>1, <1>5, <1>7, <2>1 DEF DroppedIsDeleted, NameOf
  <2>3. QED
    BY <1>7, <2>2 DEF Kept, NotAbandoned
<1>13. \A m \in Names : m # n => Kept(m)'
  BY <1>1, <1>7, OtherName
<1>14. QED
  BY <1>9, <1>10, <1>11, <1>12, <1>13, KeptAllNext DEF PodInv

(* A new Pod has a UID nobody has seen.                                     *)
LEMMA PostPodKeeps ==
    ASSUME PodInv, Typed, NEW c \in Creators, CreatorAt(c, "post"), PostPod(c),
           UNCHANGED <<worker, waiting, cache, deletedPods, undeleted>>
    PROVE  PodInv'
<1>1. PICK n : n = creator[c].name
  OBVIOUS
<1>2. n \in Names
  BY <1>1 DEF Typed, TypedCreator, CreatorAt
<1>3. PICK u \in FreshUids :
          SetPod(n, [uid |-> u, phase |-> "Pending", token |-> creator[c].token])
  BY <1>1 DEF PostPod
<1>4. PICK p : p = [uid |-> u, phase |-> "Pending", token |-> creator[c].token]
  OBVIOUS
<1>5. p.uid = u /\ p.phase = "Pending" /\ SetPod(n, p) /\ u \notin deletedPods
  BY <1>3, <1>4 DEF FreshUids
<1>6. /\ api'[n] = p /\ watch'[n] # << >>
      /\ \A m \in Names : m # n => api'[m] = api[m] /\ watch'[m] = watch[m]
  BY <1>2, <1>5, SetPodSees DEF Typed
<1>7. \A m \in Names : \A q \in Pod : Sight(m, q)' => Sight(m, q) \/ (m = n /\ q = p)
  BY <1>2, <1>5, SetPodSights
<1>8. \A m \in Names : \A q \in Pod : Sight(m, q) => q.uid # u
  BY <1>3, FreshUid
<1>9. OneName'
  <2>1. SUFFICES ASSUME NEW k \in Names, NEW m \in Names, NEW q \in Pod, NEW r \in Pod,
                        Sight(k, q)', Sight(m, r)', q.uid = r.uid
                 PROVE  k = m
    BY DEF OneName
  <2>2. CASE Sight(k, q) /\ Sight(m, r)
    BY <2>1, <2>2 DEF PodInv, OneName
  <2>3. CASE k = n /\ q = p
    <3>1. m = n /\ r = p
      BY <1>5, <1>7, <1>8, <2>1, <2>3
    <3>2. QED
      BY <2>3, <3>1
  <2>4. CASE m = n /\ r = p
    <3>1. k = n /\ q = p
      BY <1>5, <1>7, <1>8, <2>1, <2>4
    <3>2. QED
      BY <2>4, <3>1
  <2>5. QED
    BY <1>7, <2>1, <2>2, <2>3, <2>4
<1>10. OnlyForward'
  <2>1. SUFFICES ASSUME NEW m \in Names, NEW q \in Pod, Sight(m, q)', api'[m] # None,
                        q.uid = api'[m].uid, q.phase \in Finished
                 PROVE  api'[m].phase \in Finished
    BY DEF OnlyForward
  <2>2. CASE m = n
    BY <1>5, <1>6, <1>7, <1>8, <2>1, <2>2
  <2>3. CASE m # n
    BY <1>6, <1>7, <2>1, <2>3 DEF PodInv, OnlyForward
  <2>4. QED
    BY <2>2, <2>3
<1>11. Told' /\ HoldsPod'
  BY <1>2, <1>5, SetPodTold DEF PodInv, HoldsPod, HoldsItsPod
<1>12. Kept(n)'
  BY <1>5, <1>6 DEF Kept, DroppedIsDeleted, NotAbandoned
<1>13. \A m \in Names : m # n => Kept(m)'
  BY <1>6, OtherName
<1>14. QED
  BY <1>9, <1>10, <1>11, <1>12, <1>13, KeptAllNext DEF PodInv

LEMMA CreatorKeeps ==
    ASSUME PodInv, Typed, NEW c \in Creators, CreatorStep(c)
    PROVE  PodInv'
<1>1. CASE createPod(c)
  BY <1>1, PostPodKeeps DEF createPod, creatorFrame, controlVars, sharedVars
<1>2. CASE createPodFails(c) /\ ~UNCHANGED <<api, watch>>
  <2>1. CreatorAt(c, "post") /\ PostPod(c)
        /\ UNCHANGED <<worker, waiting, cache, deletedPods, undeleted>>
    BY <1>2 DEF createPodFails, creatorFrame, controlVars, sharedVars
  <2>2. QED
    BY <2>1, PostPodKeeps
<1>3. QED
  BY <1>1, <1>2, CreatorQuiet

-----------------------------------------------------------------------------
(* Workers *)

LEMMA WorkerKeeps ==
    ASSUME PodInv, NEW w \in Workers, NEW n \in Names, NameOf(w) = n,
           UNCHANGED <<cache, api, watch, waiting, undeleted>>,
           \A v \in Workers : v # w => worker'[v] = worker[v],
           \/ worker'[w].pod = None
           \/ /\ worker'[w].name = n
              /\ worker'[w].pod = worker[w].pod \/ worker'[w].pod = cache[n],
           \A m \in Names : m # n /\ api[m] # None /\ api[m].uid \in deletedPods'
                               => api[m].uid \in deletedPods,
           Kept(n)', HoldsItsPod(w)'
    PROVE  PodInv'
<1>1. \A m \in Names : \A p \in Pod : Sight(m, p)' => Sight(m, p)
  BY WorkerSights DEF NameOf
<1>2. OneName' /\ OnlyForward'
  BY <1>1, FewerSights
<1>3. Told'
  BY DEF PodInv, Told
<1>4. HoldsPod'
  BY DEF PodInv, HoldsPod, HoldsItsPod
<1>5. ASSUME NEW m \in Names, m # n
      PROVE  Kept(m)'
  BY <1>5, OtherName
<1>6. QED
  BY <1>2, <1>3, <1>4, <1>5, KeptAllNext DEF PodInv

(* The worker goes on with the Pod it has.                                  *)
LEMMA WorkerGoesOn ==
    ASSUME PodInv, NEW w \in Workers, NEW n \in Names, NameOf(w) = n,
           UNCHANGED <<cache, api, watch, waiting, undeleted, deletedPods>>,
           \A v \in Workers : v # w => worker'[v] = worker[v],
           worker'[w].name = n, worker'[w].pod = worker[w].pod,
           worker[w].pc \notin {"idle", "read"},
           worker[w].pc \in {"token", "clear", "delete"} =>
               worker'[w].pc \in {"token", "clear", "delete"},
           HoldsItsPod(w)'
    PROVE  PodInv'
<1>1. DroppedIsDeleted(n) /\ NotAbandoned(n)
  BY KeptAll DEF PodInv, Kept
<1>2. DroppedIsDeleted(n)'
  BY <1>1 DEF DroppedIsDeleted, NameOf
<1>3. NotAbandoned(n)'
  BY <1>1 DEF NotAbandoned, FinishedPod, Noticed, NameOf, WorkerAt
<1>4. QED
  BY <1>2, <1>3, WorkerKeeps DEF Kept

(* The worker has no finished Pod and is done.                              *)
LEMMA WorkerIsDone ==
    ASSUME PodInv, Typed, NEW w \in Workers, NEW n \in Names, NameOf(w) = n,
           UNCHANGED <<cache, api, watch, waiting, undeleted, deletedPods>>,
           WorkerRests(w),
           worker[w].pc \in {"lock", "act"},
           worker[w].pod # None => worker[w].pod.phase \notin Finished
    PROVE  PodInv'
<1>1. DroppedIsDeleted(n) /\ NotAbandoned(n)
  BY KeptAll DEF PodInv, Kept
<1>2. worker'[w] = IdleWorker /\ \A v \in Workers : v # w => worker'[v] = worker[v]
  BY DEF WorkerRests, Typed, TypedWorker
<1>3. DroppedIsDeleted(n)'
  BY <1>1, <1>2 DEF DroppedIsDeleted, NameOf
<1>4. NotAbandoned(n)'
  BY <1>1, <1>2 DEF NotAbandoned, FinishedPod, Noticed, NameOf, WorkerAt
<1>5. worker'[w].pod = None /\ HoldsItsPod(w)'
  BY <1>2 DEF IdleWorker, HoldsItsPod
<1>6. QED
  BY <1>2, <1>3, <1>4, <1>5, WorkerKeeps DEF Kept

LEMMA ReadCacheKeeps ==
    ASSUME PodInv, Typed, NEW w \in Workers, ReadCache(w)
    PROVE  PodInv'
<1>1. PICK n \in Names : NameOf(w) = n
  BY NamesIn DEF ReadCache, WorkerAt
<1>2. /\ UNCHANGED <<cache, api, watch, waiting, undeleted, deletedPods>>
      /\ \A v \in Workers : v # w => worker'[v] = worker[v]
      /\ worker'[w].name = n /\ worker'[w].pod = cache[n] /\ worker'[w].pc = "lock"
      /\ worker[w].pc = "read"
  BY <1>1 DEF ReadCache, WorkerAt, NameOf, workerFrame, controlVars, sharedVars, serverVars,
     Typed, TypedWorker, WorkerState
<1>3. DroppedIsDeleted(n) /\ NotAbandoned(n)
  BY KeptAll DEF PodInv, Kept
<1>4. DroppedIsDeleted(n)'
  BY <1>2, <1>3 DEF DroppedIsDeleted, NameOf
<1>5. NotAbandoned(n)'
  <2>1. CASE watch[n] # << >> \/ ~FinishedPod(n)
    BY <1>2, <2>1 DEF NotAbandoned, FinishedPod
  <2>2. CASE watch[n] = << >> /\ FinishedPod(n)
    <3>1. cache[n] = api[n]
      BY <2>2 DEF PodInv, Told
    <3>2. QED
      BY <1>2, <2>2, <3>1 DEF NotAbandoned, FinishedPod, Noticed, NameOf, WorkerAt
  <2>3. QED
    BY <2>1, <2>2
<1>6. HoldsItsPod(w)'
  BY <1>2 DEF HoldsItsPod
<1>7. QED
  BY <1>1, <1>2, <1>4, <1>5, <1>6, WorkerKeeps DEF Kept

(* Some other worker is about to delete the Pod, or its DELETE has failed.  *)
LEMMA DropEventKeeps ==
    ASSUME PodInv, Typed, NEW w \in Workers, DropEvent(w)
    PROVE  PodInv'
<1>1. PICK n \in Names : NameOf(w) = n
  BY NamesIn DEF DropEvent, Locked, WorkerAt
<1>2. /\ UNCHANGED <<cache, api, watch, waiting, undeleted, deletedPods>>
      /\ worker[w].pc = "lock" /\ worker[w].pod # None /\ worker[w].pod.uid \in deletedPods
      /\ worker'[w] = IdleWorker /\ \A v \in Workers : v # w => worker'[v] = worker[v]
  BY DEF DropEvent, Locked, WorkerAt, WorkerRests, workerFrame, controlVars, sharedVars,
     serverVars, Typed, TypedWorker
<1>3. DroppedIsDeleted(n) /\ NotAbandoned(n)
  BY KeptAll DEF PodInv, Kept
<1>4. DroppedIsDeleted(n)'
  BY <1>2, <1>3 DEF DroppedIsDeleted, NameOf
<1>5. NotAbandoned(n)'
  <2>1. CASE api[n] # None /\ worker[w].pod.uid = api[n].uid
    <3>1. \/ api[n].uid \in undeleted
          \/ \E v \in Workers : /\ worker[v].pc \in {"token", "clear", "delete"}
                                /\ NameOf(v) = n /\ worker[v].pod.uid = api[n].uid
      BY <1>2, <1>3, <2>1 DEF DroppedIsDeleted
    <3>2. CASE api[n].uid \in undeleted
      BY <1>2, <3>2 DEF NotAbandoned
    <3>3. ASSUME NEW v \in Workers, worker[v].pc \in {"token", "clear", "delete"},
                 NameOf(v) = n, worker[v].pod.uid = api[n].uid
          PROVE  NotAbandoned(n)'
      <4>1. worker[v].pod # None /\ worker[v].pod.phase \in Finished
        BY <3>3 DEF PodInv, HoldsPod, HoldsItsPod
      <4>2. worker'[v] = worker[v]
        BY <1>2, <3>3
      <4>3. QED
        BY <1>2, <3>3, <4>1, <4>2 DEF NotAbandoned, FinishedPod, Noticed, NameOf
    <3>4. QED
      BY <3>1, <3>2, <3>3
  <2>2. CASE ~(api[n] # None /\ worker[w].pod.uid = api[n].uid)
    BY <1>2, <1>3, <2>2 DEF NotAbandoned, FinishedPod, Noticed, NameOf, WorkerAt
  <2>3. QED
    BY <2>1, <2>2
<1>6. worker'[w].pod = None /\ HoldsItsPod(w)'
  BY <1>2 DEF IdleWorker, HoldsItsPod
<1>7. QED
  BY <1>1, <1>2, <1>4, <1>5, <1>6, WorkerKeeps DEF Kept

LEMMA DoneKeeps ==
    ASSUME PodInv, Typed, NEW w \in Workers,
           PodDeleted(w) \/ PodPending(w) \/ PodRunning(w)
    PROVE  PodInv'
<1>1. PICK n \in Names : NameOf(w) = n
  BY NamesIn DEF PodDeleted, PodPending, PodRunning, ActOn, Locked, WorkerAt
<1>2. UNCHANGED <<cache, api, watch, waiting, undeleted, deletedPods>> /\ WorkerRests(w)
  BY DEF PodDeleted, PodPending, PodRunning, workerFrame, controlVars, sharedVars, serverVars
<1>3. /\ worker[w].pc \in {"lock", "act"}
      /\ worker[w].pod # None => worker[w].pod.phase \notin Finished
  BY DEF PodDeleted, PodPending, PodRunning, ActOn, Locked, WorkerAt, Finished
<1>4. QED
  BY <1>1, <1>2, <1>3, WorkerIsDone

LEMMA GoesOnKeeps ==
    ASSUME PodInv, Typed, NEW w \in Workers,
           \/ KnownOdp(w) \/ NewEntry(w) \/ reloadOdp(w) \/ PodFailed(w) \/ PodSucceeded(w)
           \/ DeleteTokenOfPod(w) \/ ClearToken(w)
    PROVE  PodInv'
<1>1. PICK n \in Names : NameOf(w) = n
  BY NamesIn DEF KnownOdp, NewEntry, reloadOdp, PodFailed, PodSucceeded, DeleteTokenOfPod,
     ClearToken, ActOn, Locked, WorkerAt
<1>2. UNCHANGED <<cache, api, watch, waiting, undeleted, deletedPods>>
  BY DEF KnownOdp, NewEntry, reloadOdp, PodFailed, PodSucceeded, DeleteTokenOfPod,
     ClearToken, workerFrame, controlVars, sharedVars, serverVars
<1>3. /\ \A v \in Workers : v # w => worker'[v] = worker[v]
      /\ worker'[w].name = n /\ worker'[w].pod = worker[w].pod
      /\ worker[w].pc \notin {"idle", "read"}
      /\ worker'[w].pc \in {"reload", "act", "remember", "token", "clear", "delete"}
      /\ worker[w].pc \in {"token", "clear", "delete"} =>
            worker'[w].pc \in {"token", "clear", "delete"}
      /\ worker[w].pod # None
      /\ worker'[w].pc \notin {"reload", "act"} => worker[w].pod.phase \in Finished
  <2>1. worker \in [Workers -> WorkerState]
    BY DEF Typed, TypedWorker
  <2>2. CASE KnownOdp(w)
    BY <1>1, <2>1, <2>2 DEF KnownOdp, Locked, WorkerAt, NameOf, WorkerState
  <2>3. CASE NewEntry(w)
    <3>1. PICK o : worker' = [worker EXCEPT ![w].pc = "reload", ![w].odp = o]
      BY <2>3 DEF NewEntry
    <3>2. worker[w].pc = "lock" /\ worker[w].pod # None
      BY <2>3 DEF NewEntry, Locked, WorkerAt
    <3>3. worker'[w].pc = "reload"
      BY <2>1, <3>1 DEF WorkerState
    <3>4. worker'[w].name = n /\ worker'[w].pod = worker[w].pod
          /\ \A v \in Workers : v # w => worker'[v] = worker[v]
      BY <1>1, <2>1, <3>1 DEF WorkerState, NameOf
    <3>5. QED
      BY <3>2, <3>3, <3>4
  <2>4. CASE reloadOdp(w)
    BY <1>1, <2>1, <2>4 DEF reloadOdp, WorkerAt, WorkerGoes, NameOf, WorkerState, PodInv,
       HoldsPod, HoldsItsPod
  <2>5. CASE PodFailed(w) \/ PodSucceeded(w)
    BY <1>1, <2>1, <2>5 DEF PodFailed, PodSucceeded, ActOn, WorkerAt, WorkerGoes, Finished,
       NameOf, WorkerState, PodInv, HoldsPod, HoldsItsPod
  <2>6. CASE DeleteTokenOfPod(w) \/ ClearToken(w)
    BY <1>1, <2>1, <2>6 DEF DeleteTokenOfPod, ClearToken, WorkerAt, WorkerGoes, WorkerDeletes,
       NameOf, WorkerState, PodInv, HoldsPod, HoldsItsPod
  <2>7. QED
    BY <2>2, <2>3, <2>4, <2>5, <2>6
<1>4. HoldsItsPod(w)'
  BY <1>3 DEF HoldsItsPod
<1>5. QED
  BY <1>1, <1>2, <1>3, <1>4, WorkerGoesOn

(* The UID that enters deletedPods is that of a Pod this worker will delete. *)
LEMMA RememberDeletedKeeps ==
    ASSUME PodInv, Typed, NEW w \in Workers, RememberDeleted(w)
    PROVE  PodInv'
<1>1. PICK n \in Names : NameOf(w) = n
  BY NamesIn DEF RememberDeleted, WorkerAt
<1>2. /\ UNCHANGED <<cache, api, watch, waiting, undeleted>>
      /\ deletedPods' = deletedPods \cup {worker[w].pod.uid}
      /\ \A v \in Workers : v # w => worker'[v] = worker[v]
      /\ worker'[w].name = n /\ worker'[w].pod = worker[w].pod /\ worker'[w].pc = "token"
      /\ worker[w].pc = "remember"
  BY <1>1 DEF RememberDeleted, WorkerAt, WorkerGoes, NameOf, workerFrame, controlVars,
     serverVars, Typed, TypedWorker, WorkerState
<1>3. worker[w].pod \in Pod /\ worker[w].pod # None /\ worker[w].pod.phase \in Finished
  BY <1>2 DEF PodInv, HoldsPod, HoldsItsPod, Typed, TypedWorker
<1>4. DroppedIsDeleted(n) /\ NotAbandoned(n)
  BY KeptAll DEF PodInv, Kept
<1>5. DroppedIsDeleted(n)'
  BY <1>1, <1>2, <1>4 DEF DroppedIsDeleted, NameOf
<1>6. NotAbandoned(n)'
  BY <1>2, <1>4 DEF NotAbandoned, FinishedPod, Noticed, NameOf, WorkerAt
<1>7. ASSUME NEW m \in Names, m # n, api[m] # None
      PROVE  api[m].uid # worker[w].pod.uid
  <2>1. Sight(n, worker[w].pod) /\ Sight(m, api[m]) /\ api[m] \in Pod
    BY <1>1, <1>3, <1>7, NamesIn DEF Sight
  <2>2. QED
    BY <1>3, <1>7, <2>1 DEF PodInv, OneName
<1>8. HoldsItsPod(w)'
  BY <1>2, <1>3 DEF HoldsItsPod
<1>9. QED
  BY <1>1, <1>2, <1>5, <1>6, <1>7, <1>8, WorkerKeeps DEF Kept

(* The worker leaves its Pod gone, or its UID in undeleted: it saw the Pod  *)
(* finished, so the Pod has finished and its DELETE takes effect at once.   *)
LEMMA deletePodKeeps ==
    ASSUME PodInv, Typed, NEW w \in Workers, deletePod(w)
    PROVE  PodInv'
<1>1. PICK n \in Names : NameOf(w) = n
  BY NamesIn DEF deletePod, WorkerAt
<1>2. /\ UNCHANGED <<cache, waiting, deletedPods>>
      /\ worker'[w] = IdleWorker /\ \A v \in Workers : v # w => worker'[v] = worker[v]
      /\ worker[w].pc = "delete"
  BY DEF deletePod, WorkerAt, WorkerRests, workerFrame, controlVars, sharedVars, Typed,
     TypedWorker
<1>3. worker'[w].pod = None /\ HoldsItsPod(w)'
  BY <1>2 DEF IdleWorker, HoldsItsPod
<1>4. HoldsPod'
  BY <1>2, <1>3 DEF PodInv, HoldsPod, HoldsItsPod
<1>5. \/ api[n] # None /\ RemovePod(n)
      \/ /\ api[n] # None => api[n].phase \notin Finished
         /\ UNCHANGED <<api, watch, undeleted>>
      \/ /\ api[n] # None /\ undeleted' = undeleted \cup {api[n].uid}
         /\ UNCHANGED <<api, watch>>
  BY <1>1 DEF deletePod
<1>6. CASE api[n] # None /\ RemovePod(n)
  <2>1. OneName' /\ OnlyForward' /\ Told'
    BY <1>2, <1>3, <1>6, RemovePodSights
  <2>2. \A m \in Names : Kept(m)'
    BY <1>1, <1>2, <1>6, RemovePodOthers
  <2>3. QED
    BY <1>4, <2>1, <2>2, KeptAllNext DEF PodInv
<1>7. CASE /\ UNCHANGED <<api, watch>>
           /\ \/ /\ undeleted' = undeleted
                 /\ api[n] # None => api[n].phase \notin Finished
              \/ undeleted' = undeleted \cup {api[n].uid}
  <2>1. \A m \in Names : \A p \in Pod : Sight(m, p)' => Sight(m, p)
    BY <1>2, <1>3, <1>7, WorkerSights
  <2>2. OneName' /\ OnlyForward'
    BY <1>7, <2>1, FewerSights
  <2>3. Told'
    BY <1>2, <1>7 DEF PodInv, Told
  <2>4. DroppedIsDeleted(n) /\ NotAbandoned(n)
    BY KeptAll DEF PodInv, Kept
  <2>5. Kept(n)'
    <3>1. CASE undeleted' = undeleted \cup {api[n].uid}
      BY <1>7, <3>1 DEF Kept, DroppedIsDeleted, NotAbandoned
    <3>2. CASE undeleted' = undeleted /\ (api[n] # None => api[n].phase \notin Finished)
      <4>1. NotAbandoned(n)'
        BY <1>7, <3>2 DEF NotAbandoned, FinishedPod
      <4>2. api[n] # None => worker[w].pod.uid # api[n].uid
        <5>1. worker[w].pod \in Pod /\ worker[w].pod # None
              /\ worker[w].pod.phase \in Finished
          BY <1>2 DEF PodInv, HoldsPod, HoldsItsPod, Typed, TypedWorker
        <5>2. Sight(n, worker[w].pod)
          BY <1>1, <5>1 DEF Sight
        <5>3. QED
          BY <3>2, <5>1, <5>2 DEF PodInv, OnlyForward
      <4>3. DroppedIsDeleted(n)'
        BY <1>2, <1>7, <2>4, <3>2, <4>2 DEF DroppedIsDeleted, NameOf
      <4>4. QED
        BY <4>1, <4>3 DEF Kept
    <3>3. QED
      BY <1>7, <3>1, <3>2
  <2>6. ASSUME NEW m \in Names, m # n
        PROVE  Kept(m)'
    BY <1>1, <1>2, <1>7, <2>6, OtherName
  <2>7. QED
    BY <1>4, <2>2, <2>3, <2>5, <2>6, KeptAllNext DEF PodInv
<1>8. QED
  BY <1>5, <1>6, <1>7

LEMMA WorkerStepKeeps ==
    ASSUME PodInv, Typed, NEW w \in Workers, WorkerStep(w)
    PROVE  PodInv'
BY ReadCacheKeeps, DoneKeeps, DropEventKeeps, GoesOnKeeps, RememberDeletedKeeps,
   deletePodKeeps DEF WorkerStep

-----------------------------------------------------------------------------
(* The informer and the queue *)

(* The informer hears of a finished Pod last: it adds an item.              *)
LEMMA InformKeeps ==
    ASSUME PodInv, Typed, NEW n \in Names, Inform(n)
    PROVE  PodInv'
<1>1. PICK s : s = watch[n]
  OBVIOUS
<1>2. s \in Seq(Pod \cup {None}) /\ s # << >> /\ Len(s) \in Nat \ {0}
  BY <1>1 DEF Inform, Typed, TypedServer
<1>3. PICK i \in {1, Len(s)} :
         /\ cache' = [cache EXCEPT ![n] = s[i]]
         /\ watch' = [watch EXCEPT ![n] = SubSeq(s, i + 1, Len(s))]
         /\ IF cache[n] = None /\ s[i] = None THEN UNCHANGED waiting ELSE AddItem(n)
  BY <1>1 DEF Inform
<1>4. PICK t : t = SubSeq(s, i + 1, Len(s))
  OBVIOUS
<1>5. /\ cache'[n] = s[i] /\ watch'[n] = t
      /\ \A m \in Names : m # n => cache'[m] = cache[m] /\ watch'[m] = watch[m]
  BY <1>3, <1>4 DEF Typed, TypedCache, TypedServer
<1>6. i \in 1..Len(s) /\ Len(t) = Len(s) - i /\ DOMAIN t = 1..(Len(s) - i)
      /\ \A j \in 1..(Len(s) - i) : t[j] = s[j + i] /\ j + i \in 1..Len(s)
  BY <1>2, <1>4
<1>7. DOMAIN s = 1..Len(s)
  BY <1>2
<1>8. UNCHANGED <<worker, api, undeleted, deletedPods>>
  BY DEF Inform, sharedVars
<1>9. \A m \in Names : \A p \in Pod : Sight(m, p)' => Sight(m, p)
  <2>1. s[i] \in Watched(n)
    BY <1>1, <1>6, <1>7 DEF Watched
  <2>2. ASSUME NEW p, p \in Watched(n)'
        PROVE  p \in Watched(n)
    <3>1. PICK j \in 1..(Len(s) - i) : p = t[j]
      BY <1>5, <1>6, <2>2 DEF Watched
    <3>2. p = s[j + i] /\ j + i \in DOMAIN s
      BY <1>6, <1>7, <3>1
    <3>3. QED
      BY <1>1, <3>2 DEF Watched
  <2>3. \A m \in Names : m # n => Watched(m)' = Watched(m)
    BY <1>5 DEF Watched
  <2>4. QED
    BY <1>5, <1>8, <2>1, <2>2, <2>3 DEF Sight, NameOf
<1>10. OneName' /\ OnlyForward' /\ HoldsPod'
  BY <1>8, <1>9, FewerSights DEF PodInv, HoldsPod, HoldsItsPod
<1>11. api[n] = s[Len(s)]
  BY <1>1, <1>2 DEF PodInv, Told
<1>12. api[n] = IF t = << >> THEN s[i] ELSE t[Len(t)]
  <2>1. CASE i = Len(s)
    <3>1. Len(t) = 0 /\ t \in Seq(Pod \cup {None})
      BY <1>2, <1>4, <1>6, <2>1
    <3>2. t = << >>
      BY <3>1
    <3>3. QED
      BY <1>11, <2>1, <3>2
  <2>2. CASE i # Len(s)
    <3>1. Len(t) \in 1..Len(t) /\ Len(t) = Len(s) - i /\ Len(t) + i = Len(s)
      BY <1>2, <1>6, <2>2
    <3>2. t[Len(t)] = s[Len(s)]
      BY <1>6, <3>1
    <3>3. t # << >>
      <4>1. Len(t) # 0
        BY <3>1
      <4>2. QED
        BY <4>1
    <3>4. QED
      BY <1>11, <3>2, <3>3
  <2>3. QED
    BY <2>1, <2>2
<1>13. Told'
  BY <1>5, <1>8, <1>12 DEF PodInv, Told
<1>14. /\ \A m \in Names : m # n => waiting'[m] = waiting[m]
       /\ ~(cache[n] = None /\ s[i] = None) => waiting'[n] > 0
  BY <1>3 DEF AddItem, Typed, TypedQueue
<1>15. Kept(n)'
  <2>1. DroppedIsDeleted(n) /\ NotAbandoned(n)
    BY KeptAll DEF PodInv, Kept
  <2>2. DroppedIsDeleted(n)'
    BY <1>8, <2>1 DEF DroppedIsDeleted, NameOf
  <2>3. NotAbandoned(n)'
    BY <1>5, <1>8, <1>12, <1>14 DEF NotAbandoned, FinishedPod, Noticed
  <2>4. QED
    BY <2>2, <2>3 DEF Kept
<1>16. ASSUME NEW m \in Names, m # n
       PROVE  Kept(m)'
  BY <1>5, <1>8, <1>14, <1>16, OtherName
<1>17. QED
  BY <1>10, <1>13, <1>15, <1>16, KeptAllNext DEF PodInv

LEMMA GetItemKeeps ==
    ASSUME PodInv, Typed, NEW w \in Workers, NEW n \in Names, GetItem(w, n)
    PROVE  PodInv'
<1>1. /\ UNCHANGED <<cache, api, watch, undeleted, deletedPods>>
      /\ worker[w] = IdleWorker
      /\ worker'[w] = [pc |-> "read", name |-> n, pod |-> None, odp |-> None]
      /\ \A v \in Workers : v # w => worker'[v] = worker[v]
      /\ \A m \in Names : m # n => waiting'[m] = waiting[m]
  BY DEF GetItem, WorkerAt, sharedVars, serverVars, Typed, TypedWorker, TypedQueue, PodInv,
     HoldsPod, HoldsItsPod
<1>2. worker'[w].pod = None /\ worker'[w].pc = "read" /\ worker'[w].name = n
  BY <1>1
<1>3. OneName' /\ OnlyForward'
  <2>1. \A m \in Names : \A p \in Pod : Sight(m, p)' => Sight(m, p)
    BY <1>1, <1>2, WorkerSights
  <2>2. QED
    BY <1>1, <2>1, FewerSights
<1>4. Told' /\ HoldsPod'
  BY <1>1, <1>2 DEF PodInv, Told, HoldsPod, HoldsItsPod
<1>5. worker[w].name \notin Names /\ worker[w].pc = "idle"
  BY <1>1, NoneAssumption DEF IdleWorker
<1>6. Kept(n)'
  <2>1. DroppedIsDeleted(n)
    BY KeptAll DEF PodInv, Kept
  <2>2. DroppedIsDeleted(n)'
    BY <1>1, <1>5, <2>1 DEF DroppedIsDeleted, NameOf
  <2>3. NotAbandoned(n)'
    BY <1>2 DEF NotAbandoned, Noticed, NameOf, WorkerAt
  <2>4. QED
    BY <2>2, <2>3 DEF Kept
<1>7. ASSUME NEW m \in Names, m # n
      PROVE  Kept(m)'
  BY <1>1, <1>5, <1>7, OtherName DEF NameOf
<1>8. QED
  BY <1>3, <1>4, <1>6, <1>7, KeptAllNext DEF PodInv

LEMMA deletedPodsCleanerKeeps ==
    ASSUME PodInv, deletedPodsCleaner
    PROVE  PodInv'
<1>1. UNCHANGED <<worker, waiting, cache, api, watch, undeleted>> /\ deletedPods' \subseteq deletedPods
  BY DEF deletedPodsCleaner, stillVars, controlVars, serverVars
<1>2. \A m \in Names : \A p \in Pod : Sight(m, p)' => Sight(m, p)
  BY <1>1 DEF Sight, Watched, NameOf
<1>3. OneName' /\ OnlyForward' /\ Told' /\ HoldsPod'
  BY <1>1, <1>2, FewerSights DEF PodInv, Told, HoldsPod, HoldsItsPod
<1>4. \A m \in Names : Kept(m)'
  BY <1>1, OtherName
<1>5. QED
  BY <1>3, <1>4, KeptAllNext DEF PodInv

-----------------------------------------------------------------------------
(* A new process: only the namespace is left, and each Pod has an event.    *)

LEMMA RestartKeeps ==
    ASSUME PodInv, Typed, Restart
    PROVE  PodInv'
<1>1. /\ api' = api /\ cache' = api /\ deletedPods' = {}
      /\ \A w \in Workers : worker'[w] = IdleWorker
      /\ \A n \in Names : watch'[n] = << >>
      /\ \A n \in Names : api[n] # None => waiting'[n] > 0
  BY DEF Restart, CreateEvents
<1>2. \A w \in Workers : worker'[w].pod = None /\ worker'[w].pc = "idle"
  BY <1>1 DEF IdleWorker
<1>3. ASSUME NEW n \in Names, NEW p \in Pod, Sight(n, p)'
      PROVE  api[n] # None /\ p = api[n]
  <2>1. Watched(n)' = {}
    BY <1>1 DEF Watched
  <2>2. QED
    BY <1>1, <1>2, <1>3, <2>1 DEF Sight
<1>4. OneName' /\ OnlyForward'
  <2>1. \A n \in Names : \A p \in Pod : Sight(n, p)' => Sight(n, p)
    BY <1>3 DEF Sight
  <2>2. QED
    BY <1>1, <2>1, FewerSights
<1>5. Told' /\ HoldsPod'
  BY <1>1, <1>2 DEF Told, HoldsPod, HoldsItsPod
<1>6. \A n \in Names : Kept(n)'
  BY <1>1 DEF Kept, DroppedIsDeleted, NotAbandoned, FinishedPod, Noticed
<1>7. QED
  BY <1>4, <1>5, <1>6, KeptAllNext DEF PodInv

-----------------------------------------------------------------------------
(* All steps together *)

LEMMA NextPodInv == IInv /\ PodInv /\ [Next]_vars => PodInv'
<1> SUFFICES ASSUME IInv, PodInv, [Next]_vars
             PROVE  PodInv'
  OBVIOUS
<1>1. Typed
  BY DEF IInv
<1>2. ASSUME NEW r \in Requesters, NEW n \in Names, Request(r, n)
      PROVE  PodInv'
  BY <1>2, RequestQuiet
<1>3. ASSUME NEW r \in Requesters, RequesterStep(r)
      PROVE  PodInv'
  BY <1>3, RequesterQuiet
<1>4. ASSUME NEW c \in Creators, CreatorStep(c)
      PROVE  PodInv'
  BY <1>1, <1>4, CreatorKeeps
<1>5. ASSUME NEW n \in Names, Inform(n) \/ MergeItem(n)
      PROVE  PodInv'
  BY <1>1, <1>5, InformKeeps, MergeItemKeeps
<1>6. ASSUME NEW w \in Workers, NEW n \in Names, GetItem(w, n)
      PROVE  PodInv'
  BY <1>1, <1>6, GetItemKeeps
<1>7. ASSUME NEW w \in Workers, WorkerStep(w)
      PROVE  PodInv'
  BY <1>1, <1>7, WorkerStepKeeps
<1>8. CASE deletedPodsCleaner
  BY <1>8, deletedPodsCleanerKeeps
<1>9. CASE Cluster
  BY <1>1, <1>9, ErrorExpiresQuiet, PodMovesKeeps, PodVanishesKeeps DEF Cluster
<1>10. CASE Restart
  BY <1>1, <1>10, RestartKeeps
<1>11. CASE UNCHANGED vars
  BY <1>11, QuietKeeps DEF vars, sharedVars, stillVars, controlVars, serverVars
<1>12. QED
  BY <1>2, <1>3, <1>4, <1>5, <1>6, <1>7, <1>8, <1>9, <1>10, <1>11 DEF Next, Step

LEMMA InvariantPodInv == Spec => []PodInv
BY InitPodInv, InvariantIInv, NextPodInv, PTL DEF Spec

(* However late the informer is, however work items merge and however many  *)
(* workers handle one name, a finished Pod is in somebody's view until it   *)
(* is gone or its DELETE call has failed, also across a restart             *)
(* (factory_podevents.go:15-140, k8swatcher.go:53-237).                     *)
THEOREM PodsAreNotAbandoned == Spec => []NoAbandonedPod
<1>1. PodInv => NoAbandonedPod
  BY DEF PodInv
<1>2. QED
  BY <1>1, InvariantPodInv, PTL

(* A Pod whose UID is in deletedPods, so that its events are dropped, has a *)
(* worker on its way to delete it, or its DELETE call has failed            *)
(* (factory_podevents.go:40-51, 104-116).                                   *)
THEOREM DroppedPodsAreDeleted == Spec => []DroppedPodIsDeleted
<1>1. PodInv => DroppedPodIsDeleted
  BY DEF PodInv
<1>2. QED
  BY <1>1, InvariantPodInv, PTL
=============================================================================
