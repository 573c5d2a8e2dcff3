------------------------ MODULE OdpRefinementProofs ------------------------
(***************************************************************************)
(* OdpFactory implements OdpLifecycle, for every value of its constants.    *)
(***************************************************************************)
EXTENDS OdpFactoryProofs

(* The entries of two names are two objects.                                *)
Distinct == \A m, n \in Names : odps[m] = odps[n] /\ odps[m] # None => m = n

LifecycleStep == Lifecycle!Next \/ UNCHANGED <<ShownNow, EndedNow, instance>>

(* What a step may make of the answer given from one object.                *)
Legal(before, after) ==
    \/ after = before
    \/ after = "failed"
    \/ before = "asked" /\ after = "creating"
    \/ before \in {"asked", "creating"} /\ after = "ready"
    \/ before = "failed" /\ after = "expired"

-----------------------------------------------------------------------------
LEMMA EndedKept == ASSUME UNCHANGED worker PROVE EndedNow' = EndedNow
BY DEF EndedNow, ActOn, WorkerAt, NameOf

LEMMA EndedSame ==
    ASSUME TypedWorker, NEW w \in Workers, NEW g,
           worker' = [worker EXCEPT ![w] = g],
           ~ActOn(w, "Succeeded"),
           ~(g.pc = "act" /\ g.pod.phase = "Succeeded")
    PROVE  EndedNow' = EndedNow
<1>1. ~ActOn(w, "Succeeded")'
  BY DEF TypedWorker, ActOn, WorkerAt
<1>2. ASSUME NEW v \in Workers, v # w
      PROVE  /\ ActOn(v, "Succeeded")' <=> ActOn(v, "Succeeded")
             /\ NameOf(v)' = NameOf(v)
  <2>1. worker'[v] = worker[v]
    BY <1>2 DEF TypedWorker
  <2>2. QED
    BY <2>1 DEF ActOn, WorkerAt, NameOf
<1>3. QED
  BY <1>1, <1>2 DEF EndedNow

LEMMA ShownIsMap ==
    /\ ShownNow = [n \in Names |-> ShownNow[n]]
    /\ ShownNow' = [n \in Names |-> ShownNow'[n]]
BY DEF ShownNow

LEMMA MapMoves ==
    ASSUME TypedMap, NEW n \in Names, NEW o \in Odps \cup {None},
           odps' = [odps EXCEPT ![n] = o],
           \A m \in Names : m # n /\ odps[m] # None => heap'[odps[m]] = heap[odps[m]]
    PROVE  ShownNow' = [ShownNow EXCEPT ![n] =
                           IF o = None THEN "absent" ELSE Shown(heap'[o])]
<1>1. ASSUME NEW m \in Names, m # n
      PROVE  ShownNow'[m] = ShownNow[m]
  BY <1>1 DEF ShownNow, TypedMap
<1>2. ShownNow'[n] = IF o = None THEN "absent" ELSE Shown(heap'[o])
  BY DEF ShownNow, TypedMap
<1>3. QED
  BY <1>1, <1>2, ShownIsMap

LEMMA EntryMoves ==
    ASSUME TypedMap, TypedHeap, Distinct, UNCHANGED <<odps, instance>>,
           NEW o \in Odps, NEW h,
           heap' = [heap EXCEPT ![o] = h],
           EndedNow' = EndedNow,
           Legal(Shown(heap[o]), Shown(h))
    PROVE  LifecycleStep
<1>1. CASE \A n \in Names : odps[n] # o
  <2>1. ShownNow' = ShownNow
    BY <1>1 DEF ShownNow, TypedMap, TypedHeap
  <2>2. QED
    BY <2>1 DEF LifecycleStep
<1>2. CASE \E n \in Names : odps[n] = o
  <2>0. PICK n \in Names : odps[n] = o
    BY <1>2
  <2>1. ShownNow[n] = Shown(heap[o])
    BY <2>0, NoneAssumption DEF ShownNow
  <2>2. ShownNow' = [ShownNow EXCEPT ![n] = Shown(h)]
    <3>1. ASSUME NEW m \in Names, m # n
          PROVE  ShownNow'[m] = ShownNow[m]
      BY <2>0, <3>1 DEF ShownNow, Distinct, TypedMap, TypedHeap
    <3>2. ShownNow'[n] = Shown(h)
      BY <2>0, NoneAssumption DEF ShownNow, TypedHeap
    <3>3. QED
      BY <3>1, <3>2, ShownIsMap
  <2>3. Shown(heap[o]) # "absent"
    BY DEF Shown
  <2>4. CASE Shown(h) = Shown(heap[o])
    <3>1. ShownNow' = ShownNow
      BY <2>1, <2>2, <2>4, ShownIsMap
    <3>2. QED
      BY <3>1 DEF LifecycleStep
  <2>5. CASE Shown(h) # Shown(heap[o])
    <3>1. \/ Lifecycle!Fail(n) \/ Lifecycle!Post(n)
          \/ Lifecycle!Start(n) \/ Lifecycle!Expire(n)
      BY <2>1, <2>2, <2>3, <2>5 DEF Legal, Lifecycle!Fail, Lifecycle!Post,
         Lifecycle!Start, Lifecycle!Expire, Lifecycle!Becomes
    <3>2. QED
      BY <3>1 DEF LifecycleStep, Lifecycle!Next
  <2>6. QED
    BY <2>4, <2>5
<1>3. QED
  BY <1>1, <1>2

LEMMA ErrorShown ==
    ASSUME NEW h \in Odp, NEW g \in Odp, g.err = "fresh"
    PROVE  Legal(Shown(h), Shown(g))
BY DEF Shown, Legal

LEMMA NothingShown ==
    ASSUME UNCHANGED <<odps, heap, worker, instance>>
    PROVE  LifecycleStep
<1>1. ShownNow' = ShownNow
  BY DEF ShownNow
<1>2. QED
  BY <1>1, EndedKept DEF LifecycleStep

(* A worker takes up or puts down its work without touching an entry's      *)
(* answer.                                                                  *)
LEMMA WorkerMoves ==
    ASSUME TypedWorker, ShownNow' = ShownNow, UNCHANGED instance, NEW w \in Workers, NEW g,
           worker' = [worker EXCEPT ![w] = g],
           ~ActOn(w, "Succeeded"),
           g.pc = "act" => g.name \in Names
    PROVE  LifecycleStep
<1>1. CASE ~(g.pc = "act" /\ g.pod.phase = "Succeeded")
  BY <1>1, EndedSame DEF LifecycleStep
<1>2. CASE g.pc = "act" /\ g.pod.phase = "Succeeded"
  <2>1. ActOn(w, "Succeeded")' /\ NameOf(w)' = g.name
    BY <1>2 DEF TypedWorker, ActOn, WorkerAt, NameOf
  <2>2. ASSUME NEW v \in Workers, v # w
        PROVE  /\ ActOn(v, "Succeeded")' <=> ActOn(v, "Succeeded")
               /\ NameOf(v)' = NameOf(v)
    <3>1. worker'[v] = worker[v]
      BY <2>2 DEF TypedWorker
    <3>2. QED
      BY <3>1 DEF ActOn, WorkerAt, NameOf
  <2>3. EndedNow' = EndedNow \cup {g.name}
    BY <1>2, <2>1, <2>2 DEF EndedNow
  <2>4. Lifecycle!HearOfEnd(g.name)
    BY <2>3 DEF Lifecycle!HearOfEnd
  <2>5. QED
    BY <1>2, <2>4 DEF LifecycleStep, Lifecycle!Next
<1>3. QED
  BY <1>1, <1>2

LEMMA ErrorMoves ==
    ASSUME TypedMap, TypedHeap, Distinct, UNCHANGED <<odps, instance>>, NEW o \in Odps,
           setOdpError(o), EndedNow' = EndedNow
    PROVE  LifecycleStep
<1>1. heap' = [heap EXCEPT ![o] = [heap[o] EXCEPT !.code = "Failed", !.err = "fresh"]]
  BY DEF setOdpError
<1>2. heap[o] \in Odp /\ [heap[o] EXCEPT !.code = "Failed", !.err = "fresh"] \in Odp
  BY DEF TypedHeap, Odp
<1>3. [heap[o] EXCEPT !.code = "Failed", !.err = "fresh"].err = "fresh"
  BY <1>2 DEF Odp
<1>4. QED
  BY <1>1, <1>2, <1>3, ErrorShown, EntryMoves

(* The token of an entry is not part of the answer's life cycle.            *)
LEMMA TokenShown ==
    ASSUME TypedMap, TypedHeap, UNCHANGED odps, NEW o \in Odps, NEW t,
           heap' = [heap EXCEPT ![o].token = t]
    PROVE  ShownNow' = ShownNow
<1>1. ASSUME NEW p \in Odps
      PROVE  Shown(heap'[p]) = Shown(heap[p])
  BY DEF TypedHeap, Odp, Shown
<1>2. ASSUME NEW n \in Names
      PROVE  ShownNow'[n] = ShownNow[n]
  BY <1>1 DEF ShownNow, TypedMap
<1>3. QED
  BY <1>2, ShownIsMap

-----------------------------------------------------------------------------
(* The steps of a creator *)

LEMMA CreatorStepShown ==
    ASSUME Typed, Distinct, NEW c \in Creators, CreatorStep(c)
    PROVE  LifecycleStep
<1>1. TypedMap /\ TypedHeap /\ TypedCreator
  BY DEF Typed
<1>2. ASSUME UNCHANGED <<odps, heap, worker, instance>>
      PROVE  LifecycleStep
  BY <1>2, NothingShown
<1>3. creator[c].pc \notin {"idle", "find"} => creator[c].odp \in Odps
  BY <1>1 DEF TypedCreator
<1>4. ASSUME UNCHANGED <<odps, worker, instance>>, creator[c].odp \in Odps, setOdpError(creator[c].odp)
      PROVE  LifecycleStep
  BY <1>1, <1>4, ErrorMoves, EndedKept
<1>5. CASE TakeName(c) \/ FindOdp(c) \/ Admit(c)
  BY <1>2, <1>5 DEF TakeName, FindOdp, Admit, sharedVars, creatorFrame
<1>6. CASE getPodSpec(c) \/ createPod(c) \/ createPodFails(c) \/ UndoToken(c)
  BY <1>2, <1>6 DEF getPodSpec, createPod, createPodFails, UndoToken, sharedVars, creatorFrame
<1>7. CASE Refuse(c) \/ createOdpTokenFails(c) \/ getPodSpecFails(c)
  BY <1>3, <1>4, <1>7 DEF Refuse, createOdpTokenFails, getPodSpecFails, CreatorAt,
     sharedVars, creatorFrame
<1>8. CASE createOdpToken(c)
  <2>1. PICK t : heap' = [heap EXCEPT ![creator[c].odp].token = t]
    BY <1>8 DEF createOdpToken
  <2>2. UNCHANGED <<odps, worker, instance>> /\ creator[c].odp \in Odps
    BY <1>3, <1>8 DEF createOdpToken, CreatorAt, sharedVars, creatorFrame
  <2>3. QED
    BY <1>1, <2>1, <2>2, TokenShown, EndedKept DEF LifecycleStep
<1>9. CASE PodCreated(c)
  <2>1. UNCHANGED <<odps, worker, instance>> /\ creator[c].odp \in Odps
    BY <1>3, <1>9 DEF PodCreated, CreatorAt, sharedVars, creatorFrame
  <2> DEFINE o == creator[c].odp
             h == [heap[o] EXCEPT !.created = TRUE]
  <2>2. heap' = [heap EXCEPT ![o] = h]
    BY <1>9 DEF PodCreated
  <2>3. Legal(Shown(heap[o]), Shown(h))
    BY <1>1, <2>1 DEF TypedHeap, Odp, Shown, Legal
  <2>4. QED
    BY <1>1, <2>1, <2>2, <2>3, EntryMoves, EndedKept
<1>10. CASE PodNotCreated(c)
  <2>1. UNCHANGED <<odps, worker, instance>> /\ creator[c].odp \in Odps
    BY <1>3, <1>10 DEF PodNotCreated, CreatorAt, sharedVars, creatorFrame
  <2> DEFINE o == creator[c].odp
             h == [heap[o] EXCEPT !.created = TRUE, !.code = "Failed", !.err = "fresh"]
  <2>2. heap' = [heap EXCEPT ![o] = h]
    BY <1>10 DEF PodNotCreated
  <2>3. heap[o] \in Odp /\ h.err = "fresh"
    BY <1>1, <2>1 DEF TypedHeap, Odp
  <2>4. Legal(Shown(heap[o]), Shown(h))
    BY <2>3 DEF Shown, Legal
  <2>5. QED
    BY <1>1, <2>1, <2>2, <2>4, EntryMoves, EndedKept
<1>11. QED
  BY <1>5, <1>6, <1>7, <1>8, <1>9, <1>10 DEF CreatorStep

-----------------------------------------------------------------------------
(* The steps of a worker *)

LEMMA SameInstance == ASSUME NEW w, WorkerStep(w) PROVE UNCHANGED instance
BY DEF WorkerStep, ReadCache, PodDeleted, DropEvent, KnownOdp, NewEntry, reloadOdp,
   PodPending, PodRunning, PodFailed, PodSucceeded, RememberDeleted, DeleteTokenOfPod,
   ClearToken, deletePod, workerFrame

LEMMA WorkerOnly ==
    ASSUME TypedWorker, UNCHANGED <<odps, heap, instance>>, NEW w \in Workers, NEW g,
           worker' = [worker EXCEPT ![w] = g],
           ~ActOn(w, "Succeeded"),
           g.pc = "act" => g.name \in Names
    PROVE  LifecycleStep
<1>1. ShownNow' = ShownNow
  BY DEF ShownNow
<1>2. QED
  BY <1>1, WorkerMoves

LEMMA GetItemShown ==
    ASSUME Typed, NEW w \in Workers, NEW n \in Names, GetItem(w, n)
    PROVE  LifecycleStep
BY WorkerOnly DEF Typed, GetItem, WorkerAt, ActOn, sharedVars

LEMMA ReadCacheShown ==
    ASSUME Typed, NEW w \in Workers, ReadCache(w)
    PROVE  LifecycleStep
<1>1. worker' = [worker EXCEPT ![w] = [worker[w] EXCEPT !.pc = "lock", !.pod = cache[NameOf(w)]]]
  BY DEF ReadCache
<1>2. worker[w] \in WorkerState /\ ~ActOn(w, "Succeeded")
  BY DEF Typed, TypedWorker, ReadCache, ActOn, WorkerAt
<1>3. [worker[w] EXCEPT !.pc = "lock", !.pod = cache[NameOf(w)]].pc # "act"
  BY <1>2 DEF WorkerState
<1>4. UNCHANGED <<odps, heap, instance>>
  BY SameInstance DEF WorkerStep, ReadCache, sharedVars
<1>5. QED
  BY <1>1, <1>2, <1>3, <1>4, WorkerOnly DEF Typed

LEMMA KnownOdpShown ==
    ASSUME Typed, NEW w \in Workers, KnownOdp(w)
    PROVE  LifecycleStep
<1> DEFINE g == [worker[w] EXCEPT !.pc = "act", !.odp = odps[NameOf(w)]]
<1>1. worker' = [worker EXCEPT ![w] = g]
  BY DEF KnownOdp
<1>2. worker[w] \in WorkerState /\ ~ActOn(w, "Succeeded") /\ worker[w].name \in Names
  BY DEF Typed, TypedWorker, KnownOdp, Locked, ActOn, WorkerAt
<1>3. g.name \in Names
  BY <1>2 DEF WorkerState
<1>4. UNCHANGED <<odps, heap, instance>>
  BY SameInstance DEF WorkerStep, KnownOdp, sharedVars
<1>5. QED
  BY <1>1, <1>2, <1>3, <1>4, WorkerOnly DEF Typed

LEMMA RestShown ==
    ASSUME Typed, UNCHANGED <<odps, heap, instance>>, NEW w \in Workers, WorkerRests(w),
           ~ActOn(w, "Succeeded")
    PROVE  LifecycleStep
BY WorkerOnly DEF Typed, WorkerRests, IdleWorker

LEMMA GoesShown ==
    ASSUME Typed, ShownNow' = ShownNow, UNCHANGED instance,
           NEW w \in Workers, NEW pc, WorkerGoes(w, pc),
           worker[w].name \in Names, ~ActOn(w, "Succeeded")
    PROVE  LifecycleStep
<1>1. worker' = [worker EXCEPT ![w] = [worker[w] EXCEPT !.pc = pc]]
  BY DEF WorkerGoes
<1>2. [worker[w] EXCEPT !.pc = pc].name \in Names
  BY DEF Typed, TypedWorker, WorkerState
<1>3. QED
  BY <1>1, <1>2, WorkerMoves DEF Typed

LEMMA DeletesShown ==
    ASSUME Typed, ShownNow' = ShownNow, UNCHANGED instance,
           NEW w \in Workers, WorkerDeletes(w),
           ~ActOn(w, "Succeeded")
    PROVE  LifecycleStep
<1> DEFINE g == [worker[w] EXCEPT !.pc = "delete", !.odp = None]
<1>1. worker' = [worker EXCEPT ![w] = g]
  BY DEF WorkerDeletes
<1>2. g.pc # "act"
  BY DEF Typed, TypedWorker, WorkerState
<1>3. QED
  BY <1>1, <1>2, WorkerMoves DEF Typed

LEMMA DeleteTokenOfPodShown ==
    ASSUME Typed, NEW w \in Workers, DeleteTokenOfPod(w)
    PROVE  LifecycleStep
<1>1. ShownNow' = ShownNow
  BY DEF DeleteTokenOfPod, sharedVars, ShownNow
<1>2. ~ActOn(w, "Succeeded") /\ worker[w].name \in Names
  BY DEF DeleteTokenOfPod, ActOn, WorkerAt, Typed, TypedWorker
<1>3. WorkerDeletes(w) \/ WorkerGoes(w, "clear")
  BY DEF DeleteTokenOfPod
<1>4. QED
  BY <1>1, <1>2, <1>3, SameInstance, GoesShown, DeletesShown DEF WorkerStep

LEMMA ClearTokenShown ==
    ASSUME Typed, NEW w \in Workers, ClearToken(w)
    PROVE  LifecycleStep
<1>1. UNCHANGED odps /\ worker[w].odp \in Odps /\ WorkerDeletes(w)
  BY DEF ClearToken, sharedVars, Typed, TypedWorker, WorkerAt
<1>2. ShownNow' = ShownNow
  BY <1>1, TokenShown DEF ClearToken, Typed
<1>3. ~ActOn(w, "Succeeded")
  BY DEF ClearToken, ActOn, WorkerAt
<1>4. QED
  BY <1>1, <1>2, <1>3, SameInstance, DeletesShown DEF WorkerStep

LEMMA reloadOdpShown ==
    ASSUME Typed, NEW w \in Workers, reloadOdp(w)
    PROVE  LifecycleStep
<1>1. UNCHANGED odps /\ worker[w].odp \in Odps /\ WorkerGoes(w, "act")
  BY DEF reloadOdp, sharedVars, Typed, TypedWorker, WorkerAt
<1>2. ShownNow' = ShownNow
  <2>1. CASE heap' = heap
    BY <1>1, <2>1 DEF ShownNow
  <2>2. CASE heap' = [heap EXCEPT ![worker[w].odp].token = worker[w].pod.token]
    BY <1>1, <2>2, TokenShown DEF Typed
  <2>3. QED
    BY <2>1, <2>2 DEF reloadOdp
<1>3. ~ActOn(w, "Succeeded") /\ worker[w].name \in Names
  BY DEF reloadOdp, ActOn, WorkerAt, Typed, TypedWorker
<1>4. QED
  BY <1>1, <1>2, <1>3, SameInstance, GoesShown DEF WorkerStep

LEMMA RememberShown ==
    ASSUME Typed, NEW w \in Workers, RememberDeleted(w)
    PROVE  LifecycleStep
<1>1. ShownNow' = ShownNow /\ WorkerGoes(w, "token")
  BY DEF RememberDeleted, ShownNow
<1>2. ~ActOn(w, "Succeeded") /\ worker[w].name \in Names
  BY DEF RememberDeleted, ActOn, WorkerAt, Typed, TypedWorker
<1>3. QED
  BY <1>1, <1>2, SameInstance, GoesShown DEF WorkerStep

LEMMA PodRunningShown ==
    ASSUME Typed, Distinct, NEW w \in Workers, PodRunning(w)
    PROVE  LifecycleStep
<1> DEFINE o == worker[w].odp
           h == [heap[o] EXCEPT !.code = "Ready"]
<1>1. UNCHANGED <<odps, instance>> /\ o \in Odps /\ ~ActOn(w, "Succeeded")
  BY SameInstance DEF WorkerStep, PodRunning, sharedVars, Typed, TypedWorker, WorkerAt, ActOn
<1>2. heap' = [heap EXCEPT ![o] = h]
  BY DEF PodRunning
<1>3. Legal(Shown(heap[o]), Shown(h))
  BY <1>1 DEF Typed, TypedHeap, Odp, Shown, Legal
<1>4. EndedNow' = EndedNow
  BY <1>1, EndedSame DEF PodRunning, WorkerRests, IdleWorker, Typed
<1>5. QED
  BY <1>1, <1>2, <1>3, <1>4, EntryMoves DEF Typed

LEMMA PodFailedShown ==
    ASSUME Typed, Distinct, NEW w \in Workers, PodFailed(w)
    PROVE  LifecycleStep
<1> DEFINE g == [worker[w] EXCEPT !.pc = "token"]
<1>1. UNCHANGED <<odps, instance>> /\ worker[w].odp \in Odps /\ ~ActOn(w, "Succeeded")
  BY SameInstance DEF WorkerStep, PodFailed, sharedVars, Typed, TypedWorker, WorkerAt, ActOn
<1>2. worker' = [worker EXCEPT ![w] = g] /\ g.pc # "act"
  BY DEF PodFailed, WorkerGoes, Typed, TypedWorker, WorkerState
<1>3. EndedNow' = EndedNow
  BY <1>1, <1>2, EndedSame DEF Typed
<1>4. QED
  BY <1>1, <1>3, ErrorMoves DEF PodFailed, Typed

LEMMA PodDeletedShown ==
    ASSUME Typed, NEW w \in Workers, PodDeleted(w)
    PROVE  LifecycleStep
<1> DEFINE n == NameOf(w)
<1>0. UNCHANGED instance
  BY SameInstance DEF WorkerStep
<1>1. n \in Names /\ ~ActOn(w, "Succeeded") /\ heap' = heap /\ WorkerRests(w)
  BY DEF PodDeleted, Locked, WorkerAt, ActOn, NameOf, Typed, TypedWorker
<1>2. CASE odps' = odps
  BY <1>0, <1>1, <1>2, RestShown
<1>3. CASE odps[n] # None /\ isOdpErrorExpired(odps[n]) /\ odps' = [odps EXCEPT ![n] = None]
  <2>1. ShownNow' = [ShownNow EXCEPT ![n] = "absent"]
    BY <1>1, <1>3, MapMoves DEF Typed
  <2>2. ShownNow[n] = "expired"
    BY <1>1, <1>3 DEF ShownNow, Shown, isOdpErrorExpired
  <2>3. EndedNow' = EndedNow
    BY <1>1, EndedSame DEF Typed, WorkerRests, IdleWorker
  <2>4. Lifecycle!Forget(n)
    BY <1>0, <2>1, <2>2, <2>3 DEF Lifecycle!Forget, Lifecycle!Becomes
  <2>5. QED
    BY <1>1, <2>4 DEF LifecycleStep, Lifecycle!Next
<1>4. QED
  BY <1>2, <1>3 DEF PodDeleted

LEMMA PodSucceededShown ==
    ASSUME Typed, NEW w \in Workers, PodSucceeded(w)
    PROVE  LifecycleStep
<1> DEFINE n == NameOf(w)
           g == [worker[w] EXCEPT !.pc = "remember"]
<1>1. n \in Names /\ n \in EndedNow
  BY DEF PodSucceeded, ActOn, WorkerAt, NameOf, EndedNow, Typed, TypedWorker
<1>2. ShownNow' = [ShownNow EXCEPT ![n] = "absent"]
  BY <1>1, MapMoves DEF PodSucceeded, Typed
<1>3. worker' = [worker EXCEPT ![w] = g] /\ g.pc # "act"
  BY DEF PodSucceeded, WorkerGoes, Typed, TypedWorker, WorkerState
<1>4. ~ActOn(w, "Succeeded")'
  BY <1>3 DEF Typed, TypedWorker, ActOn, WorkerAt
<1>5. ASSUME NEW v \in Workers, v # w
      PROVE  /\ ActOn(v, "Succeeded")' <=> ActOn(v, "Succeeded")
             /\ NameOf(v)' = NameOf(v)
  <2>1. worker'[v] = worker[v]
    BY <1>3, <1>5 DEF Typed, TypedWorker
  <2>2. QED
    BY <2>1 DEF ActOn, WorkerAt, NameOf
<1>6. EndedNow' \in {EndedNow, EndedNow \ {n}}
  BY <1>1, <1>4, <1>5 DEF EndedNow
<1>7. Lifecycle!Finish(n)
  BY <1>1, <1>2, <1>6, SameInstance DEF WorkerStep, Lifecycle!Finish, Lifecycle!Becomes
<1>8. QED
  BY <1>1, <1>7 DEF LifecycleStep, Lifecycle!Next

(* An object nobody holds replaces the entry of n.                          *)
LEMMA FreshEntry ==
    ASSUME Typed, NEW n \in Names, NEW o \in FreshOdps, NEW h,
           odps' = [odps EXCEPT ![n] = o], heap' = [heap EXCEPT ![o] = h]
    PROVE  ShownNow' = [ShownNow EXCEPT ![n] = Shown(h)]
<1>1. o \in Odps /\ o # None /\ heap'[o] = h
  BY NoneAssumption DEF Typed, TypedHeap, FreshOdps
<1>2. ASSUME NEW m \in Names, odps[m] # None
      PROVE  heap'[odps[m]] = heap[odps[m]]
  <2>1. odps[m] # o
    BY DEF FreshOdps, HeldOdps
  <2>2. QED
    BY <1>2, <2>1 DEF Typed, TypedMap, TypedHeap
<1>3. ShownNow' = [ShownNow EXCEPT ![n] =
                       IF o = None THEN "absent" ELSE Shown(heap'[o])]
  <2>1. TypedMap /\ o \in Odps \cup {None}
    BY <1>1 DEF Typed
  <2>2. QED
    BY <1>2, <2>1, MapMoves
<1>4. Shown(heap'[o]) = Shown(h)
  BY <1>1
<1>5. QED
  BY <1>1, <1>3, <1>4

LEMMA NewEntryShown ==
    ASSUME Typed, NEW w \in Workers, NewEntry(w)
    PROVE  LifecycleStep
<1> DEFINE n == NameOf(w)
<1>1. n \in Names /\ ~ActOn(w, "Succeeded") /\ odps[n] = None
  BY DEF NewEntry, Locked, WorkerAt, ActOn, NameOf, Typed, TypedWorker
<1>2. PICK o \in FreshOdps :
          /\ heap' = [heap EXCEPT ![o] = NewOdp(FALSE, FALSE)]
          /\ odps' = [odps EXCEPT ![n] = o]
          /\ worker' = [worker EXCEPT ![w].pc = "reload", ![w].odp = o]
  BY DEF NewEntry
<1> DEFINE g == [worker[w] EXCEPT !.pc = "reload", !.odp = o]
<1>3. ShownNow' = [ShownNow EXCEPT ![n] = "creating"]
  <2>1. Shown(NewOdp(FALSE, FALSE)) = "creating"
    BY DEF Shown, NewOdp
  <2>2. QED
    BY <1>1, <1>2, <2>1, FreshEntry
<1>4. EndedNow' = EndedNow
  <2>1. worker' = [worker EXCEPT ![w] = g] /\ g.pc # "act"
    BY <1>2 DEF Typed, TypedWorker, WorkerState
  <2>2. QED
    BY <1>1, <2>1, EndedSame DEF Typed
<1>5. Lifecycle!Find(n)
  BY <1>1, <1>3, <1>4, SameInstance DEF WorkerStep, Lifecycle!Find, Lifecycle!Becomes,
     ShownNow
<1>6. QED
  BY <1>1, <1>5 DEF LifecycleStep, Lifecycle!Next

LEMMA WorkerStepShown ==
    ASSUME Typed, Distinct, NEW w \in Workers, WorkerStep(w)
    PROVE  LifecycleStep
<1>1. CASE DropEvent(w) \/ PodPending(w) \/ deletePod(w)
  <2>1. UNCHANGED <<odps, heap, instance>> /\ WorkerRests(w)
    BY <1>1, SameInstance DEF DropEvent, PodPending, deletePod, sharedVars
  <2>2. ~ActOn(w, "Succeeded")
    BY <1>1 DEF DropEvent, PodPending, deletePod, Locked, WorkerAt, ActOn
  <2>3. QED
    BY <2>1, <2>2, RestShown
<1>2. QED
  BY <1>1, ReadCacheShown, PodDeletedShown, KnownOdpShown, NewEntryShown, reloadOdpShown,
     PodRunningShown, PodFailedShown, PodSucceededShown, RememberShown,
     DeleteTokenOfPodShown, ClearTokenShown DEF WorkerStep

-----------------------------------------------------------------------------
(* Requests, time and the cluster *)

LEMMA RequestShown ==
    ASSUME Typed, NEW r \in Requesters, NEW n \in Names, Request(r, n)
    PROVE  LifecycleStep
<1>1. ShownNow[n] \in {"absent", "expired"}
  BY DEF Request, ShownNow, Shown, isOdpErrorExpired
<1>2. PICK o \in FreshOdps, wants \in TokenWanted :
          /\ heap' = [heap EXCEPT ![o] = NewOdp(TRUE, wants)]
          /\ odps' = [odps EXCEPT ![n] = o]
  BY DEF Request
<1>3. Shown(NewOdp(TRUE, wants)) = "asked"
  BY DEF Shown, NewOdp
<1>4. ShownNow' = [ShownNow EXCEPT ![n] = "asked"]
  BY <1>2, <1>3, FreshEntry
<1>5. UNCHANGED <<EndedNow, instance>>
  BY EndedKept DEF Request, requesterFrame
<1>6. Lifecycle!Accept(n)
  BY <1>1, <1>4, <1>5 DEF Lifecycle!Accept, Lifecycle!Becomes
<1>7. QED
  BY <1>6 DEF LifecycleStep, Lifecycle!Next

LEMMA ErrorExpiresShown ==
    ASSUME Typed, Distinct, NEW n \in Names, ErrorExpires(n)
    PROVE  LifecycleStep
<1> DEFINE o == odps[n]
           h == [heap[o] EXCEPT !.err = "expired"]
<1>1. o \in Odps /\ UNCHANGED <<odps, worker, instance>> /\ heap' = [heap EXCEPT ![o] = h]
  BY DEF ErrorExpires, Typed, TypedMap, sharedVars, stillVars
<1>2. Legal(Shown(heap[o]), Shown(h))
  BY <1>1 DEF ErrorExpires, Typed, TypedHeap, Odp, Shown, Legal
<1>3. QED
  BY <1>1, <1>2, EntryMoves, EndedKept DEF Typed

LEMMA RestartShown == Restart => LifecycleStep
<1> SUFFICES ASSUME Restart PROVE LifecycleStep
  OBVIOUS
<1>1. ShownNow' = [n \in Names |-> "absent"]
  BY DEF Restart, ShownNow
<1>2. EndedNow' = {}
  BY DEF Restart, EndedNow, ActOn, WorkerAt, IdleWorker
<1>3. QED
  BY <1>1, <1>2 DEF Restart, LifecycleStep, Lifecycle!Next, Lifecycle!Crash

LEMMA StepShown == IInv /\ Distinct /\ [Next]_vars => LifecycleStep
<1> SUFFICES ASSUME IInv, Distinct, [Next]_vars
             PROVE  LifecycleStep
  OBVIOUS
<1>1. Typed
  BY DEF IInv
<1>2. CASE \E r \in Requesters, n \in Names : Request(r, n)
  BY <1>1, <1>2, RequestShown
<1>3. CASE \E r \in Requesters : RequesterStep(r)
  BY <1>3, NothingShown DEF RequesterStep, CheckError, SendCreate, sharedVars, requesterFrame
<1>4. CASE \E c \in Creators : CreatorStep(c)
  BY <1>1, <1>4, CreatorStepShown
<1>5. CASE \E n \in Names : Inform(n) \/ MergeItem(n)
  BY <1>5, NothingShown DEF Inform, MergeItem, sharedVars
<1>6. CASE \E w \in Workers, n \in Names : GetItem(w, n)
  BY <1>1, <1>6, GetItemShown
<1>7. CASE \E w \in Workers : WorkerStep(w)
  BY <1>1, <1>7, WorkerStepShown
<1>8. CASE deletedPodsCleaner
  BY <1>8, NothingShown DEF deletedPodsCleaner, stillVars
<1>9. CASE Cluster
  <2>1. PICK n \in Names : ErrorExpires(n) \/ PodMoves(n) \/ PodVanishes(n)
    BY <1>9 DEF Cluster
  <2>2. CASE ErrorExpires(n)
    BY <1>1, <2>2, ErrorExpiresShown
  <2>3. CASE PodMoves(n) \/ PodVanishes(n)
    BY <2>3, NothingShown DEF PodMoves, PodVanishes, sharedVars, stillVars
  <2>4. QED
    BY <2>1, <2>2, <2>3
<1>10. CASE Restart
  BY <1>10, RestartShown
<1>11. CASE UNCHANGED vars
  BY <1>11, NothingShown DEF vars, sharedVars, stillVars
<1>12. QED
  BY <1>2, <1>3, <1>4, <1>5, <1>6, <1>7, <1>8, <1>9, <1>10, <1>11 DEF Next, Step

-----------------------------------------------------------------------------
LEMMA FreshDistinct ==
    ASSUME Typed, Distinct, NEW n \in Names, NEW o \in FreshOdps,
           odps' = [odps EXCEPT ![n] = o]
    PROVE  Distinct'
BY DEF Typed, TypedMap, Distinct, FreshOdps, HeldOdps

LEMMA GoneDistinct ==
    ASSUME Typed, Distinct, NEW n, odps' = [odps EXCEPT ![n] = None]
    PROVE  Distinct'
BY DEF Typed, TypedMap, Distinct

LEMMA NextDistinct == IInv /\ Distinct /\ [Next]_vars => Distinct'
<1> SUFFICES ASSUME IInv, Distinct, [Next]_vars
             PROVE  Distinct'
  OBVIOUS
<1>1. Typed
  BY DEF IInv
<1>2. ASSUME UNCHANGED odps
      PROVE  Distinct'
  BY <1>2 DEF Distinct
<1>3. CASE \E r \in Requesters, n \in Names : Request(r, n)
  BY <1>1, <1>3, FreshDistinct DEF Request
<1>4. CASE \E r \in Requesters : RequesterStep(r)
  BY <1>2, <1>4 DEF RequesterStep, CheckError, SendCreate, sharedVars
<1>5. CASE \E c \in Creators : CreatorStep(c)
  BY <1>2, <1>5 DEF CreatorStep, TakeName, FindOdp, Refuse, Admit, createOdpToken,
     createOdpTokenFails, getPodSpec, getPodSpecFails, createPod, createPodFails,
     PodCreated, PodNotCreated, UndoToken, sharedVars
<1>6. CASE \E n \in Names : Inform(n) \/ MergeItem(n)
  BY <1>2, <1>6 DEF Inform, MergeItem, sharedVars
<1>7. CASE \E w \in Workers, n \in Names : GetItem(w, n)
  BY <1>2, <1>7 DEF GetItem, sharedVars
<1>8. ASSUME NEW w \in Workers, WorkerStep(w)
      PROVE  Distinct'
  <2>1. CASE NewEntry(w)
    <3>1. NameOf(w) \in Names
      BY <1>1, <2>1 DEF NewEntry, Locked, WorkerAt, NameOf, Typed, TypedWorker
    <3>2. QED
      BY <1>1, <2>1, <3>1, FreshDistinct DEF NewEntry
  <2>2. CASE PodDeleted(w) \/ PodSucceeded(w)
    BY <1>1, <1>2, <2>2, GoneDistinct DEF PodDeleted, PodSucceeded
  <2>3. CASE ~(NewEntry(w) \/ PodDeleted(w) \/ PodSucceeded(w))
    BY <1>2, <1>8, <2>3 DEF WorkerStep, ReadCache, DropEvent, KnownOdp, reloadOdp,
       PodPending, PodRunning, PodFailed, RememberDeleted, DeleteTokenOfPod,
       ClearToken, deletePod, sharedVars
  <2>4. QED
    BY <2>1, <2>2, <2>3
<1>9. CASE deletedPodsCleaner
  BY <1>2, <1>9 DEF deletedPodsCleaner
<1>10. CASE Cluster
  BY <1>2, <1>10 DEF Cluster, ErrorExpires, PodMoves, PodVanishes, sharedVars
<1>11. CASE Restart
  BY <1>11 DEF Restart, Distinct
<1>12. CASE UNCHANGED vars
  BY <1>2, <1>12 DEF vars, sharedVars
<1>13. QED
  BY <1>3, <1>4, <1>5, <1>6, <1>7, <1>8, <1>9, <1>10, <1>11, <1>12 DEF Next, Step

LEMMA InitDistinct == Init => Distinct
BY DEF Init, Distinct

LEMMA InitShown == Init => Lifecycle!Init
<1> SUFFICES ASSUME Init PROVE Lifecycle!Init
  OBVIOUS
<1>1. ShownNow = [n \in Names |-> "absent"]
  BY DEF Init, ShownNow
<1>2. EndedNow = {}
  BY DEF Init, EndedNow, ActOn, WorkerAt, IdleWorker
<1>3. QED
  BY <1>1, <1>2 DEF Init, Lifecycle!Init

(* The detailed specification implements the abstract one: what a client is *)
(* told about a name follows the life cycle, for any number of names,       *)
(* requests, creators and workers, with every call allowed to fail and the  *)
(* process to restart (factory.go:245-290, factory_podevents.go:15-140).    *)
THEOREM FactoryImplementsLifecycle == Spec => ImplementsLifecycle
<1>1. Init => Distinct /\ Lifecycle!Init
  BY InitDistinct, InitShown
<1>2. IInv /\ Distinct /\ [Next]_vars => Distinct'
  BY NextDistinct
<1>3. IInv /\ Distinct /\ [Next]_vars => [Lifecycle!Next]_(Lifecycle!vars)
  BY StepShown DEF LifecycleStep, Lifecycle!vars
<1>4. QED
  BY <1>1, <1>2, <1>3, InvariantIInv, PTL DEF Spec, ImplementsLifecycle, Lifecycle!Spec
=============================================================================
