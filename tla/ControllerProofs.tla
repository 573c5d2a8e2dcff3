-------------------------- MODULE ControllerProofs --------------------------
(***************************************************************************)
(* Proofs about Controller, for any number of objects and workers.          *)
(***************************************************************************)
EXTENDS Controller, FiniteSets, FiniteSetTheorems, FunctionTheorems, TLAPS

(* Lemmas about the queue: a sequence without duplicates.                   *)

LEMMA AppendNew ==
    ASSUME NEW S, NEW s \in Seq(S), NEW e \in S, Distinct(s),
           \A i \in DOMAIN s : s[i] # e
    PROVE  /\ Append(s, e) \in Seq(S) /\ Distinct(Append(s, e))
           /\ \A x : (\E i \in DOMAIN Append(s, e) : Append(s, e)[i] = x)
                        <=> (\E i \in DOMAIN s : s[i] = x) \/ x = e
<1>1. /\ Append(s, e) \in Seq(S)
      /\ DOMAIN Append(s, e) = 1..(Len(s) + 1) /\ DOMAIN s = 1..Len(s) /\ Len(s) \in Nat
      /\ \A i \in 1..Len(s) : Append(s, e)[i] = s[i]
      /\ Append(s, e)[Len(s) + 1] = e
  OBVIOUS
<1>2. Distinct(Append(s, e)) BY <1>1 DEF Distinct
<1>3. ASSUME NEW x PROVE (\E i \in DOMAIN Append(s, e) : Append(s, e)[i] = x)
                            <=> (\E i \in DOMAIN s : s[i] = x) \/ x = e
  BY <1>1
<1> QED BY <1>1, <1>2, <1>3

LEMMA TailOfDistinct ==
    ASSUME NEW S, NEW s \in Seq(S), s # << >>, Distinct(s)
    PROVE  /\ Head(s) \in S /\ Tail(s) \in Seq(S) /\ Distinct(Tail(s))
           /\ \E i \in DOMAIN s : s[i] = Head(s)
           /\ \A x : (\E i \in DOMAIN Tail(s) : Tail(s)[i] = x)
                        <=> (\E i \in DOMAIN s : s[i] = x) /\ x # Head(s)
<1>1. /\ Head(s) \in S /\ Tail(s) \in Seq(S) /\ Head(s) = s[1] /\ Len(s) \in Nat \ {0}
      /\ DOMAIN Tail(s) = 1..(Len(s) - 1) /\ DOMAIN s = 1..Len(s)
      /\ \A i \in 1..(Len(s) - 1) : Tail(s)[i] = s[i + 1]
  OBVIOUS
<1>2. Distinct(Tail(s)) BY <1>1 DEF Distinct
<1>3. ASSUME NEW x PROVE (\E i \in DOMAIN Tail(s) : Tail(s)[i] = x)
                            <=> (\E i \in DOMAIN s : s[i] = x) /\ x # Head(s)
  <2>1. ASSUME NEW i \in DOMAIN Tail(s), Tail(s)[i] = x
        PROVE  (\E j \in DOMAIN s : s[j] = x) /\ x # Head(s)
    <3>1. i + 1 \in DOMAIN s /\ s[i + 1] = x /\ 1 \in DOMAIN s /\ i + 1 # 1 BY <1>1, <2>1
    <3> QED BY <1>1, <3>1 DEF Distinct
  <2>2. ASSUME NEW i \in DOMAIN s, s[i] = x, x # Head(s)
        PROVE  \E j \in DOMAIN Tail(s) : Tail(s)[j] = x
    <3>1. i - 1 \in DOMAIN Tail(s) /\ Tail(s)[i - 1] = x BY <1>1, <2>2
    <3> QED BY <3>1
  <2> QED BY <2>1, <2>2
<1> QED BY <1>1, <1>2, <1>3

-----------------------------------------------------------------------------
(* A worker that is not idle has an item of its own, which is in processing.*)
HandsMatch ==
    \A w \in Workers : IF WorkerAt(w, "idle") THEN worker[w].item = None
                       ELSE worker[w].item \in processing

IInv == TypeOK /\ HandsMatch /\ OneAtATime

LEMMA InitInv == Init => IInv
  BY DEF Init, IInv, TypeOK, HandsMatch, OneAtATime, WorkerIdle, Distinct, Waits, WorkerAt

LEMMA InformStep ==
    ASSUME IInv, NEW k \in Keys, Inform(k)
    PROVE  IInv'
<1>1. adding' \in eventKeyType \cup {None} BY DEF Inform, eventKeyType, EventTypes, EventType
<1>2. indexer' \subseteq Keys /\ unread' \subseteq Keys BY DEF Inform, IInv, TypeOK
<1> QED BY <1>1, <1>2 DEF Inform, IInv, TypeOK, HandsMatch, OneAtATime, WorkerAt, Waits, queueVars

LEMMA AddStep ==
    ASSUME IInv, AddItem
    PROVE  IInv'
<1>1. adding \in eventKeyType BY DEF IInv, TypeOK, AddItem
<1>2. CASE adding \in dirty \cup processing
  BY <1>1, <1>2 DEF AddItem, IInv, TypeOK, HandsMatch, OneAtATime, WorkerAt, Waits
<1>3. CASE adding \notin dirty \cup processing
  <2>1. \A i \in DOMAIN queue : queue[i] # adding BY <1>1, <1>3 DEF IInv, TypeOK, Waits
  <2>2. queue' = Append(queue, adding) BY <1>3 DEF AddItem
  <2>3. /\ queue' \in Seq(eventKeyType) /\ Distinct(queue')
        /\ \A x : Waits(x)' <=> Waits(x) \/ x = adding
    BY <1>1, <2>1, <2>2, AppendNew DEF IInv, TypeOK, Waits
  <2> QED BY <1>1, <1>3, <2>3 DEF AddItem, IInv, TypeOK, HandsMatch, OneAtATime, WorkerAt
<1> QED BY <1>2, <1>3

LEMMA GetStep ==
    ASSUME IInv, NEW w \in Workers, GetItem(w)
    PROVE  IInv'
<1> DEFINE item == Head(queue)
<1>1. /\ item \in eventKeyType /\ queue' \in Seq(eventKeyType) /\ Distinct(queue')
      /\ Waits(item)
      /\ \A x : Waits(x)' <=> Waits(x) /\ x # item
  BY TailOfDistinct DEF GetItem, IInv, TypeOK, Waits
<1>2. item \in dirty /\ item \notin processing BY <1>1 DEF IInv, TypeOK
<1>3. /\ worker' = [worker EXCEPT ![w] = [pc |-> "fetch", item |-> item]]
      /\ dirty' = dirty \ {item} /\ processing' = processing \cup {item}
      /\ WorkerAt(w, "idle")
      /\ UNCHANGED <<indexer, unread, adding>>
  BY DEF GetItem
<1> HIDE DEF item
<1>4. TypeOK' BY <1>1, <1>2, <1>3 DEF IInv, TypeOK
<1>5. HandsMatch' BY <1>3 DEF IInv, TypeOK, HandsMatch, WorkerAt
<1>6. \A v \in Workers : v # w => worker[v].item # item
  BY <1>1, <1>2, NoneAssumption DEF IInv, HandsMatch
<1>7. OneAtATime' BY <1>3, <1>6 DEF IInv, TypeOK, OneAtATime
<1> QED BY <1>4, <1>5, <1>7 DEF IInv

LEMMA HandleStep ==
    ASSUME IInv, NEW w \in Workers, handleItem(w)
    PROVE  IInv'
  BY DEF handleItem, IInv, TypeOK, HandsMatch, OneAtATime, WorkerAt, Waits, queueVars

LEMMA DoneStep ==
    ASSUME IInv, NEW w \in Workers, Done(w)
    PROVE  IInv'
<1> DEFINE item == worker[w].item
<1>1. item \in eventKeyType /\ item \in processing
  BY DEF Done, IInv, TypeOK, HandsMatch, WorkerAt
<1>2. /\ worker' = [worker EXCEPT ![w] = WorkerIdle]
      /\ processing' = processing \ {item}
      /\ queue' = IF item \in dirty THEN Append(queue, item) ELSE queue
      /\ UNCHANGED <<indexer, unread, adding, dirty>>
  BY DEF Done
<1>3. \A v \in Workers : v # w => worker[v].item # item
  BY <1>1, NoneAssumption DEF IInv, OneAtATime
<1> HIDE DEF item
<1>4. HandsMatch' BY <1>2, <1>3 DEF IInv, TypeOK, HandsMatch, WorkerAt, WorkerIdle
<1>5. OneAtATime' BY <1>2 DEF IInv, TypeOK, OneAtATime, WorkerIdle
<1>6. /\ queue' \in Seq(eventKeyType) /\ Distinct(queue')
      /\ \A x : Waits(x)' <=> Waits(x) \/ (x = item /\ item \in dirty)
  <2>1. \A i \in DOMAIN queue : queue[i] # item BY <1>1 DEF IInv, TypeOK, Waits
  <2>2. CASE item \in dirty
    BY <1>1, <1>2, <2>1, <2>2, AppendNew DEF IInv, TypeOK, Waits
  <2>3. CASE item \notin dirty BY <1>2, <2>3 DEF IInv, TypeOK, Waits
  <2> QED BY <2>2, <2>3
<1>7. TypeOK' BY <1>1, <1>2, <1>6 DEF IInv, TypeOK, WorkerIdle
<1> QED BY <1>4, <1>5, <1>7 DEF IInv

LEMMA InvHolds == Spec => []IInv
<1>1. IInv /\ [Next]_vars => IInv'
  <2> SUFFICES ASSUME IInv, [Next]_vars PROVE IInv'
    OBVIOUS
  <2>1. CASE UNCHANGED vars
    BY <2>1 DEF vars, queueVars, IInv, TypeOK, HandsMatch, OneAtATime, WorkerAt, Waits
  <2> QED BY <2>1, InformStep, AddStep, GetStep, HandleStep, DoneStep DEF Next, processNextItem
<1> QED BY <1>1, InitInv, PTL DEF Spec

(* Among the types: the queue never holds an item twice, and holds just the *)
(* dirty items that no worker has in hand (k8swatcher.go:219-233).          *)
THEOREM QueueTypeCorrect == Spec => []TypeOK
<1>1. IInv => TypeOK BY DEF IInv
<1> QED BY <1>1, InvHolds, PTL

(* An item is in the hands of one worker at a time, for any number of       *)
(* workers: this bounds how many handle one Pod (k8swatcher.go:26, 42-45).  *)
THEOREM ItemsAreHandedOutOnce == Spec => []OneAtATime
<1>1. IInv => OneAtATime BY DEF IInv
<1> QED BY <1>1, InvHolds, PTL

-----------------------------------------------------------------------------
LEMMA KeyAlwaysFound == \A delta : HasKey(KeyFunc(delta), delta)
  BY DEF HasKey, KeyFunc

LEMMA NoMissStep == IInv /\ NoMissedChange /\ [Next]_vars => NoMissedChange'
<1> SUFFICES ASSUME IInv, NoMissedChange, [Next]_vars PROVE NoMissedChange'
  OBVIOUS
<1> USE DEF NoMissedChange, WorkerAt, Key
<1>1. ASSUME NEW k \in Keys, Inform(k) PROVE NoMissedChange'
  <2>1. adding = None /\ unread' = unread \cup {k} /\ UNCHANGED <<queueVars, worker>>
    BY <1>1 DEF Inform
  <2>2. adding' # None /\ adding'[1] = k
    <3>1. PICK delta \in Deltas(k) : adding' = <<k, EventType(k, delta)>>
      BY <1>1, KeyAlwaysFound DEF Inform
    <3>2. EventType(k, delta) \in EventTypes BY DEF EventType, EventTypes
    <3> QED BY <3>1, <3>2, NoneAssumption DEF eventKeyType
  <2> QED BY <2>1, <2>2 DEF queueVars
<1>2. CASE AddItem BY <1>2 DEF AddItem
<1>3. ASSUME NEW w \in Workers, GetItem(w) PROVE NoMissedChange'
  <2>1. worker[w].pc = "idle" /\ UNCHANGED <<unread, adding>> BY <1>3 DEF GetItem
  <2>2. ASSUME NEW item \in dirty PROVE item \in dirty' \/ (worker'[w].pc = "fetch" /\ worker'[w].item = item)
    BY <1>3 DEF GetItem, IInv, TypeOK
  <2>3. \A v \in Workers : worker[v].pc = "fetch" => worker'[v] = worker[v]
    BY <1>3, <2>1 DEF GetItem, IInv, TypeOK
  <2> QED BY <2>1, <2>2, <2>3
<1>4. ASSUME NEW w \in Workers, handleItem(w) PROVE NoMissedChange'
  BY <1>4 DEF handleItem, queueVars, IInv, TypeOK
<1>5. ASSUME NEW w \in Workers, Done(w) PROVE NoMissedChange'
  BY <1>5 DEF Done, IInv, TypeOK
<1>6. CASE UNCHANGED vars BY <1>6 DEF vars, queueVars
<1> QED BY <1>1, <1>2, <1>3, <1>4, <1>5, <1>6 DEF Next, processNextItem

(* No change of the cache is missed by the workers, for any number of       *)
(* objects and workers (k8swatcher.go:91-115, 185, 219-233).                *)
THEOREM ChangesAreNotMissed == Spec => []NoMissedChange
<1>1. Init => NoMissedChange BY DEF Init, NoMissedChange
<1> QED BY <1>1, NoMissStep, InvHolds, PTL DEF Spec

-----------------------------------------------------------------------------
(* The refinement: what OdpFactory takes a Controller to do                 *)

FactoryStep ==
    \/ \E k \in Keys : (Factory!AddItem(k) /\ UNCHANGED factoryWorkers)
                        \/ Factory!MergeItem(k)
    \/ \E w \in Workers :
          \/ \E k \in Keys : Factory!GetItem(w, k)
          \/ Factory!ReadCache(w)
          \/ FactoryRests(w)

AbstractVars == <<factoryWaiting, factoryWorkers>>

(* The items of a key are counted type by type.                             *)
LEMMA PendingCounts ==
    ASSUME IInv, NEW k \in Keys
    PROVE  /\ Pending(k) \in 0..4
           /\ adding = None => Pending(k) < 4
           /\ \A item \in dirty : Key(item) = k => Pending(k) > 0
           /\ adding \in dirty /\ Key(adding) = k => Pending(k) > 1
<1>1. \A item \in dirty : Key(item) = k =>
          item \in {<<k, "create">>, <<k, "update">>, <<k, "delete">>}
  BY DEF IInv, TypeOK, eventKeyType, EventTypes, Key
<1> DEFINE c == One(<<k, "create">> \in dirty)
           u == One(<<k, "update">> \in dirty)
           d == One(<<k, "delete">> \in dirty)
           a == One(adding # None /\ Key(adding) = k)
<1>2. c \in 0..1 /\ u \in 0..1 /\ d \in 0..1 /\ a \in 0..1
  BY DEF One
<1>3. (adding = None => a = 0) /\ Pending(k) = c + u + d + a
  BY DEF One, Pending
<1>4. \A item \in dirty : Key(item) = k => c = 1 \/ u = 1 \/ d = 1
  BY <1>1 DEF One
<1>5. adding \in dirty /\ Key(adding) = k => a = 1
  BY NoneAssumption DEF IInv, TypeOK, One
<1> HIDE DEF c, u, d, a
<1>6. QED
  BY <1>2, <1>3, <1>4, <1>5

LEMMA AtMostThree ==
    ASSUME NEW x, NEW y, NEW z
    PROVE  IsFiniteSet({x, y, z}) /\ Cardinality({x, y, z}) <= 3
<1>1. IsFiniteSet({x}) /\ Cardinality({x}) = 1
  BY FS_Singleton
<1>2. /\ IsFiniteSet({x} \cup {y})
      /\ Cardinality({x} \cup {y}) = IF y \in {x} THEN Cardinality({x}) ELSE Cardinality({x}) + 1
  BY <1>1, FS_AddElement
<1>3. /\ IsFiniteSet(({x} \cup {y}) \cup {z})
      /\ Cardinality(({x} \cup {y}) \cup {z}) =
            IF z \in {x} \cup {y} THEN Cardinality({x} \cup {y}) ELSE Cardinality({x} \cup {y}) + 1
  BY <1>2, FS_AddElement
<1>4. Cardinality(({x} \cup {y}) \cup {z}) <= 3
  BY <1>1, <1>2, <1>3
<1>5. ({x} \cup {y}) \cup {z} = {x, y, z}
  OBVIOUS
<1>6. QED
  BY <1>3, <1>4, <1>5

(* A key is in the hands of at most one worker for each type of event.      *)
LEMMA FewHands ==
    ASSUME IInv, NEW k \in Keys, NEW S,
           S = {w \in Workers : ~WorkerAt(w, "idle") /\ Key(worker[w].item) = k}
    PROVE  IsFiniteSet(S) /\ Cardinality(S) <= 3
<1> DEFINE f == [w \in S |-> worker[w].item[2]]
<1>1. \A w \in S : /\ worker[w].item \in eventKeyType
                    /\ worker[w].item[1] = k /\ worker[w].item # None
  BY NoneAssumption DEF IInv, TypeOK, HandsMatch, Key
<1>2. f \in [S -> EventTypes]
  BY <1>1 DEF eventKeyType
<1>3. ASSUME NEW v \in S, NEW w \in S, f[v] = f[w] PROVE v = w
  <2>1. worker[v].item = worker[w].item
    BY <1>1, <1>3 DEF eventKeyType
  <2>2. QED
    BY <1>1, <2>1 DEF IInv, OneAtATime
<1>4. f \in Injection(S, EventTypes)
  <2>1. \A v, w \in S : f[v] = f[w] => v = w
    BY <1>3
  <2> HIDE DEF f
  <2>2. QED
    BY <1>2, <2>1, Fun_IsInj
<1>5. IsFiniteSet(EventTypes) /\ Cardinality(EventTypes) <= 3
  BY AtMostThree DEF EventTypes
<1>6. IsFiniteSet(S) /\ Cardinality(S) <= Cardinality(EventTypes)
  BY <1>4, <1>5, FS_Injection
<1>7. Cardinality(S) \in Nat /\ Cardinality(EventTypes) \in Nat
  BY <1>5, <1>6, FS_CardinalityType
<1>8. QED
  BY <1>5, <1>6, <1>7

(* A change is counted at once.                                             *)
LEMMA InformRefines ==
    ASSUME IInv, NEW k \in Keys, Inform(k)
    PROVE  FactoryStep
<1>1. /\ adding = None /\ adding' # None /\ Key(adding') = k
      /\ UNCHANGED <<queue, dirty, processing, worker>>
  <2>1. PICK delta \in Deltas(k) : adding' = <<k, EventType(k, delta)>>
    BY KeyAlwaysFound DEF Inform
  <2>2. <<k, EventType(k, delta)>> \in eventKeyType
    BY DEF EventType, EventTypes, eventKeyType
  <2>3. QED
    BY <2>1, <2>2, NoneAssumption DEF Inform, queueVars, Key
<1>2. \A j \in Keys : Pending(j)' = IF j = k THEN Pending(j) + 1 ELSE Pending(j)
  BY <1>1 DEF Pending, One
<1>3. Pending(k) < 4
  BY <1>1, PendingCounts
<1>4. factoryWaiting' = [factoryWaiting EXCEPT ![k] = @ + 1]
  BY <1>2 DEF factoryWaiting
<1>5. UNCHANGED factoryWorkers
  BY <1>1 DEF factoryWorkers, FactoryWorker, WorkerAt
<1>6. Factory!AddItem(k)
  BY <1>3, <1>4 DEF Factory!AddItem, factoryWaiting, MaxPending
<1>7. QED
  BY <1>5, <1>6 DEF FactoryStep

(* An item that waits already is merged.                                    *)
LEMMA AddRefines ==
    ASSUME IInv, AddItem
    PROVE  FactoryStep \/ UNCHANGED AbstractVars
<1>0. PICK k \in Keys : k = Key(adding)
  BY DEF AddItem, IInv, TypeOK, eventKeyType, Key
<1>1. /\ adding \in eventKeyType /\ adding # None /\ Key(adding) = k
      /\ adding' = None /\ dirty' = dirty \cup {adding}
      /\ UNCHANGED worker
  BY <1>0 DEF AddItem, IInv, TypeOK
<1>2. UNCHANGED factoryWorkers
  BY <1>1 DEF factoryWorkers, FactoryWorker, WorkerAt
<1>3. adding \in {<<k, "create">>, <<k, "update">>, <<k, "delete">>}
  BY <1>1 DEF eventKeyType, EventTypes, Key
<1>4. \A j \in Keys : j # k => Pending(j)' = Pending(j)
  BY <1>1, <1>3 DEF Pending, One
<1>5. CASE adding \in dirty
  <2>1. Pending(k)' = Pending(k) - 1
    BY <1>1, <1>3, <1>5 DEF Pending, One
  <2>2. Pending(k) > 1
    BY <1>1, <1>5, PendingCounts
  <2>3. factoryWaiting' = [factoryWaiting EXCEPT ![k] = @ - 1]
    BY <1>1, <1>4, <2>1 DEF factoryWaiting
  <2>4. Factory!MergeItem(k)
    BY <1>1, <1>2, <2>2, <2>3 DEF Factory!MergeItem, Factory!sharedVars, Factory!serverVars,
       factoryWaiting
  <2>5. QED
    BY <1>1, <2>4 DEF FactoryStep
<1>6. CASE adding \notin dirty
  <2>1. Pending(k)' = Pending(k)
    BY <1>1, <1>3, <1>6 DEF Pending, One
  <2>2. UNCHANGED factoryWaiting
    BY <1>4, <2>1 DEF factoryWaiting
  <2>3. QED
    BY <1>2, <2>2 DEF AbstractVars
<1>7. QED
  BY <1>5, <1>6

(* Which of the items of a Pod is handed out, and in which order, is not    *)
(* OdpFactory's concern.                                                    *)
LEMMA GetRefines ==
    ASSUME IInv, NEW w \in Workers, GetItem(w)
    PROVE  FactoryStep
<1>0. PICK item \in eventKeyType : item = Head(queue) /\ Waits(item)
  BY TailOfDistinct DEF GetItem, IInv, TypeOK, Waits
<1>k. PICK k \in Keys : k = Key(item)
  BY DEF eventKeyType, Key
<1>1. item \in dirty /\ item # None /\ Key(item) = k
  BY <1>0, <1>k, NoneAssumption DEF IInv, TypeOK
<1>2. /\ worker' = [worker EXCEPT ![w] = [pc |-> "fetch", item |-> item]]
      /\ dirty' = dirty \ {item} /\ adding' = adding
      /\ WorkerAt(w, "idle")
  BY <1>0 DEF GetItem
<1>3. item \in {<<k, "create">>, <<k, "update">>, <<k, "delete">>}
  BY <1>1 DEF eventKeyType, EventTypes, Key
<1>4. \A j \in Keys : Pending(j)' = IF j = k THEN Pending(j) - 1 ELSE Pending(j)
  BY <1>1, <1>2, <1>3 DEF Pending, One
<1>5. Pending(k) > 0
  BY <1>1, PendingCounts
<1>6. factoryWaiting' = [factoryWaiting EXCEPT ![k] = @ - 1]
  BY <1>1, <1>4 DEF factoryWaiting
<1>7. factoryWorkers' = [factoryWorkers EXCEPT ![w] =
            [pc |-> "read", name |-> k, pod |-> None, odp |-> None]]
  BY <1>1, <1>2 DEF factoryWorkers, FactoryWorker, FactoryPlace, WorkerAt, IInv, TypeOK
<1>8. Factory!WorkerAt(w, "idle")
  BY <1>2 DEF Factory!WorkerAt, factoryWorkers, FactoryWorker, FactoryPlace, WorkerAt
<1>9. Factory!Cardinality(Factory!InHand(k)) < MaxPending
  <2>1. Factory!InHand(k) = {v \in Workers : ~WorkerAt(v, "idle") /\ Key(worker[v].item) = k}
    BY NoneAssumption DEF Factory!InHand, factoryWorkers, FactoryWorker
  <2>2. IsFiniteSet(Factory!InHand(k)) /\ Cardinality(Factory!InHand(k)) <= 3
    BY <1>1, <2>1, FewHands
  <2>3. Cardinality(Factory!InHand(k)) \in Nat
    BY <2>2, FS_CardinalityType
  <2>4. Factory!Cardinality(Factory!InHand(k)) = Cardinality(Factory!InHand(k))
    BY DEF Factory!Cardinality, Cardinality
  <2>5. QED
    BY <2>2, <2>3, <2>4 DEF MaxPending
<1>10. Factory!GetItem(w, k)
  BY <1>1, <1>5, <1>6, <1>7, <1>8, <1>9 DEF Factory!GetItem, Factory!sharedVars,
     Factory!serverVars, factoryWaiting
<1>11. QED
  BY <1>1, <1>10 DEF FactoryStep

LEMMA HandleRefines ==
    ASSUME IInv, NEW w \in Workers, handleItem(w)
    PROVE  FactoryStep
<1>1. /\ worker' = [worker EXCEPT ![w].pc = "handle"] /\ WorkerAt(w, "fetch")
      /\ UNCHANGED <<adding, dirty>>
  BY DEF handleItem, queueVars
<1>2. factoryWorkers' = [factoryWorkers EXCEPT ![w].pc = "lock", ![w].pod = None]
  BY <1>1 DEF factoryWorkers, FactoryWorker, FactoryPlace, WorkerAt, IInv, TypeOK
<1>3. UNCHANGED factoryWaiting
  BY <1>1 DEF factoryWaiting, Pending
<1>4. Factory!ReadCache(w)
  <2>1. factoryWorkers[w].pc = "read" /\ factoryWorkers[w].name \in Keys
    BY <1>1 DEF factoryWorkers, FactoryWorker, FactoryPlace, WorkerAt, IInv, TypeOK, HandsMatch,
       eventKeyType, Key
  <2>2. QED
    BY <1>2, <1>3, <2>1 DEF Factory!ReadCache, Factory!WorkerAt, Factory!NameOf,
       Factory!sharedVars, Factory!workerFrame, Factory!controlVars, Factory!serverVars
<1>5. QED
  BY <1>4 DEF FactoryStep

LEMMA DoneRefines ==
    ASSUME IInv, NEW w \in Workers, Done(w)
    PROVE  FactoryStep
<1>1. /\ worker' = [worker EXCEPT ![w] = WorkerIdle] /\ WorkerAt(w, "handle")
      /\ UNCHANGED <<adding, dirty>>
  BY DEF Done
<1>2. factoryWorkers' = [factoryWorkers EXCEPT ![w] = Factory!IdleWorker]
  BY <1>1 DEF factoryWorkers, FactoryWorker, FactoryPlace, WorkerAt, WorkerIdle, IInv, TypeOK,
     Factory!IdleWorker
<1>3. UNCHANGED factoryWaiting
  BY <1>1 DEF factoryWaiting, Pending
<1>4. FactoryRests(w)
  BY <1>1, <1>2, <1>3 DEF FactoryRests, Factory!WorkerRests, Factory!WorkerAt, factoryWorkers,
     FactoryWorker, FactoryPlace, WorkerAt
<1>5. QED
  BY <1>4 DEF FactoryStep

(* The informer, the work queue and the workers of a Controller do what     *)
(* OdpFactory takes them to do, for any number of objects and workers: no   *)
(* item is handed out that does not wait, none that waits is dropped unless *)
(* its like is there, and a name is in few hands (k8swatcher.go:91-115,     *)
(* 182, 219-233).                                                           *)
THEOREM ControllerImplementsFactoryQueue == Spec => ImplementsFactoryQueue
<1>1. IInv /\ [Next]_vars => [FactoryStep]_AbstractVars
  <2> SUFFICES ASSUME IInv, [Next]_vars PROVE FactoryStep \/ UNCHANGED AbstractVars
    OBVIOUS
  <2>1. CASE UNCHANGED vars
    BY <2>1 DEF vars, queueVars, AbstractVars, factoryWaiting, factoryWorkers, Pending,
       FactoryWorker, WorkerAt
  <2>2. QED
    BY <2>1, InformRefines, AddRefines, GetRefines, HandleRefines, DoneRefines
       DEF Next, processNextItem
<1>2. QED
  BY <1>1, InvHolds, PTL DEF Spec, ImplementsFactoryQueue, FactoryStep, AbstractVars

=============================================================================
