--------------------------- MODULE ShutdownProofs ---------------------------
(***************************************************************************)
(* When main returns nothing runs any more, and until it returns nobody     *)
(* waits for ever but requests, for their clients or for room in a full     *)
(* channel: for every number of requests, creators and workers and every    *)
(* size of channel and queues.                                              *)
(***************************************************************************)
EXTENDS Shutdown, FiniteSetTheorems, TLAPS

(* A worker is gone only when the queue of its Controller is shut down and  *)
(* empty (k8swatcher.go:150-151, 219-223).                                  *)
QueueDrained ==
    \A k \in Controllers : \A w \in WorkersOf(k) :
        worker[w] = "gone" => k \in shutDown /\ items[k] = 0

(* Where main is tells what has ended.                                      *)
EndsInOrder ==
    /\ main \in {"stop Pods", "stop ConfigMaps", "wait", "returned"}
           => \A h \in Handlers : handler[h] = "idle"
    /\ main # "start Pods" => "Pods" \in synced
    /\ main \notin {"start Pods", "start ConfigMaps"} => "ConfigMaps" \in synced
    /\ main \in {"stop ConfigMaps", "wait", "returned"}
           => \A w \in PodWorkers : worker[w] = "gone"
    /\ main \in {"wait", "returned"} => \A w \in ConfigMapWorkers : worker[w] = "gone"
    /\ main = "returned" => \A c \in Creators : creator[c] = "gone"

(* NothingRuns is not inductive: a step of main from one wait to the next    *)
(* keeps it only together with what the earlier waits have established.      *)
IInv == TypeOK /\ QueueDrained /\ EndsInOrder

(* The invariant holds before anything has started.                         *)
LEMMA InitIInv == Init => IInv
<1> SUFFICES ASSUME Init PROVE IInv
  OBVIOUS
<1>1. 0 \in 0..MaxItems /\ 0 \in 0..QueueSize
  BY ShutdownAssumption
<1>2. TypeOK
  BY <1>1 DEF Init, TypeOK, Controllers
<1>3. QueueDrained
  BY DEF Init, QueueDrained, WorkersOf, Workers
<1>4. EndsInOrder
  BY DEF Init, EndsInOrder
<1>5. QED
  BY <1>2, <1>3, <1>4 DEF IInv

(* Every step keeps the invariant: a worker or a handler that is gone or    *)
(* idle stays so, because main is past the place where it could be started. *)
LEMMA StepIInv == IInv /\ [Next]_vars => IInv'
<1> SUFFICES ASSUME IInv, [Next]_vars PROVE IInv'
  OBVIOUS
<1> USE DEF IInv, Controllers, WorkersOf, Workers, factoryVars, controllerVars
<1>1. CASE StartPods
  BY <1>1 DEF StartPods, TypeOK, QueueDrained, EndsInOrder
<1>2. CASE StartConfigMaps
  BY <1>2 DEF StartConfigMaps, TypeOK, QueueDrained, EndsInOrder
<1>3. CASE CloseListener
  BY <1>3 DEF CloseListener, MainGoes, TypeOK, QueueDrained, EndsInOrder
<1>4. CASE RestStopped
  <2>1. TypeOK'
    <3>1. "Pods" \in synced
      BY <1>4 DEF RestStopped, EndsInOrder
    <3>2. QED
      BY <1>4, <3>1 DEF RestStopped, MainGoes, TypeOK
  <2>2. QueueDrained'
    BY <1>4 DEF RestStopped, MainGoes, TypeOK, QueueDrained
  <2>3. EndsInOrder'
    BY <1>4 DEF RestStopped, MainGoes, TypeOK, EndsInOrder
  <2>4. QED
    BY <2>1, <2>2, <2>3
<1>5. CASE PodsStopped
  <2>1. TypeOK'
    <3>1. "ConfigMaps" \in synced
      BY <1>5 DEF PodsStopped, EndsInOrder
    <3>2. QED
      BY <1>5, <3>1 DEF PodsStopped, MainGoes, TypeOK
  <2>2. QueueDrained'
    BY <1>5 DEF PodsStopped, MainGoes, TypeOK, QueueDrained
  <2>3. EndsInOrder'
    BY <1>5 DEF PodsStopped, MainGoes, TypeOK, EndsInOrder
  <2>4. QED
    BY <2>1, <2>2, <2>3
<1>6. CASE ConfigMapsStopped
  BY <1>6 DEF ConfigMapsStopped, MainGoes, TypeOK, QueueDrained, EndsInOrder
<1>7. CASE Return
  BY <1>7 DEF Return, FactoryGone, MainGoes, TypeOK, QueueDrained, EndsInOrder
<1>8. CASE Cancel
  BY <1>8 DEF Cancel, MainGoes, TypeOK, QueueDrained, EndsInOrder
<1>9. ASSUME NEW h \in Handlers, Accept(h) PROVE IInv'
  BY <1>9 DEF Accept, HandlerGoes, TypeOK, QueueDrained, EndsInOrder
<1>9a. ASSUME NEW h \in Handlers, ReadBody(h) PROVE IInv'
  <2>1. TypeOK'
    BY <1>9a DEF ReadBody, HandlerGoes, TypeOK
  <2>2. QueueDrained'
    BY <1>9a DEF ReadBody, HandlerGoes, QueueDrained
  <2>3. EndsInOrder'
    BY <1>9a DEF ReadBody, HandlerGoes, TypeOK, EndsInOrder
  <2>4. QED
    BY <2>1, <2>2, <2>3
<1>10. ASSUME NEW h \in Handlers, Send(h) PROVE IInv'
  <2>1. TypeOK'
    <3>1. channel \in 0..QueueSize
      BY DEF TypeOK
    <3>2. channel < QueueSize /\ channel' = channel + 1
      BY <1>10 DEF Send, HandlerGoes
    <3>3. channel' \in 0..QueueSize
      BY <3>1, <3>2, ShutdownAssumption
    <3>4. QED
      BY <1>10, <3>3 DEF Send, HandlerGoes, TypeOK
  <2>2. QueueDrained'
    BY <1>10 DEF Send, HandlerGoes, TypeOK, QueueDrained
  <2>3. EndsInOrder'
    BY <1>10 DEF Send, HandlerGoes, TypeOK, EndsInOrder
  <2>4. QED
    BY <2>1, <2>2, <2>3
<1>11. ASSUME NEW h \in Handlers, Reply(h) PROVE IInv'
  BY <1>11 DEF Reply, HandlerGoes, TypeOK, QueueDrained, EndsInOrder
<1>12. ASSUME NEW c \in Creators, Take(c) PROVE IInv'
  <2>1. TypeOK'
    <3>1. channel \in 0..QueueSize
      BY DEF TypeOK
    <3>2. channel > 0 /\ channel' = channel - 1
      BY <1>12 DEF Take
    <3>3. channel' \in 0..QueueSize
      BY <3>1, <3>2, ShutdownAssumption
    <3>4. QED
      BY <1>12, <3>3 DEF Take, TypeOK
  <2>2. QueueDrained'
    BY <1>12 DEF Take, TypeOK, QueueDrained
  <2>3. EndsInOrder'
    BY <1>12 DEF Take, TypeOK, EndsInOrder
  <2>4. QED
    BY <2>1, <2>2, <2>3
<1>13. ASSUME NEW c \in Creators, Created(c) PROVE IInv'
  BY <1>13 DEF Created, TypeOK, QueueDrained, EndsInOrder
<1>14. ASSUME NEW c \in Creators, CreatorQuits(c) PROVE IInv'
  BY <1>14 DEF CreatorQuits, TypeOK, QueueDrained, EndsInOrder
<1>15. CASE CleanerQuits
  BY <1>15 DEF CleanerQuits, TypeOK, QueueDrained, EndsInOrder
<1>16. ASSUME NEW k \in Controllers, CacheSyncs(k) PROVE IInv'
  BY <1>16 DEF CacheSyncs, TypeOK, QueueDrained, EndsInOrder
<1>17. ASSUME NEW k \in Controllers, AddItem(k) PROVE IInv'
  <2>1. TypeOK'
    <3>1. items \in [Controllers -> 0..MaxItems]
      BY DEF TypeOK
    <3>2. items[k] < MaxItems /\ items' = [items EXCEPT ![k] = @ + 1]
      BY <1>17 DEF AddItem
    <3>3. items' \in [Controllers -> 0..MaxItems]
      BY <3>1, <3>2, ShutdownAssumption
    <3>4. QED
      BY <1>17, <3>3 DEF AddItem, TypeOK
  <2>2. QueueDrained'
    BY <1>17 DEF AddItem, TypeOK, QueueDrained
  <2>3. EndsInOrder'
    BY <1>17 DEF AddItem, TypeOK, EndsInOrder
  <2>4. QED
    BY <2>1, <2>2, <2>3
<1>18. ASSUME NEW k \in Controllers, RunReturns(k) PROVE IInv'
  <2>1. TypeOK'
    BY <1>18 DEF RunReturns, StopReceived, TypeOK
  <2>2. QueueDrained'
    BY <1>18 DEF RunReturns, StopReceived, TypeOK, QueueDrained
  <2>3. EndsInOrder'
    BY <1>18 DEF RunReturns, StopReceived, TypeOK, EndsInOrder
  <2>4. QED
    BY <2>1, <2>2, <2>3
<1>19. ASSUME NEW k \in Controllers, NEW w \in WorkersOf(k), GetItem(k, w) PROVE IInv'
  <2>1. TypeOK'
    <3>1. items \in [Controllers -> 0..MaxItems]
      BY DEF TypeOK
    <3>2. items[k] > 0 /\ items' = [items EXCEPT ![k] = @ - 1]
      BY <1>19 DEF GetItem
    <3>3. items' \in [Controllers -> 0..MaxItems]
      BY <3>1, <3>2, ShutdownAssumption
    <3>4. QED
      BY <1>19, <3>3 DEF GetItem, TypeOK
  <2>2. QueueDrained'
    <3> SUFFICES ASSUME NEW j \in Controllers, NEW v \in WorkersOf(j), worker'[v] = "gone"
                 PROVE  j \in shutDown' /\ items'[j] = 0
      BY DEF QueueDrained
    <3>1. v \in Workers /\ w \in Workers
      OBVIOUS
    <3>2. worker[v] = "gone"
      BY <1>19, <3>1 DEF GetItem, TypeOK
    <3>3. j \in shutDown /\ items[j] = 0
      BY <3>2 DEF QueueDrained
    <3>4. items'[j] = 0 /\ shutDown' = shutDown
      <4>1. items[k] > 0 /\ items' = [items EXCEPT ![k] = @ - 1] /\ shutDown' = shutDown
        BY <1>19 DEF GetItem
      <4>2. k # j
        BY <3>3, <4>1
      <4>3. QED
        BY <3>3, <4>1, <4>2 DEF TypeOK
    <3>5. QED
      BY <3>3, <3>4
  <2>3. EndsInOrder'
    BY <1>19 DEF GetItem, TypeOK, EndsInOrder
  <2>4. QED
    BY <2>1, <2>2, <2>3
<1>20. ASSUME NEW k \in Controllers, NEW w \in WorkersOf(k), HandleItem(w) PROVE IInv'
  BY <1>20 DEF HandleItem, TypeOK, QueueDrained, EndsInOrder
<1>21. ASSUME NEW k \in Controllers, NEW w \in WorkersOf(k), WorkerQuits(k, w) PROVE IInv'
  <2>1. TypeOK'
    BY <1>21 DEF WorkerQuits, Quit, TypeOK
  <2>2. QueueDrained'
    <3> SUFFICES ASSUME NEW j \in Controllers, NEW v \in WorkersOf(j), worker'[v] = "gone"
                 PROVE  j \in shutDown' /\ items'[j] = 0
      BY DEF QueueDrained
    <3>1. shutDown' = shutDown /\ items' = items
      BY <1>21 DEF WorkerQuits
    <3>2. CASE v = w
      <4>1. j = k
        BY <3>2, ShutdownAssumption
      <4>2. QED
        BY <1>21, <3>1, <4>1 DEF WorkerQuits, Quit
    <3>3. CASE v # w
      <4>1. worker[v] = "gone"
        BY <1>21, <3>3 DEF WorkerQuits, TypeOK
      <4>2. QED
        BY <3>1, <4>1 DEF QueueDrained
    <3>4. QED
      BY <3>2, <3>3
  <2>3. EndsInOrder'
    BY <1>21 DEF WorkerQuits, Quit, TypeOK, EndsInOrder
  <2>4. QED
    BY <2>1, <2>2, <2>3
<1>22. CASE UNCHANGED vars
  BY <1>22 DEF vars, TypeOK, QueueDrained, EndsInOrder
<1>23. QED
  BY <1>1, <1>2, <1>3, <1>4, <1>5, <1>6, <1>7, <1>8, <1>9, <1>9a, <1>10, <1>11, <1>12, <1>13, <1>14, <1>15, <1>16, <1>17, <1>18, <1>19, <1>20, <1>21, <1>22
  DEF Next, MainStep, HandlerStep, CreatorStep, WorkerStep

(* Type correctness of the start and the end of the process, among it that  *)
(* a queue is shut down only after its Controller was told to stop.         *)
THEOREM ShutdownTypeCorrect == Spec => []TypeOK
<1>1. IInv => TypeOK
  BY DEF IInv
<1>2. QED
  BY InitIInv, StepIInv, <1>1, PTL DEF Spec

(* main returns only after every goroutine that uses the factory, with no   *)
(* event left in a queue (server.go:216-217, factory.go:243-247).           *)
THEOREM NothingRunsAtReturn == Spec => []NothingRuns
<1>1. IInv => NothingRuns
  <2> SUFFICES ASSUME IInv, main = "returned" PROVE NothingRuns
    BY DEF NothingRuns
  <2>1. \A k \in Controllers : \A w \in WorkersOf(k) : worker[w] = "gone"
    BY DEF IInv, EndsInOrder, Controllers, WorkersOf
  <2>2. \A k \in Controllers : items[k] = 0
    BY <2>1, ShutdownAssumption DEF IInv, QueueDrained, Controllers, WorkersOf
  <2>3. QED
    BY <2>1, <2>2 DEF IInv, EndsInOrder, NothingRuns, Workers, Controllers, WorkersOf
<1>2. QED
  BY InitIInv, StepIInv, <1>1, PTL DEF Spec

-----------------------------------------------------------------------------
(* What has been started stays so until it is gone, and a Controller that   *)
(* main waits for has been told to stop.                                    *)
Started ==
    /\ main # "start Pods"
           => main = "start ConfigMaps" \/ \A w \in ConfigMapWorkers : worker[w] # "none"
    /\ main # "start Pods" => \A w \in PodWorkers : worker[w] # "none"
    /\ main \notin {"start Pods", "start ConfigMaps"}
           => cleaner # "none" /\ \A c \in Creators : creator[c] # "none"
    /\ main \in {"stop Pods", "stop ConfigMaps", "wait", "returned"} => "Pods" \in stop
    /\ main \in {"stop ConfigMaps", "wait", "returned"} => "ConfigMaps" \in stop

(* Nothing is started before the signal can arrive.                         *)
LEMMA InitStarted == Init => Started
  BY DEF Init, Started

(* No step undoes a start, and no stop channel is opened again.             *)
LEMMA StepStarted == IInv /\ Started /\ [Next]_vars => Started'
<1> SUFFICES ASSUME TypeOK, Started, [Next]_vars PROVE Started'
  BY DEF IInv
<1> USE DEF Controllers, WorkersOf, Workers, factoryVars, controllerVars
<1>1. CASE StartPods
  BY <1>1 DEF StartPods, TypeOK, Started
<1>2. CASE StartConfigMaps
  BY <1>2 DEF StartConfigMaps, TypeOK, Started
<1>3. CASE CloseListener \/ ConfigMapsStopped \/ Return \/ Cancel
  BY <1>3 DEF CloseListener, ConfigMapsStopped, Return, Cancel, MainGoes, TypeOK, Started
<1>4. CASE RestStopped
  BY <1>4 DEF RestStopped, MainGoes, TypeOK, Started
<1>5. CASE PodsStopped
  BY <1>5 DEF PodsStopped, MainGoes, TypeOK, Started
<1>6. ASSUME NEW h \in Handlers, Accept(h) \/ ReadBody(h) \/ HandlerStep(h) PROVE Started'
  BY <1>6 DEF Accept, ReadBody, HandlerStep, Send, Reply, Started
<1>7. ASSUME NEW c \in Creators, CreatorStep(c) PROVE Started'
  <2>1. UNCHANGED <<main, worker, cleaner, stop>>
    BY <1>7 DEF CreatorStep, Take, Created, CreatorQuits
  <2>2. \A d \in Creators : creator[d] # "none" => creator'[d] # "none"
    BY <1>7 DEF CreatorStep, Take, Created, CreatorQuits, TypeOK
  <2>3. QED
    BY <2>1, <2>2 DEF Started
<1>8. CASE CleanerQuits
  BY <1>8 DEF CleanerQuits, Started
<1>9. ASSUME NEW k \in Controllers, CacheSyncs(k) \/ AddItem(k) \/ RunReturns(k) PROVE Started'
  BY <1>9 DEF CacheSyncs, AddItem, RunReturns, Started
<1>10. ASSUME NEW k \in Controllers, NEW w \in WorkersOf(k), WorkerStep(k, w) PROVE Started'
  <2>1. UNCHANGED <<main, creator, cleaner, stop>>
    BY <1>10 DEF WorkerStep, GetItem, HandleItem, WorkerQuits
  <2>2. \A v \in Workers : worker[v] # "none" => worker'[v] # "none"
    BY <1>10 DEF WorkerStep, GetItem, HandleItem, WorkerQuits, TypeOK
  <2>3. QED
    BY <2>1, <2>2 DEF Started
<1>11. CASE UNCHANGED vars
  BY <1>11 DEF vars, Started
<1>12. QED
  BY <1>1, <1>2, <1>3, <1>4, <1>5, <1>6, <1>7, <1>8, <1>9, <1>10, <1>11 DEF Next, MainStep

(* A worker of a Controller that was told to stop is gone, or somebody of   *)
(* the Controller goes on (k8swatcher.go:179, 219-223).                     *)
LEMMA StoppedControllerEnds ==
    ASSUME TypeOK, NEW k \in Controllers, k \in stop, ~ControllerGoesOn(k),
           NEW w \in WorkersOf(k), worker[w] # "none"
    PROVE  worker[w] = "gone"
<1>1. k \in shutDown
  BY DEF ControllerGoesOn, StopReceived
<1>2. worker[w] # "handle" /\ ~(worker[w] = "get" /\ (items[k] > 0 \/ Quit(k)))
  BY DEF ControllerGoesOn
<1>3. items[k] > 0 \/ items[k] = 0
  <2>1. items[k] \in 0..MaxItems
    BY DEF TypeOK
  <2>2. QED
    BY <2>1, ShutdownAssumption
<1>4. worker[w] # "get"
  BY <1>1, <1>2, <1>3 DEF Quit
<1>5. worker[w] \in {"none", "get", "handle", "gone"}
  BY DEF TypeOK, Controllers, WorkersOf, Workers
<1>6. QED
  BY <1>2, <1>4, <1>5

(* The channel never holds more than its capacity.                          *)
LEMMA NoRoomMeansFull ==
    ASSUME TypeOK, ~(channel < QueueSize)
    PROVE  channel = QueueSize
<1>1. channel \in 0..QueueSize
  BY DEF TypeOK
<1>2. QED
  BY <1>1, ShutdownAssumption

(* The invariant and Started tell who waits for whom: whoever main waits    *)
(* for goes on, except a request that waits for its client or for room.     *)
LEMMA NobodyElseIsStuck ==
    ASSUME IInv, Started
    PROVE  OnlyRequestsAreStuck
<1> SUFFICES ASSUME main \in {"cancelled", "drain", "stop Pods", "stop ConfigMaps", "wait"},
                    ~SomebodyGoesOn
             PROVE  /\ main = "drain"
                    /\ \E h \in Handlers : handler[h] # "idle"
                    /\ \A h \in Handlers :
                         \/ handler[h] \in {"idle", "body"}
                         \/ handler[h] = "send" /\ channel = QueueSize
                    /\ \A c \in Creators : creator[c] = "gone"
  BY DEF OnlyRequestsAreStuck
<1>1. TypeOK /\ Cancelled
  BY DEF IInv, Cancelled
<1>2. ~MainGoesOn /\ ~RequestGoesOn /\ ~FactoryGoesOn
  BY DEF SomebodyGoesOn
<1>3. \A k \in Controllers : ~ControllerGoesOn(k)
  BY DEF SomebodyGoesOn
<1>4. \A c \in Creators : creator[c] = "gone"
  BY <1>1, <1>2 DEF FactoryGoesOn, Started, TypeOK
<1>5. cleaner = "gone"
  BY <1>1, <1>2 DEF FactoryGoesOn, Started, TypeOK
<1>6. main # "cancelled"
  BY <1>2 DEF MainGoesOn
<1>7. main # "wait"
  BY <1>2, <1>4, <1>5 DEF MainGoesOn, FactoryGone
<1>8. main # "stop Pods"
  <2> SUFFICES ASSUME main = "stop Pods" PROVE FALSE
    OBVIOUS
  <2>1. PICK w \in PodWorkers : worker[w] # "gone"
    BY <1>2 DEF MainGoesOn
  <2>2. "Pods" \in Controllers /\ w \in WorkersOf("Pods") /\ "Pods" \in stop
        /\ worker[w] # "none"
    BY DEF Controllers, WorkersOf, Started
  <2>3. QED
    BY <1>1, <1>3, <2>1, <2>2, StoppedControllerEnds
<1>9. main # "stop ConfigMaps"
  <2> SUFFICES ASSUME main = "stop ConfigMaps" PROVE FALSE
    OBVIOUS
  <2>1. PICK w \in ConfigMapWorkers : worker[w] # "gone"
    BY <1>2 DEF MainGoesOn
  <2>2. "ConfigMaps" \in Controllers /\ w \in WorkersOf("ConfigMaps") /\ "ConfigMaps" \in stop
        /\ worker[w] # "none"
    BY DEF Controllers, WorkersOf, Started
  <2>3. QED
    BY <1>1, <1>3, <2>1, <2>2, StoppedControllerEnds
<1>10. main = "drain"
  BY <1>6, <1>7, <1>8, <1>9
<1>11. \E h \in Handlers : handler[h] # "idle"
  BY <1>2, <1>10 DEF MainGoesOn
<1>12. ASSUME NEW h \in Handlers, handler[h] \notin {"idle", "body"}
       PROVE  handler[h] = "send" /\ channel = QueueSize
  <2>1. handler[h] = "send" /\ ~(channel < QueueSize)
    BY <1>1, <1>2, <1>12 DEF RequestGoesOn, TypeOK
  <2>2. QED
    BY <1>1, <2>1, NoRoomMeansFull
<1>13. QED
  BY <1>4, <1>10, <1>11, <1>12

(* After the signal main, and with it the process, can be held up for ever  *)
(* by requests only: those whose clients have not sent all of their body,   *)
(* and those that are sent to creators that have left (rest.go:136,         *)
(* factory.go:166-167, 283, server.go:211-217).                             *)
THEOREM OnlyRequestsHoldUp == Spec => []OnlyRequestsAreStuck
  BY InitIInv, StepIInv, InitStarted, StepStarted, NobodyElseIsStuck, PTL DEF Spec

-----------------------------------------------------------------------------
Closed == main \in {"drain", "stop Pods", "stop ConfigMaps", "wait", "returned"}

LEMMA SendingIsFinite == IsFiniteSet(Sending)
  BY ShutdownAssumption, FS_Subset DEF Sending

(* Once no request is accepted and none is read, room for those that are    *)
(* being sent stays: a request takes the place that was counted for it      *)
(* (factory.go:283).                                                        *)
LEMMA RoomStays ==
    IInv /\ Closed /\ BodiesRead /\ Room /\ [Next]_vars => Closed' /\ BodiesRead' /\ Room'
<1> SUFFICES ASSUME TypeOK, Closed, BodiesRead, Room, [Next]_vars
             PROVE  Closed' /\ BodiesRead' /\ Room'
  BY DEF IInv
<1> USE DEF factoryVars, controllerVars
<1>1. channel \in Nat /\ QueueSize \in Nat /\ Cardinality(Sending) \in Nat
  <2>1. channel \in 0..QueueSize
    BY DEF TypeOK
  <2>2. Cardinality(Sending) \in Nat
    BY SendingIsFinite, FS_CardinalityType
  <2>3. QED
    BY <2>1, <2>2, ShutdownAssumption
<1>2. ASSUME Closed', UNCHANGED handler, channel' = channel \/ channel' = channel - 1
      PROVE  Closed' /\ BodiesRead' /\ Room'
  <2>1. Sending' = Sending
    BY <1>2 DEF Sending
  <2>2. channel + Cardinality(Sending) <= QueueSize
    BY DEF Room
  <2>3. channel' + Cardinality(Sending) <= QueueSize
    BY <1>1, <1>2, <2>2
  <2>4. QED
    BY <1>2, <2>1, <2>3 DEF Room, BodiesRead
<1>3. CASE MainStep \/ Cancel \/ CleanerQuits \/ UNCHANGED vars
  <2>1. Closed' /\ UNCHANGED <<handler, channel>>
    BY <1>3 DEF MainStep, StartPods, StartConfigMaps, CloseListener, RestStopped, PodsStopped,
                ConfigMapsStopped, Return, Cancel, CleanerQuits, MainGoes, Closed, vars
  <2>2. QED
    BY <1>2, <2>1
<1>4. ASSUME NEW h \in Handlers, Accept(h) \/ ReadBody(h) PROVE FALSE
  BY <1>4 DEF Accept, ReadBody, Closed, BodiesRead
<1>5. ASSUME NEW h \in Handlers, Send(h) PROVE  Closed' /\ BodiesRead' /\ Room'
  <2>1. handler[h] = "send" /\ channel' = channel + 1 /\ main' = main
    BY <1>5 DEF Send
  <2>2. h \in Sending /\ Sending' = Sending \ {h}
    BY <1>5, <2>1 DEF Send, HandlerGoes, Sending, TypeOK
  <2>3. Cardinality(Sending \ {h}) = Cardinality(Sending) - 1
    BY <2>2, SendingIsFinite, FS_RemoveElement
  <2>4. channel + Cardinality(Sending) <= QueueSize
    BY DEF Room
  <2>5. channel' + Cardinality(Sending \ {h}) <= QueueSize
    BY <1>1, <2>1, <2>3, <2>4
  <2>6. BodiesRead'
    BY <1>5 DEF Send, HandlerGoes, BodiesRead, TypeOK
  <2>7. QED
    BY <2>1, <2>2, <2>5, <2>6 DEF Room, Closed
<1>6. ASSUME NEW h \in Handlers, Reply(h) PROVE  Closed' /\ BodiesRead' /\ Room'
  <2>1. Sending' = Sending /\ channel' = channel /\ main' = main
    BY <1>6 DEF Reply, HandlerGoes, Sending, TypeOK
  <2>2. BodiesRead'
    BY <1>6 DEF Reply, HandlerGoes, BodiesRead, TypeOK
  <2>3. QED
    BY <2>1, <2>2 DEF Room, Closed
<1>7. ASSUME NEW c \in Creators, CreatorStep(c) PROVE  Closed' /\ BodiesRead' /\ Room'
  <2>1. main' = main /\ UNCHANGED handler /\ (channel' = channel \/ channel' = channel - 1)
    BY <1>7 DEF CreatorStep, Take, Created, CreatorQuits
  <2>2. QED
    BY <1>2, <2>1 DEF Closed
<1>8. ASSUME NEW k \in Controllers, CacheSyncs(k) \/ AddItem(k) \/ RunReturns(k)
      PROVE  Closed' /\ BodiesRead' /\ Room'
  <2>1. main' = main /\ UNCHANGED <<handler, channel>>
    BY <1>8 DEF CacheSyncs, AddItem, RunReturns
  <2>2. QED
    BY <1>2, <2>1 DEF Closed
<1>9. ASSUME NEW k \in Controllers, NEW w \in WorkersOf(k), WorkerStep(k, w)
      PROVE  Closed' /\ BodiesRead' /\ Room'
  <2>1. main' = main /\ UNCHANGED <<handler, channel>>
    BY <1>9 DEF WorkerStep, GetItem, HandleItem, WorkerQuits
  <2>2. QED
    BY <1>2, <2>1 DEF Closed
<1>10. QED
  BY <1>3, <1>4, <1>5, <1>6, <1>7, <1>8, <1>9 DEF Next, HandlerStep

(* With room for the requests that are being sent, somebody goes on.        *)
LEMMA RoomMeansGoingOn ==
    IInv /\ Started /\ Closed /\ BodiesRead /\ Room => main = "returned" \/ SomebodyGoesOn
<1> SUFFICES ASSUME IInv, Started, Closed, BodiesRead, Room,
                    main # "returned", ~SomebodyGoesOn
             PROVE  FALSE
  OBVIOUS
<1>1. channel = QueueSize /\ \E h \in Handlers : handler[h] = "send"
  BY NobodyElseIsStuck DEF OnlyRequestsAreStuck, Closed, BodiesRead
<1>2. PICK h \in Sending : TRUE
  BY <1>1 DEF Sending
<1>3. Cardinality(Sending) \in Nat /\ Cardinality(Sending) # 0
  BY <1>2, SendingIsFinite, FS_CardinalityType, FS_EmptySet
<1>4. channel + Cardinality(Sending) <= QueueSize
  BY DEF Room
<1>5. QED
  BY <1>1, <1>3, <1>4, ShutdownAssumption

(* The safety part of EndsIfRoom: once the listener is closed, every body   *)
(* is read and createChannel has room for every request that is being sent, *)
(* there is from then on, until main returns, always a goroutine that goes  *)
(* on (server.go:211-221).                                                  *)
THEOREM NoCircleWithRoom ==
    Spec => [](main = "drain" /\ BodiesRead /\ Room
                 => [](main = "returned" \/ SomebodyGoesOn))
<1>1. main = "drain" => Closed
  BY DEF Closed
<1>2. QED
  BY InitIInv, StepIInv, InitStarted, StepStarted, RoomStays, RoomMeansGoingOn, <1>1,
     PTL DEF Spec
=============================================================================
