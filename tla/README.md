# Verification of the ODP Factory

TLA+ models of `eric-odp-factory`, a Go service that creates Kubernetes Pods on
demand ("On Demand Pods", ODPs), with TLC runs that check them on small
instances and TLAPS proofs for every instance. Paths below are relative to the
repository (`src/`); a location is `file:line`.

## 1. The system

A client asks over REST for the ODP of a user and an application. The first
request puts an entry into a map and the entry's name into a channel; a creator
goroutine takes the name, checks the user against a template, gets a token,
expands the template and creates the Pod. The events of a Kubernetes watch
change the entry to `Ready`, put an error on it, or remove it. The client polls
with the same request.

| Component | State | Operations |
|---|---|---|
| OdpFactory core: `factory.go`, `factory_podevents.go`, `helpers.go`, `k8scrud.go` | `odps` (name to `*OnDemandPod`), `createChannel`, `deletedPods`, the fields of each entry | `GetOnDemandPod`, the creators (`createOnDemandPods`), `handlePodEvent`, `deletedPodsCleaner`, start |
| One attempt: `factory.go:292-461`, `factory_token.go` | locals of `createOnDemandPod` | template, LDAP, access, token, expansion, Pod, undoing the token |
| Templates: `factory_templateevents.go` | `templatesByName`, `templatesByApplication` | load and delete on ConfigMap events |
| Token service client: `tokenservice.go` | none (the tokens are in the service) | `CreateToken`, `GetToken`, `DeleteToken` |
| User lookup: `userlookup.go` | none | `Lookup` over LDAP |
| Controller: `k8swatcher.go` | informer cache, work queue, stop channel | informer callbacks, `handleItem`, `handleErr`, `Run`, `Stop` |
| main: `server.go` | `isReady`, the order of start and stop | start, signal, shutdown |
| REST API: `rest.go` | the HTTP server | `ServeHTTP`, `Stop` |
| Certificate watchers: `certwatcher.go` | the loaded pair, whether the directory is a mounted secret | load, `GetCertificate`, reload |
| Directory watcher: `dirwatcher.go` | watches, callbacks by directory | `WatchDirectory`, the dispatcher, `Stop` |
| Log control: `logging.go` | log level, switch of the debug endpoint | set both from a file |
| Rolling log: `rla.go` | size of the file | none the program uses |
| Configuration, metrics | none that the program reads again | |

How they interact:

- REST handlers call `GetOnDemandPod`; `createChannel` (100 names) joins them to
  the creators.
- Kubernetes tells the informer of each Controller what changed. Its callbacks
  put typed items into a work queue that merges equal ones; workers take an item
  and read the *current* object from the informer's cache.
- `odpsMutex` protects the map and not the entries. An `*OnDemandPod` is read
  and written without a lock by handlers, creators and workers, and also by
  those that took it before the map moved on to another object.
- The creators read `templatesByApplication` without a lock while the ConfigMap
  worker writes it.
- Log control and both certificate watchers register a callback with the
  directory watcher, whose one dispatcher goroutine runs them.

What is hard about it: an entry has up to three kinds of writers at once; events
are merged, late, and handled by several workers; a request may come at any
point of a Pod's life; every call may fail, before or after its effect; a
restart loses everything but the Pods; the shutdown stops the parts in an
order. PROJECT.json lists these hazards at their lines with the properties that
guard them, or the reason why none does.

What makes each part correct: no accepted request is lost, no finished Pod is
forgotten, and no entry leaves the map without a reason (core); users get Pods
only from templates that admit them, attempts end in a Pod or an error, and
tokens follow Pods (attempt); templates follow ConfigMaps (templates); no change
of the cache goes unread and no item is in two hands (Controller); the answer
made of an entry that is being written still makes sense (REST API); what a file
says is what is in use (watchers); the process ends when told and only when
nothing runs (shutdown).

## 2. Modules

| Module | Models | Extended by |
|---|---|---|
| `OdpLifecycle` | the abstract life of a name, as its clients see it | (instantiated by `OdpFactory`) |
| `OdpFactory` | the core, its goroutines, Kubernetes and the Token service | `MCOdpFactory`, `OdpFactoryProofs`, `OdpPodsProofs`, `OdpRefinementProofs`; instantiated by `Controller` and `CreateOdp` |
| `RestReply` | one entry written and read field by field, and the reply | `MCRestReply`, `RestReplyProofs` |
| `Controller` | informer callbacks, the work queue, its workers | `ControllerProofs` |
| `Templates` | template maps, ConfigMaps and their worker | `CreateOdp` |
| `CreateOdp` | one attempt in detail, composed with `Templates` | `MCCreateOdp`, `CreateOdpProofs` |
| `Shutdown` | start and end of all goroutines | `ShutdownProofs` |
| `DirWatcher` | the kernel's event queue, watches, callbacks, the dispatcher | `CertWatcher`, `LogControl` |
| `CertWatcher` | a pair of certificate and key, its directory and its callback | `Watchers` |
| `LogControl` | log level and debug switch, their file and its callback | `Watchers` |
| `Watchers` | the three users of the directory watcher, set up by main | `MCWatchers`, `WatchersProofs` |

PROJECT.json maps every definition to the lines it translates. A definition
called "Variant" in its comment is no part of a specification: it is a plausible
wrong form of the definition below it, and shows that a property would notice.

### OdpFactory

One action per atomic section of the code: a section under a mutex, an access of
a channel, a call to the outside, or an access of a shared field. The requester
steps are `Request` (the section under `odpsMutex`), `CheckError` (the read of
`ErrorTime` after it) and `SendCreate`. The creator steps are `TakeName` and
`FindOdp` (two, since the name is taken before the lock), then one per stage of
`createOnDemandPod`. The worker steps are `GetItem`, `ReadCache`, the four
outcomes of the locked section of `handlePodEvent` (`PodDeleted`, `DropEvent`,
`KnownOdp`, `NewEntry`), `reloadOdp`, one action per phase, and the steps of
`handlePodFinished` in the order of the code.

*Aliasing.* `odps` maps a name to an object id and `heap` the id to the object,
so goroutines go on writing to objects the map has dropped. Object ids, Pod UIDs
and tokens that nobody refers to any more are used again (`FreshOdps`,
`FreshUids`, `FreshTokens`), so the model has no bound on the number of
requests. It bounds how many are in sight at once: with too few ids a step that
needs one waits.

*Abstractions.*

- `ResultCode` 1 to 5 is one `"Failed"`; `CreateOdp` has them apart.
- The checks before the token (template, LDAP, access) are `Refuse` or `Admit`;
  `CreateOdp` has them in full.
- A request that finds an entry without an expired error changes nothing and is
  not a step.
- Work items have no type: `handleItem` does not look at it. The model counts the
  items of a Pod, the one a callback is about to add among them: `MaxItems` is 4 in
  the code, 3 types and that one. An item may be merged into another when it is
  added (`AddItem`) or later (`MergeItem`). `Controller` has the types and shows that
  this allows all that the real queue does (`ImplementsFactoryQueue`).
- The watch is a sequence of changes that becomes a new listing when it is
  `MaxLag` behind. The informer may skip to the latest change.
- Time is `ErrorExpires` and `deletedPodsCleaner`, which may happen at any moment.
- `err` is written together with `code` (`setOdpError` writes three fields one
  after the other; what a REST handler sees in between is in `RestReply`).

*Environment.* The phases of a Pod (`PodMoves`), its removal by others
(`PodVanishes`), crashes with a restart beside the Pods that exist (`Restart`;
`Init` too starts beside any Pods). `Faults` names the calls that may fail; a
failed call may have had its effect, and `createToken` among them may answer with a
token that has no name.

*History.* `undeleted` has the Pods whose DELETE call failed. The code only logs that
error and does not retry, so such a Pod may stay for ever; the properties about finished
Pods except it by name and say nothing of it. `instance` changes when the service is
started again, and in no other step: the properties that allow a restart ask for that,
and not for a map that happens to be empty.

### OdpLifecycle

What a client can rely on about one name: its answers go from *absent* over
*asked* and *creating* to *ready* or *failed*; a failure stays until it expires,
and only an expired or absent name starts a new attempt; a name becomes absent
only when its error expired, when the end of a Pod that ended well is being
handled, or in a crash, which is a new `instance` of the service. A step that
empties the map in the same instance is no crash, even if it removes the only entry.
`OdpFactory!ImplementsLifecycle` instantiates it with
`shown <- ShownNow` (the answer that `ServeHTTP` would give for the object that
is in the map now) and `ended <- EndedNow` (the names of which a worker handles
a succeeded Pod). The mapping forgets objects, channel, queues, events and Pods.
Two behaviours of the code are part of this abstract specification, because the
code has them: `Fail` is possible from every answer but absent, also from ready
(a late error of a second creator, or a Pod that failed), and `Finish` may
remove the entry of a newer request (section 6).

### RestReply

One entry and everybody who may hold it: creators that got its name, Pod
workers, and REST handlers. Each store and each load of a field is a step:
`setOdpError` is three, `handlePodUpdate` two, `ServeHTTP` five loads in the
order of `rest.go:167-175`. Whether the entry was made by a request or by a
worker for a Pod that was already there, and whether it has token types, is
chosen at the start (`Origin`). `told` and `since` are history variables: the
furthest answer sent, and what that was when a request came. The checks of the creators are those of
`CreateOdp`, reduced to success or failure.

*Whose token data.* `TokenData` is called after the creator that got it, or
`Earlier` if a worker read it for a Pod that was there, or `None`: the answer of the
service may lack it. Creators that share the entry overwrite each other's
(`factory_token.go:22`), and `getPodSpec` gives the template what the entry holds then.
`podToken` is history: the data that the Pod was made with. `replaced`, too: a creator
stored token data when a Pod had already been made, or expanded by another creator. Then
the entry holds data of a token that is not the Pod's, and the code tells its client so.
Errors are not told apart: `setOdpError` overwrites an earlier one (section 6).

No lock or atomic orders these accesses, and the Go memory model promises
little of them. The model assumes that the compiler keeps the order of a goroutine's
loads and stores and that amd64, on which the image runs, does not reorder two
stores or two loads. Fields of more than one word (`Error`, `PodIPs`) can be
read torn while they are written; a torn or nil `Error` is a panic, which
`net/http` recovers (the handler is idle again and no reply was sent), or goes
unnoticed. The results of this module hold for builds that meet the assumption.

### Controller

The informer first changes its cache and then calls back; the callback computes
the key with one of two functions and adds the typed item (`Inform`, `AddItem`;
callbacks run one at a time, so the variable `event` they share is harmless).
`AddItem`, `GetItem` and `Done` are those of client-go's work queue with its
FIFO and its sets `dirty` and `processing`. Of an object only presence is kept,
and whether a worker has read its latest change (`unread`). The mapping at the end of
the module counts, per key, the items of `dirty` and the one being added as
`OdpFactory`'s `waiting`, and maps a worker to its places `read` and `lock`. A deletion during a
broken watch is a tombstone, of which `MetaNamespaceKeyFunc` knows no key.
`Deletable` bounds which objects are deleted in a run.

### Templates and CreateOdp

`Templates` has the ConfigMaps as the informer's cache has them (how far the
cache lags behind the API server cannot be seen by the code), their events and
the one worker. A ConfigMap is its application, its access groups and what its
template field is good for (`Bodies`).

`CreateOdp` gives a creator every answer an LDAP server and the Token service
can give, by what the client distinguishes: for LDAP whether the dial, the bind
and the two searches succeed, how many users and which groups are found; for a
token response whether it arrives, is a 200, and what is in it. `processResponse`
is the decision of `doRequest`. A JSON object without `tokenname` is a success with an
empty name (`nameless`): the attempt goes on, the Pod gets no annotation, and
the token, which nobody can name, stays. A response that is lost leaves open whether the
service did what it was asked. The panics of the code (no Token service client,
a nil template, an object that is no Pod) are steps, and end in `Crash`, which
is a restart. `Crash` is always possible, and so also covers the outcome of the
unsynchronised map access. Tokens of attempts a crash interrupted are forgotten
by the model: `TokenFollowsPod` says nothing of them.

`createPod` and `createPodFails` are the call; `PodCreated` and `PodNotCreated` are
what `createOnDemandPod` writes after it. The mapping at the end of the module lets
every creator work for a name of its own, with an entry, a Pod and a token called
after it, and maps the stages before the token to the one place `checks` of
`OdpFactory`.

*Entries that are shared.* Two names in the channel may lead two creators to one entry,
and a worker may handle the end of a Pod of that name. They write its `TokenName` and
delete the token it names. `OtherStep` has what an attempt can notice of that: another
name, or none, in its entry, or its own token gone. It is a step where the attempt reads
`TokenName` next (`spec`, for the annotation, and `undo`, for the deletion); writes at
other moments are overwritten before they are read, or have the same effect later.
What others write never brings an attempt off its stages, so `AdmittedByItsTemplate`,
`AttemptHasOutcome` and `ImplementsFactoryCreator` hold of shared entries too.
`TokenFollowsPod` excepts them: the undo of one creator may delete the token of the Pod
another has made, which is what the code does.

`ImplementsFactoryCreator` says that every step is then a step of a
creator there, or shows nothing, or begins an attempt, or is a crash. It is about
one creator's steps in `OdpFactory`'s state, so the goroutines that only
`OdpFactory` has (requesters, Pod workers) are absent from the mapping.

### Shutdown

`main` goes through the calls of `server.go:165-223`. Its two Controllers start
one after the other (`StartController` waits for the sync of the cache), and on
the signal `cancel` comes first, then `restAPI.Stop`, the Pod Controller, the
ConfigMap Controller and the creators with the cleaner. What a goroutine does
with an item is one step here. A request is accepted (`Accept`), its body is read
(`ReadBody`, as long as its client takes), and it is sent to a creator or
answered. `select` is a free choice between
the branches that are ready. `SomebodyGoesOn` lists who can take a step without a
client or a new event. The health and metrics servers, the dirwatcher and
`wg` (never added to) hold nothing up and are left out.

### DirWatcher, CertWatcher, LogControl, Watchers

`DirWatcher` is the kernel's queue of events (equal neighbours merged, dropped
when full), the watches, the `handlers` map and the dispatcher, which runs one
callback at a time. `WatchDirectory` is two steps (`AddWatch`, `Register`): in
between an event finds no handler. The users extend it with what they do at the
start and in their callback. `updateCert` and `reloadConfiguration` run both in
main and in the dispatcher, each read and each store a step (`LoadCert`,
`LoadKey`, `SetCert`; `ReadFile`, `SetLevel`, `SetDebug`), and files change in
between: a mounted secret by the switch of `..data`, which replaces both files,
a plain directory file by file in any order. `Watchers` sets up log control and
two certificate watchers in the order of `server.go:166-204`. `heard` and
`logHeard` are history variables: the latest change raised an event for which
there is room and a handler.

## 3. Runs

| Run | Shows | Instance |
|---|---|---|
| `factory_faults` | `NoLostCreate`, `NoAbandonedPod`, `EntryStays` with every call allowed to fail, tokens and restarts | one name, requester, creator, worker; 2 objects, 1 UID, 1 token |
| `factory_workers` | `NoAbandonedPod`, `DroppedPodIsDeleted`, `ImplementsLifecycle` with two workers on one Pod | one name, requester, 2 workers, 2 item types, 3 objects, no creator |
| `factory_liveness` | `CreateEnds`, `FinishedPodGoes`, and `ImplementsLifecycle` with a creator | one of each, 2 objects; Pods end well or fail; no faults, tokens or restarts |
| `create_odp` | `TemplateCurrent`, `AdmittedByItsTemplate`, `AttemptHasOutcome`, `TokenFollowsPod`, `ImplementsFactoryCreator` | one creator and what others do to its entry, 2 ConfigMaps, 2 applications, 2 groups, with and without a Token service |
| `shutdown` | `NothingRuns`, `OnlyRequestsAreStuck`, `EndsIfRoom` | 2 handlers, 2 creators, 2 + 1 workers, channel and queues of 1 |
| `rest_reply` | `FailedReplyHasError`, `ReadyReplyHasToken`, `AnswersGoForward` | one handler, 2 creators, 2 workers on one entry |
| `controller` | `NoMissedChange`, `OneAtATime`, `ChangeIsRead`, `ImplementsFactoryQueue` | 2 keys (one deletable), 2 workers |
| `watchers` | `CaughtUp`, `LevelFollowsFile`, `NeverOlder` | a mounted certificate, a plain one, log control; 3 versions, 2 queued events |
| `doc_*` | a claim of a comment, test or API text that the code breaks (section 6) | the smallest instance that shows it |

What the properties say:

- `NoLostCreate`: an entry a client is told is "Creating" is held by the request
  that will send its name, is in the channel, or a creator has it.
- `NoAbandonedPod`: somebody will still look at a finished Pod (the informer has
  to hear of it, an item waits, a worker has it), or its DELETE failed.
- `DroppedPodIsDeleted`: a Pod in `deletedPods`, whose events may be dropped, is
  gone, or a worker is on its way to delete it, or its DELETE failed.
- `EntryStays`: an entry goes or is replaced only when its error has expired or a
  Pod of its name ended well, or when the service restarts.
- `ImplementsLifecycle`: the answers about a name follow `OdpLifecycle`: no jump
  from an unexpired error to a new attempt, no entry that is ready again after an
  error, none that vanishes without one of the two reasons unless the service was
  started again. TLC checks it with two workers, faults and restarts in
  `factory_workers`, and with a creator in `factory_liveness`; the proof of section 5 has
  all of them together.
- `CreateEnds`, `FinishedPodGoes`: the same as promises: every awaited entry gets
  an outcome, every finished Pod, whether it succeeded or failed, goes unless its
  DELETE failed.
- `TemplateCurrent`: when all events are handled, an application has the
  template its ConfigMap holds now (if ConfigMaps keep to one application each).
- `AdmittedByItsTemplate`: a Pod is made from a template whose own access groups
  admit the user, though the ConfigMap may change under the attempt.
- `AttemptHasOutcome`: an attempt that ends without an error has made a Pod.
- `TokenFollowsPod`: a Pod made without an error has the token it asked for, unless the
  service did not name it; a token remains without such a Pod only in the named cases:
  the template failed after the token was made, its creation went unanswered, its
  deletion failed, or it has no name. Nothing is said of an entry others work on
  during the attempt.
- `ImplementsFactoryCreator`: what an attempt does to its entry, its token and its
  Pod is what `OdpFactory` lets a creator do, so what is shown of the core covers
  attempts with all their stages.
- `NothingRuns`: when main returns no goroutine that uses the factory runs, and
  no event waits.
- `OnlyRequestsAreStuck`: from the signal on somebody can always go on until main
  returns, except when main waits for requests, each of which waits for the rest of its
  client's body or for room in a full channel, and the creators that would make room
  are gone.
- `EndsIfRoom`: once the listener is closed and every body is read main returns, if the
  channel has room for the requests that are still being sent.
- `FailedReplyHasError`: a reply with an error code holds the error text.
- `ReadyReplyHasToken`: a reply that says Ready holds the very token data its Pod was
  made with, also when several creators make tokens for the entry. Two cases are
  excepted by name. A Pod of an earlier instance (`origin.foreign`): a second
  worker may set Ready while the first still reads the token. And token data that was
  stored after another creator had expanded its Pod (`replaced`): the code then answers
  with data that is not the Pod's.
- `AnswersGoForward`: who asks after an answer was sent, to himself or to another, is
  told at least as much: after Ready or an error code not Creating, after an error
  an error, perhaps another one. Late events and second creators write the code back and
  forth; the reply goes by `ErrorTime`, which only a new entry clears.
- `NoMissedChange`: a change no worker has read has an item that is being added,
  waits, or is in hand and about to be read. `ChangeIsRead` is its promise.
- `OneAtATime`: no two workers have the same item.
- `ImplementsFactoryQueue`: callbacks, typed items, `dirty`, `processing` and workers
  together do nothing to a Pod's items that `OdpFactory` does not let its counted
  items do.
- `CaughtUp`: when no wanted event of a directory is left, the pair in use is the
  one on disk, if the dispatcher heard of it. It says nothing of a change nobody
  was told of, and excepts a watcher that started before the secret was mounted
  (`KnowsDir`), which ignores every rotation.
- `NeverOlder`: the pair in use never goes back to an older one.
- `LevelFollowsFile`: log level and debug switch are those of the last readable
  file that was heard of, and agree with each other.

*Why the bounds are enough.* All conflicts of the core are about one Pod name:
the map, the channel and the queue treat names independently, except for room in
the channel (`QueueSize` 1 makes it scarce) and workers. One creator and one
requester come back as often as they like, so an old attempt meets a newer entry
of its name. Two objects are the entry and the one it replaced. The second
worker and a second item type, the only way to handle one Pod twice at a time,
have a run of their own, where entries are those of existing Pods. `MaxLag` 1
means the informer misses all changes but the last. What the bounds leave out of
the runs of `OdpFactory` is two creators on one object, two names, and two
workers together with a creator, and more than `MaxItems` 2 items of one Pod; the
theorems of section 5 have no such limits.

In `factory_faults` the one name is enough for `EntryStays`, since a removal is told
from a restart by `instance`: the two removals of `handlePodEvent` and
`handlePodFinished` and the replacement in `GetOnDemandPod` are each checked on the
only entry of the map.

In `create_odp` the first ConfigMap is edited (other groups, a template that cannot be
loaded or expands to no Pod) and the second has a template that fails: all stages of an
attempt, with one ConfigMap to file under the wrong application if the worker did so.

In `RestReply` handlers do not change the entry, so one is as good as many (for
`AnswersGoForward` that is one client that asks again and again; the proof has any
number); two
writers of each kind are needed for one to overtake another, and two creators for one to
replace the other's token data. In `Controller` two
keys let items of different objects and types share the FIFO, and two workers
hold two types of one key. In `Watchers` three versions let a load in main start
before one rotation and end after the next, and a queue of two events overflows.

*Symmetry and view.* `MCOdpFactory` declares its sets of model values symmetric:
no definition tells their elements apart, and the liveness run does not use the
symmetry. `MCView` drops the fields of objects and Pods nobody will read again
(its comment says which), so states with one view have the same future; the
properties read nothing it drops but `instance`, which they only compare across a step.
`MCRestReply` declares the creators symmetric, and the workers.

*Deadlock* is checked in all safety runs of the factory. It is not in
`factory_liveness` (no restart, and no step is due when all is quiet), nor in the
two runs of `Shutdown`, where the process ends, nor in `watchers`, where the last
version of a file is not replaced. `rest_reply` and `controller` check it.

## 4. Fairness

- `OdpFactory!Fairness`: goroutines that can run do run (weak fairness of the
  steps of requesters, creators and workers), the informer is told of every
  change, and calls return. That last is an assumption and not the code's doing: only
  the Token service client gives up by itself (`tokenservice.go:109`); the LDAP calls have
  no deadline (`userlookup.go:168-179`), so a directory that does not answer holds its
  creator for ever. `GetItem` and `SendCreate` have strong fairness,
  since the work queue and the senders of a Go channel are served in FIFO order.
  Requests, time and the cluster owe nothing. The process is assumed not to
  restart: `Init` already covers a start beside any Pods.
- `Controller!Fairness`: weak fairness only: the callbacks return, some idle
  worker takes an item when there is one, and each worker finishes what it has.
  That `ChangeIsRead` holds with it is the reason for the strong fairness of
  `GetItem` in `OdpFactory`, where items of a Pod are only counted.
- `Shutdown!Fairness`: weak for main, handlers, workers and creators; strong for
  a creator that leaves on `ctx.Done()`, because Go chooses at random between
  the ready branches of a `select`. The signal, requests, events and the first
  sync of a cache may never come. Calls are assumed to return here too, LDAP's among
  them. The reading of a body is not fair: the server has a `ReadHeaderTimeout` and no
  other (`rest.go:71-75`), and a client may stop in the middle. `PatientSpec` adds that
  clients send their bodies; only `doc_MainReturns` uses it, so that its counterexample
  is the code's own.

## 5. Proofs

Proved by TLAPS for every value of the constants that meets the named
assumptions of the modules:

- `TypeCorrect`, `NoCreateIsLost`, `EntriesStay` (`OdpFactoryProofs`): `TypeOK`,
  `NoLostCreate` and `EntryStays`, for any number of names, requesters, creators,
  workers, ids and any subset of faults, restarts included: only a step to a new
  `instance` may remove entries without one of the other two reasons.
- `PodsAreNotAbandoned`, `DroppedPodsAreDeleted` (`OdpPodsProofs`): `NoAbandonedPod`
  and `DroppedPodIsDeleted`, for the same instances, any lag of the informer and any
  number of items and workers per name.
- `FactoryImplementsLifecycle` (`OdpRefinementProofs`): `ImplementsLifecycle`, for
  the same instances.
- `ReplyTypeCorrect`, `FailuresAreExplained`, `ReadyHasToken`, `AnswersNeverGoBack`
  (`RestReplyProofs`): `TypeOK`, `FailedReplyHasError`, `ReadyReplyHasToken` and
  `AnswersGoForward`, for any number of handlers, creators and workers on one entry.
- `QueueTypeCorrect`, `ItemsAreHandedOutOnce`, `ChangesAreNotMissed`,
  `ControllerImplementsFactoryQueue` (`ControllerProofs`): `TypeOK`, `OneAtATime`,
  `NoMissedChange` and `ImplementsFactoryQueue`, for any set of keys and any number of
  workers.
- `CreateTypeCorrect`, `OnlyAdmitted`, `AttemptsHaveOutcomes`, `TokensFollowPods`,
  `TemplatesStayCurrent`, `AttemptsAreOfTheFactory` (`CreateOdpProofs`): every property
  of the run `create_odp`, `ImplementsFactoryCreator` among them, for any number of creators, ConfigMaps,
  applications and groups, whatever administrators may put in a ConfigMap, every answer of
  the services (a token without a name among them), and whatever others do to the
  `TokenName` of an attempt's entry.
- `WatchersTypeCorrect`, `WatchersCatchUp`, `LevelFollows`, `NoOlderPair`
  (`WatchersProofs`): `TypeOK`, `CaughtUp`, `LevelFollowsFile` and `NeverOlder`, for any
  number of certificate watchers, versions and queued events.
- `ShutdownTypeCorrect`, `NothingRunsAtReturn`, `OnlyRequestsHoldUp`, `NoCircleWithRoom`
  (`ShutdownProofs`): `TypeOK`, `NothingRuns`, `OnlyRequestsAreStuck`, and that room for
  every sender, once main drains and the bodies are read, stays and keeps somebody going until main returns;
  for any number of goroutines, channel and queue size. They assume that each
  Controller has a worker of its own (`k8swatcher.go:26-27`: 5 and 1); without one its
  queue would never be emptied.

*The core argument.* The inductive invariant is `IInv == Typed /\ Core`. `Typed`
strengthens `TypeOK` with what a goroutine holds at each place: a creator past
`find` has an object, a worker that acts has a Pod. `Core` is `NoLostCreate` with
two facts it needs. `NameMatches`: a request sends the name under which the map
has its object; otherwise the channel would get the wrong name and `SendCreate`
would lose the entry. `UndoneIsCreated`: a creator that only has a token to give
back has set `tCreated`, so when it lets go of its object nobody waits for it.
Most steps fall under one of a few lemmas: those that only settle objects
(`HeapOnly`), only shrink the map (`MapOnly`), move a creator that keeps its
object (`CreatorMoves`), or let it go of an object that has its outcome
(`CreatorLetsGo`). `EntriesStay` follows from `Typed` by the steps that change
`odps`.

*The Pod argument.* `PodInv` proves `NoAbandonedPod` and `DroppedPodIsDeleted`
together, since each needs the other: an event may be dropped because another worker
is about to delete that very Pod (`DropEventKeeps`). They rest on what anyone can still
see of a Pod in the namespace, the informer's cache, a notification on its way or a
worker's hands (`Sight`). `OneName`: a UID belongs to one name, so deleting one Pod
settles no other. `OnlyForward`: who sees a Pod finished is right, so the DELETE of a
handler that cleans up takes effect at once or fails (`deletePodKeeps`). `Told`: the
last notification, or without one the cache, is how things are, so the last item of a
name is added after the last change (`InformKeeps`) and a worker that reads the cache
with nothing under way reads the present Pod (`ReadCacheKeeps`).

*The shutdown argument.* `NothingRuns` is not inductive, since `Return` only
looks at the creators and the cleaner. `EndsInOrder` records what each earlier
wait has established, and `QueueDrained` that a worker leaves only when its queue
is shut down and empty. For `OnlyRequestsHoldUp` it is added that a Controller has started
before it is stopped (`Started`): the signal is looked at only after the start. Each
place where main waits is then one case: what it waits for is done, or one of those it
waits for can go on, the workers since `StopReceived` comes before their wait, the
creators since `Cancelled` does. `NoCircleWithRoom` is the safety half of `EndsIfRoom`:
after the listener is closed and the bodies are read nobody starts to send, so `Room` is not lost, and a sender
always finds it (`NoRoomMeansFull`). That somebody who can go on does is left to TLC.

`EntriesStay` and the refinement do not look at the map to know a restart: of all actions
only `Restart` changes `instance`.

*The refinement argument.* `OdpRefinementProofs` shows that the initial states map
to initial states and that every step maps to a step of `OdpLifecycle` or to a
stutter. A write through a pointer changes the answer for at most one name. This
is `Distinct`, the invariant that two names of the map never have the same
object; without it a failing creator would fail two names in one step. The rest
is a case split over the actions: each changes one entry, and a lemma states to
which answers the new entry may belong. A worker that succeeds is what puts a
name into `ended`, and `EndedNow` shrinks only when it removes the entry or goes.

*The reply argument.* `FailedReplyHasError` needs no lock, since the stores run
against the loads: if the code a handler read is Failed, `ErrorTime` was set
before and is never unset, so the handler goes on to read `Error`, and it replies
only if it got one. The invariant says so of every handler that is under way. `ReadyReplyHasToken` rests on the chain token, expansion, Pod, Running, Ready:
until token data is stored too late (`replaced`), the entry's data is what every creator
about to post has in its Pod, and from the first phase on what the Pod was made with
(`TokenBeforePod`); a handler that has read Ready reads the data after that
(`ReadsTokenAfterCode`). `AnswersGoForward` needs no order of the writers: what an answer has
told stays true of the entry (`StillTrue`: no writer stores Creating or clears
`ErrorTime`), a request remembers what was told when it came, and each of its loads
carries that over into the reply (`ReadsForward`).

*The queue argument.* `TypeOK` of `Controller` states that the FIFO holds exactly
`dirty \ processing`, each item once. With it and the fact that `processing` is
what the workers hold, `OneAtATime` and `NoMissedChange` are inductive.
`ImplementsFactoryQueue` needs the two together: the count of a key falls by one when an
item leaves `dirty` for a worker, stays when the item being added becomes one of `dirty`,
and falls without a worker (`MergeItem`) when it was there already.

*The attempt argument.* `Good` says of one attempt what it has at each stage: the
template of its application from `lookup` on, a group in common with it from
`token` on, the same template as its Pod from `post` on, and a token in the
service exactly if the attempt wants one. The attempt knows that token by its name from
its creation to its end, unless the service gave none or others use the entry
(`KeepsToken`). No step of the ConfigMap worker writes to an attempt and no step of
another goroutine to more than its token (`OthersKeepInv`), so each stage is one small
step. For `TemplateCurrent`, `CurrentUnlessDue` says that a ConfigMap has
an event due, is in hand as it is now, or its template is current; `FromContents`
that what is filed under an application comes from the ConfigMap that names it,
so handling one ConfigMap does not touch the template of another.

*The creator's mapping.* `ImplementsFactoryCreator` has one lemma per stage
(`RefusalRefines` to `UndoRefines`), each of them: the step, seen through the mapping, is
the named action of `OdpFactory`. Two facts carry it besides `Good`. `CodesInv`: result
code and error time are set together and only where an attempt ends, so that an entry
that is `Creating` after its Pod was made has no error. And what a creator takes is fresh
(`TokenIsFresh`, `UidIsFresh`): its token and its Pod are nobody else's, since every Pod
in sight is one that an attempt made (`PodsAreOfAttempts`).

*The watcher argument.* `CaughtUp` speaks of quiet states only. `CertDue` says what
keeps a watcher busy until it has caught up: the event waits, or its callback has
not read the files yet, or has read the present pair. A user that main has not set
up has no handler and was told of nothing, so the loads of main matter only for
`NeverOlder`: they end before the first callback. `LogDue` is the same of log
control, where level and debug switch are two stores; `debugEnabled` belongs to the
level except between them. `DirInv` ties handlers to watches and to the stage of
main; each user has a directory of its own (`DirsAssumption`), so a step of one
user is `Apart` from all others.

*Only model-checked.* The four liveness properties (`CreateEnds`, `FinishedPodGoes`,
`EndsIfRoom`, `ChangeIsRead`), which are outside the prover's reach; every invariant,
action property and refinement of the passing runs is proved.

## 6. Findings

Each is shown by a run that finds one property violated; PROJECT.json quotes the
text in question.

- `doc_ReadyHasPod`: a Pod deleted while its entry is Ready leaves the entry
  Ready for ever (`factory_podevents.go:29`).
- `doc_StaleEventIgnored`: `deletedPods` is asked only when the name has no entry;
  a late event of a deleted Pod is applied to a newer entry.
- `doc_RemovedTemplateIsGone`: a ConfigMap that changes its application and is
  then deleted leaves a template behind.
- `doc_MainReturns`: with a full channel the process does not end on SIGTERM.

One more disagreement was met that no run shows. `api/odp-factory.yaml:29-31` says
that until an error expires, requests "will just return the same error". `setOdpError`
(`helpers.go:27-33`) overwrites whatever error there is, so a Pod that fails, or a second
creator, after a client was told of an error makes the next answer another one.
`AnswersGoForward` promises only that there is an error; `RestReply` does not
tell errors apart, and that it holds says nothing for the API text.

## 7. Not modelled

- The retries of `handleErr`: `handleItem` returns an error only if the indexer
  does, and the indexer's `GetByKey` never does.
- `PodIPs`' contents and the request data of entries: copied, never decided on.
  `TokenData` is told apart in `RestReply` by whose token it is; that `GetToken` is tried
  once on a reload and its error only logged is a step there.
- Which error an entry has, beyond its code in `CreateOdp` (section 6).
- Deadlines: a call returns or the fairness of section 4 does not hold; `cancel` at the
  end of the process makes calls fail, which they may at any time.
- `dirwatcher.Stop`, the last call of main, after which nothing of it matters.
- The rolling log (`rla.go`): nothing but its own test makes one.
- What Go may do at an unsynchronised map access beyond ending the process.
- Metrics, configuration, the charts, the health and metrics servers: no state
  that the program reads again.

## 8. Plan

The order of the work, most important behaviour first; all are done.

1. `OdpFactory` with `MCOdpFactory`: the core and its hazards.
2. `Templates`, `CreateOdp`: the attempt in detail.
3. `OdpFactoryProofs`: types, `NoLostCreate`, `EntryStays`.
4. `Shutdown`, `ShutdownProofs`.
5. `OdpLifecycle` as a PROPERTY of `factory_workers`.
6. `OdpRefinementProofs`: the refinement.
7. `RestReply`, `RestReplyProofs`: the reply made of a live entry.
8. `Controller`, `ControllerProofs`: the work queue.
9. `DirWatcher`, `CertWatcher`, `LogControl`, `Watchers`.
10. `CreateOdpProofs`: the attempt and the templates.
11. `WatchersProofs`: the users of the directory watcher.
12. `OdpPodsProofs`: finished Pods, `deletedPods` and the informer.
13. `Controller` and `CreateOdp` mapped to `OdpFactory`: the details implement the core.
14. `OnlyRequestsAreStuck`: how the shutdown can get stuck, and the proof that there is no
    other way.
15. `AnswersGoForward`: what a client that asks again may be told.
16. Restarts told by `instance`, tokens without a name and on shared entries, whose token
    data a reply has, and requests whose body does not come.
