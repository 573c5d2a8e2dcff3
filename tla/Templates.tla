----------------------------- MODULE Templates -----------------------------
(***************************************************************************)
(* The ODP Templates (internal/factory/factory_templateevents.go): two maps *)
(* that the only ConfigMap worker fills from the informer's cache, and that *)
(* the creators read without a lock.                                        *)
(***************************************************************************)
EXTENDS Naturals

CONSTANTS
    ConfigMaps,     \* names of ConfigMaps with the template label
    Applications,
    Groups,         \* LDAP groups
    Contents,       \* Contents[cm]: what an administrator may put in cm
    MaxEvents,      \* work items of one ConfigMap, one per event type
    None

(* What a "template" field is good for: it expands to a Pod; it parses, but *)
(* cannot be executed or decoded, or rejects the request; it does not       *)
(* parse; it is absent, or expands to an object that is no Pod.             *)
Bodies == {"pod", "fails", "unparsable", "absent"}

(* app and groups are annotations, and None when the annotation is missing. *)
ConfigMap == [app : Applications \cup {None}, groups : (SUBSET Groups) \cup {{None}},
              body : Bodies]

ASSUME TemplatesAssumption ==
    /\ None \notin ConfigMaps \cup Applications \cup Groups
    /\ Contents \in [ConfigMaps -> SUBSET ConfigMap]
    /\ MaxEvents \in Nat \ {0}

OdpTemplate == [name : ConfigMaps, app : Applications, groups : SUBSET Groups,
                body : Bodies \ {"unparsable"}]

VARIABLES
    configMaps,             \* the ConfigMaps, as the informer's indexer has them
    events,                 \* work items waiting in the ConfigMap queue
    cmWorker,               \* the ConfigMap worker
    templatesByName,
    templatesByApplication

templateVars == <<configMaps, events, cmWorker, templatesByName, templatesByApplication>>

IdleCmWorker == [pc |-> "idle", name |-> None, obj |-> None]

TemplatesTypeOK ==
    /\ configMaps \in [ConfigMaps -> ConfigMap \cup {None}]
    /\ events \in [ConfigMaps -> 0..MaxEvents]
    /\ cmWorker \in [pc : {"idle", "read", "handle"}, name : ConfigMaps \cup {None},
                     obj : ConfigMap \cup {None}]
    /\ templatesByName \in [ConfigMaps -> OdpTemplate \cup {None}]
    /\ templatesByApplication \in [Applications -> OdpTemplate \cup {None}]

-----------------------------------------------------------------------------
(* A service that starts has read the ConfigMaps into its cache, and has    *)
(* an event but no template for each of them.                               *)
StartTemplates(cms) ==
    /\ configMaps' = cms
    /\ events' = [cm \in ConfigMaps |-> IF cms[cm] = None THEN 0 ELSE 1]
    /\ cmWorker' = IdleCmWorker
    /\ templatesByName' = [cm \in ConfigMaps |-> None]
    /\ templatesByApplication' = [a \in Applications |-> None]

InitTemplates ==
    /\ configMaps = [cm \in ConfigMaps |-> None]
    /\ events = [cm \in ConfigMaps |-> 0]
    /\ cmWorker = IdleCmWorker
    /\ templatesByName = [cm \in ConfigMaps |-> None]
    /\ templatesByApplication = [a \in Applications |-> None]

-----------------------------------------------------------------------------
(* Variant: no event is queued for the ConfigMap that is being handled.     *)
AddEventUnlessInHand(cm) ==
    IF cmWorker.name = cm THEN UNCHANGED events
                          ELSE events' = [events EXCEPT ![cm] = 1]

(* Variant: equal events are not merged.                                    *)
AddEventAlways(cm) == events' = [events EXCEPT ![cm] = @ + 1]

(* An event of a type that waits already is merged with it.                 *)
AddEvent(cm) ==
    \/ /\ events[cm] < MaxEvents
       /\ events' = [events EXCEPT ![cm] = @ + 1]
    \/ events[cm] > 0 /\ UNCHANGED events

(* A ConfigMap is created, changed or deleted, and the informer is told.    *)
InformConfigMap(cm) ==
    /\ \E new \in Contents[cm] \cup {None} :
         /\ new # configMaps[cm]
         /\ configMaps' = [configMaps EXCEPT ![cm] = new]
    /\ AddEvent(cm)
    /\ UNCHANGED <<cmWorker, templatesByName, templatesByApplication>>

TakeEvent(cm) ==
    /\ cmWorker.pc = "idle"
    /\ events[cm] > 0
    /\ events' = [events EXCEPT ![cm] = @ - 1]
    /\ cmWorker' = [pc |-> "read", name |-> cm, obj |-> None]
    /\ UNCHANGED <<configMaps, templatesByName, templatesByApplication>>

ReadConfigMap ==
    /\ cmWorker.pc = "read"
    /\ cmWorker' = [cmWorker EXCEPT !.pc = "handle", !.obj = configMaps[cmWorker.name]]
    /\ UNCHANGED <<configMaps, events, templatesByName, templatesByApplication>>

Loadable(obj) == obj.app # None /\ obj.groups # {None} /\ obj.body # "unparsable"

handleConfigMapEventLoad(cm, obj) ==
    [name |-> cm, app |-> obj.app, groups |-> obj.groups, body |-> obj.body]

DeleteTemplate(cm) ==
    /\ templatesByName' = [templatesByName EXCEPT ![cm] = None]
    /\ templatesByApplication' =
         IF templatesByName[cm] = None THEN templatesByApplication
         ELSE [templatesByApplication EXCEPT ![templatesByName[cm].app] = None]

(* A ConfigMap that cannot be loaded leaves the maps as they are.           *)
LoadTemplate(cm, obj) ==
    IF Loadable(obj)
    THEN /\ templatesByName' =
              [templatesByName EXCEPT ![cm] = handleConfigMapEventLoad(cm, obj)]
         /\ templatesByApplication' =
              [templatesByApplication EXCEPT ![obj.app] = handleConfigMapEventLoad(cm, obj)]
    ELSE UNCHANGED <<templatesByName, templatesByApplication>>

handleConfigMapEvent ==
    /\ cmWorker.pc = "handle"
    /\ IF cmWorker.obj = None THEN DeleteTemplate(cmWorker.name)
                              ELSE LoadTemplate(cmWorker.name, cmWorker.obj)
    /\ cmWorker' = IdleCmWorker
    /\ UNCHANGED <<configMaps, events>>

TemplateStep ==
    \/ \E cm \in ConfigMaps : InformConfigMap(cm) \/ TakeEvent(cm)
    \/ ReadConfigMap
    \/ handleConfigMapEvent

-----------------------------------------------------------------------------
(* Every event has been handled.                                            *)
TemplatesSettled == cmWorker.pc = "idle" /\ \A cm \in ConfigMaps : events[cm] = 0

(* No two ConfigMaps name the same application, and none changes its own.   *)
OneApplicationEach ==
    \A c, d \in ConfigMaps : \A x \in Contents[c], y \in Contents[d] :
        x.app = None \/ y.app = None \/ (x.app = y.app <=> c = d)

(* The templates follow the ConfigMaps: when the events have been handled,  *)
(* an application has the template its ConfigMap holds now, and none when   *)
(* the ConfigMap is gone, however changes and handling interleave           *)
(* (factory_templateevents.go:67-89, k8swatcher.go:91-115).                 *)
TemplateCurrent ==
    OneApplicationEach /\ TemplatesSettled =>
        \A cm \in ConfigMaps :
            IF configMaps[cm] = None
            THEN templatesByName[cm] = None
                 /\ \A a \in Applications :
                       templatesByApplication[a] # None => templatesByApplication[a].name # cm
            ELSE Loadable(configMaps[cm]) =>
                    templatesByApplication[configMaps[cm].app]
                        = handleConfigMapEventLoad(cm, configMaps[cm])

(* "expected testapp to have been removed from templatesByApplication"      *)
(* (factory_test.go:250): no template is left of a ConfigMap that is gone.  *)
RemovedTemplateIsGone ==
    TemplatesSettled =>
        \A a \in Applications :
            templatesByApplication[a] # None =>
                configMaps[templatesByApplication[a].name] # None
=============================================================================
