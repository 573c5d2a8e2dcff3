--------------------------- MODULE CreateOdpProofs ---------------------------
(***************************************************************************)
(* Proofs about CreateOdp and Templates, for any number of creators,        *)
(* ConfigMaps, applications and groups.                                     *)
(***************************************************************************)
EXTENDS CreateOdp, Sequences, TLAPS

(* The worker has a name while it works, and a template is filed under its  *)
(* own application.                                                         *)
WorkerHasName == cmWorker.pc # "idle" => cmWorker.name \in ConfigMaps

FiledByApplication ==
    \A a \in Applications :
        templatesByApplication[a] # None => templatesByApplication[a].app = a

TemplatesInv == TemplatesTypeOK /\ WorkerHasName /\ FiledByApplication

(* What an attempt has at each stage.                                       *)
HasTemplate(o) ==
    /\ o.pc # "idle" => o.app \in Applications
    /\ o.pc \in {"lookup", "access", "token", "spec", "post", "done", "failed", "undo"} =>
          o.odpTemplate # None /\ o.odpTemplate \in OdpTemplate /\ o.odpTemplate.app = o.app
    /\ o.pc \in {"post", "done", "failed", "undo"} => o.spec = o.odpTemplate

Admitted(o) ==
    /\ o.pc \in {"token", "spec", "post", "done", "failed", "undo"} =>
          o.odpTemplate.groups \cap o.memberOf # {}
    /\ o.pod # None => o.pod.app = o.app /\ o.pod.groups \cap o.memberOf # {}
    /\ o.pc \in {"idle", "template", "lookup", "access", "token", "spec", "post"} => o.pod = None

HasOutcome(o) ==
    /\ o.pc = "ended" /\ ~o.failed => o.pod # None
    /\ o.pc = "done" => o.pod # None

(* Unless somebody else worked on its entry, an attempt knows its token by  *)
(* name from its creation to its end, except when the service gave no name. *)
KeepsToken(c, o) ==
    /\ o.tokenName \in {c, Other, None} /\ o.annotation \in {c, Other, None}
    /\ o.pc \in {"template", "lookup", "access", "token"} =>
          ~o.failed /\ ~o.onServer /\ o.tokenName = None /\ o.mishap = "none"
    /\ o.pc = "token" => o.wants
    /\ o.pc \in {"spec", "post", "done", "failed"} => ~o.failed
    /\ o.pc = "undo" => o.failed
    /\ o.mishap # "shared" =>
          /\ o.pc \in {"spec", "post", "done", "failed"} =>
                /\ o.onServer <=> o.wants
                /\ o.tokenName = IF o.wants /\ o.mishap # "unnamed" THEN c ELSE None
          /\ o.pc \in {"post", "done", "failed"} => o.annotation = o.tokenName
          /\ o.pc = "undo" => (o.onServer => o.tokenName = c \/ o.mishap = "unnamed")
          /\ o.pc = "ended" =>
                /\ ~o.failed =>
                      /\ o.onServer <=> o.wants
                      /\ o.annotation = IF o.wants /\ o.mishap # "unnamed" THEN c ELSE None
                /\ o.onServer /\ o.failed =>
                      \/ o.code \in {TemplateError, TokenError}
                      \/ o.mishap \in {"unnamed", "undo failed"}

Good(c, o) ==
    o \in CreatorStates /\ HasTemplate(o) /\ Admitted(o) /\ HasOutcome(o) /\ KeepsToken(c, o)

IInv == TemplatesInv /\ tsc \in BOOLEAN /\ creator \in [Creators -> CreatorStates]
        /\ \A c \in Creators : Good(c, creator[c])

-----------------------------------------------------------------------------
(* The ConfigMap worker *)

LEMMA StartTemplatesKeepsInv ==
    ASSUME NEW cms \in [ConfigMaps -> ConfigMap \cup {None}], StartTemplates(cms)
    PROVE  TemplatesInv'
BY TemplatesAssumption DEF StartTemplates, TemplatesInv, TemplatesTypeOK, WorkerHasName,
   FiledByApplication, IdleCmWorker

LEMMA LoadedIsTemplate ==
    ASSUME NEW cm \in ConfigMaps, NEW obj \in ConfigMap, Loadable(obj)
    PROVE  /\ handleConfigMapEventLoad(cm, obj) \in OdpTemplate
           /\ handleConfigMapEventLoad(cm, obj).app = obj.app
           /\ obj.app \in Applications
<1>1. obj.app \in Applications BY DEF Loadable, ConfigMap
<1>2. obj.groups \in SUBSET Groups BY DEF Loadable, ConfigMap
<1>3. obj.body \in Bodies \ {"unparsable"} BY DEF Loadable, ConfigMap
<1> QED BY <1>1, <1>2, <1>3 DEF handleConfigMapEventLoad, OdpTemplate

LEMMA HandlingKeepsInv ==
    ASSUME TemplatesInv, handleConfigMapEvent
    PROVE  TemplatesInv'
<1> DEFINE cm == cmWorker.name
           obj == cmWorker.obj
<1>1. cm \in ConfigMaps /\ obj \in ConfigMap \cup {None}
  BY DEF TemplatesInv, TemplatesTypeOK, WorkerHasName, handleConfigMapEvent
<1>2. /\ configMaps' \in [ConfigMaps -> ConfigMap \cup {None}]
      /\ events' \in [ConfigMaps -> 0..MaxEvents]
      /\ cmWorker' = IdleCmWorker
  BY DEF TemplatesInv, TemplatesTypeOK, handleConfigMapEvent
<1>3. /\ templatesByName' \in [ConfigMaps -> OdpTemplate \cup {None}]
      /\ templatesByApplication' \in [Applications -> OdpTemplate \cup {None}]
      /\ FiledByApplication'
  <2> USE DEF TemplatesInv, TemplatesTypeOK, FiledByApplication
  <2>1. CASE obj = None
    <3>1. DeleteTemplate(cm) BY <2>1 DEF handleConfigMapEvent
    <3>2. templatesByName' \in [ConfigMaps -> OdpTemplate \cup {None}]
      BY <3>1, <1>1 DEF DeleteTemplate
    <3>3. /\ templatesByApplication' \in [Applications -> OdpTemplate \cup {None}]
          /\ \A a \in Applications : templatesByApplication'[a] \in {templatesByApplication[a], None}
      BY <3>1, <1>1 DEF DeleteTemplate
    <3> QED BY <3>2, <3>3
  <2>2. CASE obj # None /\ Loadable(obj)
    <3> DEFINE t == handleConfigMapEventLoad(cm, obj)
    <3>1. t \in OdpTemplate /\ t.app = obj.app /\ obj.app \in Applications
      BY <2>2, <1>1, LoadedIsTemplate
    <3>2. /\ templatesByName' = [templatesByName EXCEPT ![cm] = t]
          /\ templatesByApplication' = [templatesByApplication EXCEPT ![obj.app] = t]
      BY <2>2 DEF handleConfigMapEvent, LoadTemplate
    <3> HIDE DEF t
    <3> QED BY <3>1, <3>2, <1>1
  <2>3. CASE obj # None /\ ~Loadable(obj)
    BY <2>3 DEF handleConfigMapEvent, LoadTemplate
  <2> QED BY <2>1, <2>2, <2>3
<1> QED BY <1>2, <1>3 DEF TemplatesInv, TemplatesTypeOK, WorkerHasName, IdleCmWorker

LEMMA TemplateStepKeepsInv ==
    ASSUME TemplatesInv, TemplateStep
    PROVE  TemplatesInv'
<1> USE DEF TemplatesInv, TemplatesTypeOK, WorkerHasName, FiledByApplication
<1>1. ASSUME NEW cm \in ConfigMaps, InformConfigMap(cm) PROVE TemplatesInv'
  <2>1. events' \in [ConfigMaps -> 0..MaxEvents]
    BY <1>1, TemplatesAssumption DEF InformConfigMap, AddEvent
  <2>2. configMaps' \in [ConfigMaps -> ConfigMap \cup {None}]
    <3>1. PICK new \in Contents[cm] \cup {None} : configMaps' = [configMaps EXCEPT ![cm] = new]
      BY <1>1 DEF InformConfigMap
    <3>2. new \in ConfigMap \cup {None} BY <3>1, TemplatesAssumption
    <3> QED BY <3>1, <3>2
  <2>3. UNCHANGED <<cmWorker, templatesByName, templatesByApplication>>
    BY <1>1 DEF InformConfigMap
  <2>4. /\ templatesByName \in [ConfigMaps -> OdpTemplate \cup {None}]
        /\ templatesByApplication \in [Applications -> OdpTemplate \cup {None}]
        /\ cmWorker \in [pc : {"idle", "read", "handle"}, name : ConfigMaps \cup {None},
                         obj : ConfigMap \cup {None}]
    OBVIOUS
  <2>5. TemplatesTypeOK' BY <2>1, <2>2, <2>3, <2>4
  <2>6. WorkerHasName' /\ FiledByApplication' BY <2>3
  <2> QED BY <2>5, <2>6
<1>2. ASSUME NEW cm \in ConfigMaps, TakeEvent(cm) PROVE TemplatesInv'
  BY <1>2, TemplatesAssumption DEF TakeEvent
<1>3. CASE ReadConfigMap
  BY <1>3 DEF ReadConfigMap
<1>4. CASE handleConfigMapEvent
  BY <1>4, HandlingKeepsInv
<1> QED BY <1>1, <1>2, <1>3, <1>4 DEF TemplateStep

-----------------------------------------------------------------------------
LEMMA GoodNext ==
    ASSUME NEW d \in Creators, NEW o, creator'[d] = o, Good(d, o)
    PROVE  Good(d, creator[d])'
<1>1. HasTemplate(creator[d])' BY DEF Good, HasTemplate
<1>2. Admitted(creator[d])' BY DEF Good, Admitted
<1>3. HasOutcome(creator[d])' BY DEF Good, HasOutcome
<1>4. KeepsToken(d, creator[d])' BY DEF Good, KeepsToken
<1>5. creator'[d] \in CreatorStates BY DEF Good
<1> QED BY <1>1, <1>2, <1>3, <1>4, <1>5 DEF Good

(* A step of an attempt: all the others stay as they are; this one becomes  *)
(* new.                                                                     *)

LEMMA GoodStep ==
    ASSUME IInv, NEW c \in Creators, NEW new, creator' = [creator EXCEPT ![c] = new],
           Good(c, new), UNCHANGED tsc, TemplatesInv'
    PROVE  IInv'
<1>1. creator' \in [Creators -> CreatorStates] BY DEF IInv, Good
<1>2. \A d \in Creators : creator'[d] = IF d = c THEN new ELSE creator[d] BY DEF IInv
<1>3. \A d \in Creators : Good(d, creator[d])' BY <1>2, GoodNext DEF IInv
<1> QED BY <1>1, <1>3 DEF IInv

LEMMA CrashKeepsInv == IInv /\ Crash => IInv'
<1> SUFFICES ASSUME IInv, Crash PROVE IInv' OBVIOUS
<1>1. TemplatesInv'
  BY StartTemplatesKeepsInv DEF IInv, TemplatesInv, TemplatesTypeOK, Crash
<1>2. \A c \in Creators : Good(c, IdleCreator)
  BY DEF Good, IdleCreator, CreatorStates, HasTemplate, Admitted, HasOutcome, KeepsToken
<1>3. IdleCreator \in CreatorStates BY DEF IdleCreator, CreatorStates
<1>4. creator' = [c \in Creators |-> IdleCreator] /\ UNCHANGED tsc BY DEF Crash
<1>5. creator' \in [Creators -> CreatorStates] BY <1>3, <1>4
<1>6. \A c \in Creators : creator'[c] = IdleCreator BY <1>4
<1>7. \A c \in Creators : Good(c, creator[c])' BY <1>2, <1>6
<1> QED BY <1>1, <1>4, <1>5, <1>7 DEF IInv

(* An attempt that has no token of its own to look after ends with an error.*)
LEMMA FailingIsGood ==
    ASSUME NEW c \in Creators, NEW o, Good(c, o), NEW code \in 1..5,
           \/ o.pc \in {"template", "lookup", "access"}
           \/ o.pc = "spec" /\ code = TemplateError
    PROVE  Good(c, [o EXCEPT !.pc = "ended", !.code = code, !.failed = TRUE])
<1>0. o \in CreatorStates BY DEF Good
<1> DEFINE new == [o EXCEPT !.pc = "ended", !.code = code, !.failed = TRUE]
<1>1. new \in CreatorStates BY <1>0 DEF CreatorStates, Creating
<1>2. HasTemplate(new) /\ Admitted(new) /\ HasOutcome(new)
  BY <1>0 DEF Good, CreatorStates, HasTemplate, Admitted, HasOutcome
<1>3. /\ new.pc = "ended" /\ new.failed /\ new.code = code
      /\ new.tokenName = o.tokenName /\ new.annotation = o.annotation
      /\ new.onServer = o.onServer /\ new.mishap = o.mishap /\ new.wants = o.wants
  BY <1>0 DEF CreatorStates
<1> HIDE DEF new
<1>4. KeepsToken(c, new) BY <1>3 DEF Good, KeepsToken
<1> QED BY <1>1, <1>2, <1>4 DEF Good, new

LEMMA StagesKeepInv ==
    ASSUME IInv, NEW c \in Creators,
           FindTemplate(c) \/ Lookup(c) \/ CheckAccess(c) \/ getPodSpec(c) \/ getPodSpecFails(c)
    PROVE  IInv'
<1> DEFINE o == creator[c]
<1>0. Good(c, o) /\ o \in CreatorStates /\ creator \in [Creators -> CreatorStates]
  BY DEF IInv
<1>u. UNCHANGED tsc /\ TemplatesInv'
  <2>1. UNCHANGED <<templateVars, tsc>>
    BY DEF FindTemplate, Lookup, CheckAccess, getPodSpec, getPodSpecFails
  <2> QED BY <2>1 DEF IInv, TemplatesInv, TemplatesTypeOK, WorkerHasName, FiledByApplication,
       templateVars
<1>n. {LdapError, TemplateError, NotAuthorisedError} \subseteq 1..5
  BY DEF LdapError, TemplateError, NotAuthorisedError
<1>f. ASSUME NEW code \in {LdapError, TemplateError, NotAuthorisedError},
             creator' = [creator EXCEPT ![c].pc = "ended", ![c].code = code, ![c].failed = TRUE],
             o.pc \in {"template", "lookup", "access"} \/ (o.pc = "spec" /\ code = TemplateError)
      PROVE  IInv'
  <2>1. creator' = [creator EXCEPT ![c] = [o EXCEPT !.pc = "ended", !.code = code, !.failed = TRUE]]
    BY <1>0, <1>f
  <2> QED BY <1>0, <1>u, <1>n, <1>f, <2>1, FailingIsGood, GoodStep
<1>1. CASE FindTemplate(c)
  <2>1. CASE templatesByApplication[o.app] = None
    BY <1>1, <1>f, <2>1 DEF FindTemplate, Fails, At
  <2>2. CASE templatesByApplication[o.app] # None
    <3> DEFINE t == templatesByApplication[o.app]
    <3>1. o.pc = "template" /\ o.app \in Applications
      BY <1>0, <1>1 DEF FindTemplate, At, Good, HasTemplate
    <3>2. t \in OdpTemplate /\ t # None /\ t.app = o.app
      BY <2>2, <3>1 DEF IInv, TemplatesInv, TemplatesTypeOK, FiledByApplication
    <3>3. creator' = [creator EXCEPT ![c] = [o EXCEPT !.pc = "lookup", !.odpTemplate = t]]
      BY <1>0, <1>1, <2>2 DEF FindTemplate
    <3>4. Good(c, [o EXCEPT !.pc = "lookup", !.odpTemplate = t])
      <4> HIDE DEF t
      <4> QED BY <1>0, <3>1, <3>2
            DEF Good, CreatorStates, HasTemplate, Admitted, HasOutcome, KeepsToken
    <3> QED BY <1>u, <3>3, <3>4, GoodStep
  <2> QED BY <2>1, <2>2
<1>2. CASE Lookup(c)
  <2>1. o.pc = "lookup" BY <1>2 DEF Lookup, At
  <2>2. CASE LookupFailed /\ Fails(c, LdapError)
    <3>1. creator' = [creator EXCEPT ![c].pc = "ended", ![c].code = LdapError,
                                     ![c].failed = TRUE]
      BY <2>2 DEF Fails
    <3>2. creator' = [creator EXCEPT
                        ![c] = [o EXCEPT !.pc = "ended", !.code = LdapError, !.failed = TRUE]]
      BY <1>0, <3>1
    <3>3. LdapError \in 1..5 BY <1>n
    <3>4. Good(c, [o EXCEPT !.pc = "ended", !.code = LdapError, !.failed = TRUE])
      BY <1>0, <2>1, <3>3, FailingIsGood
    <3> QED BY <1>u, <3>2, <3>4, GoodStep
  <2>3. ASSUME NEW g \in GroupsFound,
               creator' = [creator EXCEPT ![c].pc = "access", ![c].memberOf = g]
        PROVE  IInv'
    <3>1. g \in SUBSET Groups BY DEF GroupsFound, LdapAnswers
    <3>2. creator' = [creator EXCEPT ![c] = [o EXCEPT !.pc = "access", !.memberOf = g]]
      BY <1>0, <2>3
    <3>3. Good(c, [o EXCEPT !.pc = "access", !.memberOf = g])
      BY <1>0, <2>1, <3>1
         DEF Good, CreatorStates, HasTemplate, Admitted, HasOutcome, KeepsToken
    <3> QED BY <1>u, <3>2, <3>3, GoodStep
  <2> QED BY <1>2, <2>2, <2>3 DEF Lookup
<1>3. CASE CheckAccess(c)
  <2>1. o.pc = "access" BY <1>3 DEF CheckAccess, At
  <2>2. CASE isAccessAllowed(c)
    <3> DEFINE next == IF o.wants THEN "token" ELSE "spec"
    <3>1. creator' = [creator EXCEPT ![c] = [o EXCEPT !.pc = next]]
      BY <1>0, <1>3, <2>2 DEF CheckAccess, Goes
    <3>2. o.odpTemplate.groups \cap o.memberOf # {} BY <2>2 DEF isAccessAllowed
    <3>3. CASE o.wants
      <4>1. Good(c, [o EXCEPT !.pc = "token"])
        BY <1>0, <2>1, <3>2, <3>3
           DEF Good, CreatorStates, HasTemplate, Admitted, HasOutcome, KeepsToken
      <4> QED BY <1>u, <3>1, <3>3, <4>1, GoodStep
    <3>4. CASE ~o.wants
      <4>1. Good(c, [o EXCEPT !.pc = "spec"])
        BY <1>0, <2>1, <3>2, <3>4
           DEF Good, CreatorStates, HasTemplate, Admitted, HasOutcome, KeepsToken
      <4> QED BY <1>u, <3>1, <3>4, <4>1, GoodStep
    <3> QED BY <3>3, <3>4
  <2>3. CASE ~isAccessAllowed(c)
    <3>1. creator' = [creator EXCEPT ![c].pc = "ended", ![c].code = NotAuthorisedError,
                                     ![c].failed = TRUE]
      BY <1>3, <2>3 DEF CheckAccess, Fails
    <3>2. creator' = [creator EXCEPT
                        ![c] = [o EXCEPT !.pc = "ended", !.code = NotAuthorisedError, !.failed = TRUE]]
      BY <1>0, <3>1
    <3>3. NotAuthorisedError \in 1..5 BY <1>n
    <3>4. Good(c, [o EXCEPT !.pc = "ended", !.code = NotAuthorisedError, !.failed = TRUE])
      BY <1>0, <2>1, <3>3, FailingIsGood
    <3> QED BY <1>u, <3>2, <3>4, GoodStep
  <2> QED BY <2>2, <2>3
<1>4. CASE getPodSpec(c)
  <2> DEFINE t == o.odpTemplate
             named == o.tokenName
  <2>1. o.pc = "spec" BY <1>4 DEF getPodSpec, Expands, At
  <2>2. creator' = [creator EXCEPT
            ![c] = [o EXCEPT !.pc = "post", !.spec = t, !.annotation = named]]
    BY <1>0, <1>4 DEF getPodSpec, TemplateInHand
  <2>3. Good(c, [o EXCEPT !.pc = "post", !.spec = t, !.annotation = named])
    BY <1>0, <2>1 DEF Good, CreatorStates, HasTemplate, Admitted, HasOutcome, KeepsToken
  <2> QED BY <1>u, <2>2, <2>3, GoodStep
<1>5. CASE getPodSpecFails(c)
  BY <1>5, <1>f DEF getPodSpecFails, Fails, Expands, TemplateInHand, At
<1> QED BY <1>1, <1>2, <1>3, <1>4, <1>5

(* The token of an attempt: the client returns an error unless the service  *)
(* said that it did what it was asked.                                      *)
LEMMA NoErrorMeansDone ==
    ASSUME NEW method, NEW outcome \in Outcomes(method)
    PROVE  /\ outcome.did \in BOOLEAN
           /\ outcome.result # "error" => outcome.did = TRUE
<1>r. PICK r \in Responses :
          outcome \in {[result |-> processResponse(method, r), did |-> d] : d \in ServiceDid(r)}
  BY DEF Outcomes
<1>1. PICK did \in ServiceDid(r) :
          outcome = [result |-> processResponse(method, r), did |-> did]
  BY <1>r
<1>2. outcome.result = processResponse(method, r) /\ outcome.did = did
  BY <1>1
<1>3. r.arrives \in BOOLEAN /\ r.ok \in BOOLEAN BY <1>r DEF Responses
<1>4. did \in BOOLEAN BY <1>1, <1>3 DEF ServiceDid
<1>5. ASSUME outcome.result # "error" PROVE did = TRUE
  <2>1. ASSUME ~r.arrives \/ ~r.ok PROVE FALSE
    <3>1. processResponse(method, r) = "error" BY <2>1 DEF processResponse
    <3> QED BY <1>2, <1>5, <3>1
  <2>2. r.arrives /\ r.ok BY <2>1
  <2>3. ServiceDid(r) = {r.ok} BY <2>2 DEF ServiceDid
  <2> QED BY <1>1, <1>3, <2>2, <2>3
<1> QED BY <1>2, <1>4, <1>5

LEMMA TokenKeepsInv ==
    ASSUME IInv, NEW c \in Creators, createOdpToken(c)
    PROVE  IInv'
<1> DEFINE o == creator[c]
<1>0. Good(c, o) /\ o \in CreatorStates /\ creator \in [Creators -> CreatorStates]
      /\ o.pc = "token"
  BY DEF IInv, createOdpToken, At
<1>u. UNCHANGED tsc /\ TemplatesInv'
  BY DEF createOdpToken, IInv, TemplatesInv, TemplatesTypeOK, WorkerHasName, FiledByApplication,
       templateVars
<1>1. PICK outcome \in Outcomes("POST") :
         \/ /\ outcome.result = "token"
            /\ creator' = [creator EXCEPT ![c].pc = "spec", ![c].tokenName = c,
                                          ![c].onServer = outcome.did]
         \/ /\ outcome.result = "nameless"
            /\ creator' = [creator EXCEPT ![c].pc = "spec", ![c].tokenName = None,
                                          ![c].onServer = outcome.did,
                                          ![c].mishap = "unnamed"]
         \/ /\ outcome.result = "error"
            /\ creator' = [creator EXCEPT ![c].pc = "ended", ![c].code = TokenError,
                                          ![c].failed = TRUE, ![c].onServer = outcome.did]
  BY DEF createOdpToken
<1>2. PICK did \in BOOLEAN : outcome.did = did BY <1>1, NoErrorMeansDone
<1>3. CASE outcome.result = "token"
  <2>1. did = TRUE
    <3>1. outcome.result # "error" BY <1>3
    <3> QED BY <1>1, <1>2, <3>1, NoErrorMeansDone
  <2>2. creator' = [creator EXCEPT ![c] =
                      [o EXCEPT !.pc = "spec", !.tokenName = c, !.onServer = did]]
    BY <1>0, <1>1, <1>2, <1>3
  <2>3. Good(c, [o EXCEPT !.pc = "spec", !.tokenName = c, !.onServer = did])
    BY <1>0, <2>1, CreatorsAssumption
       DEF Good, CreatorStates, TokenNames, HasTemplate, Admitted, HasOutcome, KeepsToken
  <2> QED BY <1>u, <2>2, <2>3, GoodStep
<1>5. CASE outcome.result = "nameless"
  <2>1. did = TRUE
    <3>1. outcome.result # "error" BY <1>5
    <3> QED BY <1>1, <1>2, <3>1, NoErrorMeansDone
  <2>2. creator' = [creator EXCEPT ![c] =
                      [o EXCEPT !.pc = "spec", !.tokenName = None, !.onServer = did,
                                !.mishap = "unnamed"]]
    BY <1>0, <1>1, <1>2, <1>5
  <2>3. Good(c, [o EXCEPT !.pc = "spec", !.tokenName = None, !.onServer = did,
                          !.mishap = "unnamed"])
    BY <1>0, <2>1, CreatorsAssumption
       DEF Good, CreatorStates, TokenNames, HasTemplate, Admitted, HasOutcome, KeepsToken
  <2> QED BY <1>u, <2>2, <2>3, GoodStep
<1>4. CASE outcome.result \notin {"token", "nameless"}
  <2>1. creator' = [creator EXCEPT ![c] = [o EXCEPT
                      !.pc = "ended", !.code = TokenError, !.failed = TRUE, !.onServer = did]]
    BY <1>0, <1>1, <1>2, <1>4
  <2> DEFINE new == [o EXCEPT !.pc = "ended", !.code = TokenError, !.failed = TRUE, !.onServer = did]
  <2>c. TokenError \in {Creating} \cup (1..5) BY DEF TokenError
  <2>2. new \in CreatorStates
    <3>1. did \in BOOLEAN BY <1>2
    <3> QED BY <1>0, <2>c, <3>1 DEF CreatorStates
  <2>3. HasTemplate(new) /\ Admitted(new) /\ HasOutcome(new)
    BY <1>0 DEF Good, CreatorStates, HasTemplate, Admitted, HasOutcome
  <2>6. /\ new.pc = "ended" /\ new.failed /\ new.code = TokenError
        /\ new.tokenName = o.tokenName /\ new.annotation = o.annotation
    BY <1>0 DEF CreatorStates
  <2>4. KeepsToken(c, new)
    <3> HIDE DEF new
    <3> QED BY <1>0, <2>6 DEF Good, KeepsToken
  <2>5. Good(c, new) BY <2>2, <2>3, <2>4 DEF Good
  <2> QED BY <1>u, <2>1, <2>5, GoodStep
<1> QED BY <1>3, <1>4, <1>5

LEMMA UndoKeepsInv ==
    ASSUME IInv, NEW c \in Creators, Undo(c)
    PROVE  IInv'
<1> DEFINE o == creator[c]
<1>0. Good(c, o) /\ o \in CreatorStates /\ creator \in [Creators -> CreatorStates]
      /\ o.pc = "undo"
  BY DEF IInv, Undo, At
<1>u. UNCHANGED tsc /\ TemplatesInv'
  BY DEF Undo, IInv, TemplatesInv, TemplatesTypeOK, WorkerHasName, FiledByApplication,
       templateVars
<1>1. PICK outcome \in Outcomes("DELETE") :
         creator' = [creator EXCEPT
            ![c].pc = "ended",
            ![c].onServer = @ /\ ~(outcome.did /\ creator[c].tokenName = c),
            ![c].mishap = IF @ = "none" /\ outcome.result = "error"
                          THEN "undo failed" ELSE @]
  BY DEF Undo, deleteOdpToken
<1> DEFINE left == o.onServer /\ ~(outcome.did /\ o.tokenName = c)
           bad == IF o.mishap = "none" /\ outcome.result = "error" THEN "undo failed" ELSE o.mishap
<1>2. outcome.did \in BOOLEAN BY <1>1, NoErrorMeansDone
<1>3. outcome.result # "error" => outcome.did
  BY <1>1, NoErrorMeansDone
<1>4. /\ left \in BOOLEAN /\ bad \in {"none", "unnamed", "undo failed", "shared"}
      /\ bad = "shared" <=> o.mishap = "shared"
      /\ bad # "shared" => (left => bad \in {"unnamed", "undo failed"})
  BY <1>0, <1>2, <1>3 DEF Good, KeepsToken, CreatorStates
<1>5. creator' = [creator EXCEPT ![c] =
                    [o EXCEPT !.pc = "ended", !.onServer = left, !.mishap = bad]]
  BY <1>0, <1>1
<1> HIDE DEF left, bad
<1> DEFINE new == [o EXCEPT !.pc = "ended", !.onServer = left, !.mishap = bad]
<1>6. Good(c, new)
  <2>1. new \in CreatorStates BY <1>0, <1>4 DEF CreatorStates
  <2>2. HasTemplate(new) /\ Admitted(new) /\ HasOutcome(new)
    BY <1>0 DEF Good, CreatorStates, HasTemplate, Admitted, HasOutcome, KeepsToken
  <2>3. /\ new.pc = "ended" /\ new.failed = o.failed /\ new.onServer = left
        /\ new.mishap = bad /\ new.tokenName = o.tokenName /\ new.annotation = o.annotation
    BY <1>0 DEF CreatorStates
  <2>4. KeepsToken(c, new)
    <3> HIDE DEF new
    <3> QED BY <1>0, <1>4, <2>3 DEF Good, KeepsToken
  <2> QED BY <2>1, <2>2, <2>4 DEF Good
<1> QED BY <1>u, <1>5, <1>6, GoodStep

(* The Pod *)
LEMMA PodKeepsToken ==
    ASSUME NEW c \in Creators, NEW o, Good(c, o), NEW new, new.pc \in {"done", "failed"},
           o.pc = "post", new.failed = o.failed, new.onServer = o.onServer,
           new.mishap = o.mishap, new.tokenName = o.tokenName, new.annotation = o.annotation,
           new.wants = o.wants
    PROVE  KeepsToken(c, new)
BY DEF Good, KeepsToken

LEMMA PodKeepsInv ==
    ASSUME IInv, NEW c \in Creators, createPod(c) \/ createPodFails(c)
    PROVE  IInv'
<1> DEFINE o == creator[c]
           p == [o EXCEPT !.pod = o.spec]
<1>0. Good(c, o) /\ o \in CreatorStates /\ creator \in [Creators -> CreatorStates]
      /\ o.pc = "post"
  BY DEF IInv, createPod, createPodFails, At
<1>u. UNCHANGED tsc /\ TemplatesInv'
  <2>1. UNCHANGED <<templateVars, tsc>> BY DEF createPod, createPodFails
  <2> QED BY <2>1 DEF IInv, TemplatesInv, TemplatesTypeOK, WorkerHasName, FiledByApplication,
       templateVars
<1>1. PodIn(c) = [creator EXCEPT ![c] = p] BY <1>0 DEF PodIn
<1>2. o.spec # None /\ o.spec \in OdpTemplate /\ o.spec.app = o.app
      /\ o.spec.groups \cap o.memberOf # {}
  BY <1>0 DEF Good, HasTemplate, Admitted, CreatorStates
<1>3. p \in CreatorStates BY <1>0, <1>2 DEF CreatorStates
<1>4. CASE createPod(c)
  <2>1. creator' = [creator EXCEPT ![c] = [p EXCEPT !.pc = "done"]]
    BY <1>0, <1>1, <1>4 DEF createPod
  <2>2. Good(c, [p EXCEPT !.pc = "done"])
    <3> DEFINE new == [p EXCEPT !.pc = "done"]
    <3>1. new \in CreatorStates BY <1>0, <1>2 DEF CreatorStates
    <3>2. HasTemplate(new) /\ Admitted(new) /\ HasOutcome(new)
      BY <1>0, <1>2 DEF Good, CreatorStates, HasTemplate, Admitted, HasOutcome
    <3>3. /\ new.pc = "done" /\ new.failed = o.failed /\ new.onServer = o.onServer
          /\ new.mishap = o.mishap /\ new.tokenName = o.tokenName
          /\ new.annotation = o.annotation /\ new.wants = o.wants
      BY <1>0 DEF CreatorStates
    <3>4. KeepsToken(c, new)
      <4> HIDE DEF new
      <4> QED BY <1>0, <3>3, PodKeepsToken
    <3> QED BY <3>1, <3>2, <3>4 DEF Good
  <2> QED BY <1>u, <2>1, <2>2, GoodStep
<1>5. CASE createPodFails(c)
  <2>1. CASE creator' = [creator EXCEPT ![c].pc = "failed"]
    <3>1. creator' = [creator EXCEPT ![c] = [o EXCEPT !.pc = "failed"]] BY <1>0, <2>1
    <3>2. Good(c, [o EXCEPT !.pc = "failed"])
      <4> DEFINE new == [o EXCEPT !.pc = "failed"]
      <4>1. new \in CreatorStates BY <1>0, <1>2 DEF CreatorStates
      <4>2. HasTemplate(new) /\ Admitted(new) /\ HasOutcome(new)
        BY <1>0, <1>2 DEF Good, CreatorStates, HasTemplate, Admitted, HasOutcome
      <4>3. /\ new.pc = "failed" /\ new.failed = o.failed /\ new.onServer = o.onServer
            /\ new.mishap = o.mishap /\ new.tokenName = o.tokenName
            /\ new.annotation = o.annotation /\ new.wants = o.wants
        BY <1>0 DEF CreatorStates
      <4>4. KeepsToken(c, new)
        <5> HIDE DEF new
        <5> QED BY <1>0, <4>3, PodKeepsToken
      <4> QED BY <4>1, <4>2, <4>4 DEF Good
    <3> QED BY <1>u, <3>1, <3>2, GoodStep
  <2>2. CASE creator' = [PodIn(c) EXCEPT ![c].pc = "failed"]
    <3>1. creator' = [creator EXCEPT ![c] = [p EXCEPT !.pc = "failed"]] BY <1>0, <1>1, <2>2
    <3>2. Good(c, [p EXCEPT !.pc = "failed"])
      <4> DEFINE new == [p EXCEPT !.pc = "failed"]
      <4>1. new \in CreatorStates BY <1>0, <1>2 DEF CreatorStates
      <4>2. HasTemplate(new) /\ Admitted(new) /\ HasOutcome(new)
        BY <1>0, <1>2 DEF Good, CreatorStates, HasTemplate, Admitted, HasOutcome
      <4>3. /\ new.pc = "failed" /\ new.failed = o.failed /\ new.onServer = o.onServer
            /\ new.mishap = o.mishap /\ new.tokenName = o.tokenName
            /\ new.annotation = o.annotation /\ new.wants = o.wants
        BY <1>0 DEF CreatorStates
      <4>4. KeepsToken(c, new)
        <5> HIDE DEF new
        <5> QED BY <1>0, <4>3, PodKeepsToken
      <4> QED BY <4>1, <4>2, <4>4 DEF Good
    <3> QED BY <1>u, <3>1, <3>2, GoodStep
  <2> QED BY <1>5, <2>1, <2>2 DEF createPodFails
<1> QED BY <1>4, <1>5

(* What the entry is told of the Pod.                                       *)
LEMMA PodResultKeepsInv ==
    ASSUME IInv, NEW c \in Creators, PodCreated(c) \/ PodNotCreated(c)
    PROVE  IInv'
<1> DEFINE o == creator[c]
<1>0. Good(c, o) /\ o \in CreatorStates /\ creator \in [Creators -> CreatorStates]
  BY DEF IInv
<1>u. UNCHANGED tsc /\ TemplatesInv'
  <2>1. UNCHANGED <<templateVars, tsc>> BY DEF PodCreated, PodNotCreated
  <2> QED BY <2>1 DEF IInv, TemplatesInv, TemplatesTypeOK, WorkerHasName, FiledByApplication,
       templateVars
<1>1. CASE PodCreated(c)
  <2>1. o.pc = "done" /\ creator' = [creator EXCEPT ![c] = [o EXCEPT !.pc = "ended"]]
    BY <1>0, <1>1 DEF PodCreated, At, Goes
  <2>2. Good(c, [o EXCEPT !.pc = "ended"])
    <3> DEFINE new == [o EXCEPT !.pc = "ended"]
    <3>1. new \in CreatorStates BY <1>0 DEF CreatorStates
    <3>2. HasTemplate(new) /\ Admitted(new) /\ HasOutcome(new)
      BY <1>0, <2>1 DEF Good, CreatorStates, HasTemplate, Admitted, HasOutcome
    <3>3. /\ new.pc = "ended" /\ new.failed = o.failed /\ new.onServer = o.onServer
          /\ new.mishap = o.mishap /\ new.tokenName = o.tokenName
          /\ new.annotation = o.annotation /\ new.wants = o.wants
      BY <1>0 DEF CreatorStates
    <3>4. KeepsToken(c, new)
      <4> HIDE DEF new
      <4> QED BY <1>0, <2>1, <3>3 DEF Good, KeepsToken
    <3> QED BY <3>1, <3>2, <3>4 DEF Good
  <2> QED BY <1>u, <2>1, <2>2, GoodStep
<1>2. CASE PodNotCreated(c)
  <2> DEFINE new == [o EXCEPT !.pc = "undo", !.code = K8sError, !.failed = TRUE]
  <2>1. o.pc = "failed" /\ creator' = [creator EXCEPT ![c] = new]
    BY <1>0, <1>2 DEF PodNotCreated, At
  <2>c. K8sError \in {Creating} \cup (1..5) BY DEF K8sError
  <2>2. new \in CreatorStates BY <1>0, <2>c DEF CreatorStates
  <2>3. HasTemplate(new) /\ Admitted(new) /\ HasOutcome(new)
    BY <1>0, <2>1 DEF Good, CreatorStates, HasTemplate, Admitted, HasOutcome
  <2>4. KeepsToken(c, new) BY <1>0, <2>1 DEF Good, CreatorStates, KeepsToken
  <2>5. Good(c, new) BY <2>2, <2>3, <2>4 DEF Good
  <2> HIDE DEF new
  <2> QED BY <1>u, <2>1, <2>5, GoodStep
<1> QED BY <1>1, <1>2

(* What others do to the entry leaves the attempt where it is.              *)
LEMMA OthersKeepInv ==
    ASSUME IInv, NEW c \in Creators, OtherStep(c)
    PROVE  IInv'
<1> DEFINE o == creator[c]
<1>0. Good(c, o) /\ o \in CreatorStates /\ creator \in [Creators -> CreatorStates]
      /\ o.pc \in {"spec", "undo"}
  BY DEF IInv, OtherStep, OtherNames, OtherDeletes, ReadsToken
<1>u. UNCHANGED tsc /\ TemplatesInv'
  <2>1. UNCHANGED <<templateVars, tsc>> BY DEF OtherStep, OtherNames, OtherDeletes
  <2> QED BY <2>1 DEF IInv, TemplatesInv, TemplatesTypeOK, WorkerHasName, FiledByApplication,
       templateVars
<1>1. ASSUME NEW name \in {Other, None},
             creator' = [creator EXCEPT ![c].tokenName = name, ![c].mishap = "shared"]
      PROVE  IInv'
  <2>1. creator' = [creator EXCEPT ![c] = [o EXCEPT !.tokenName = name, !.mishap = "shared"]]
    BY <1>1
  <2>2. Good(c, [o EXCEPT !.tokenName = name, !.mishap = "shared"])
    <3> DEFINE new == [o EXCEPT !.tokenName = name, !.mishap = "shared"]
    <3>0. name \in TokenNames \cup {None} BY DEF TokenNames
    <3>1. new \in CreatorStates BY <1>0, <3>0 DEF CreatorStates
    <3>2. HasTemplate(new) /\ Admitted(new) /\ HasOutcome(new)
      BY <1>0 DEF Good, CreatorStates, HasTemplate, Admitted, HasOutcome
    <3>3. /\ new.pc = o.pc /\ new.failed = o.failed /\ new.mishap = "shared"
          /\ new.tokenName = name /\ new.annotation = o.annotation
      BY <1>0 DEF CreatorStates
    <3>4. KeepsToken(c, new)
      <4> HIDE DEF new
      <4> QED BY <1>0, <3>3 DEF Good, KeepsToken
    <3> QED BY <3>1, <3>2, <3>4 DEF Good
  <2> QED BY <1>u, <2>1, <2>2, GoodStep
<1>2. CASE creator' = [creator EXCEPT ![c].onServer = FALSE, ![c].mishap = "shared"]
  <2>0. PICK no : no = FALSE OBVIOUS
  <2>1. creator' = [creator EXCEPT ![c] = [o EXCEPT !.onServer = no, !.mishap = "shared"]]
    BY <1>2, <2>0
  <2>2. Good(c, [o EXCEPT !.onServer = no, !.mishap = "shared"])
    <3> DEFINE new == [o EXCEPT !.onServer = no, !.mishap = "shared"]
    <3>0. no \in BOOLEAN BY <2>0
    <3>1. new \in CreatorStates BY <1>0, <3>0 DEF CreatorStates
    <3>2. HasTemplate(new) /\ Admitted(new) /\ HasOutcome(new)
      BY <1>0 DEF Good, CreatorStates, HasTemplate, Admitted, HasOutcome
    <3>3. /\ new.pc = o.pc /\ new.failed = o.failed /\ new.mishap = "shared"
          /\ new.tokenName = o.tokenName /\ new.annotation = o.annotation
      BY <1>0 DEF CreatorStates
    <3>4. KeepsToken(c, new)
      <4> HIDE DEF new
      <4> QED BY <1>0, <3>3 DEF Good, KeepsToken
    <3> QED BY <3>1, <3>2, <3>4 DEF Good
  <2> QED BY <1>u, <2>1, <2>2, GoodStep
<1> QED BY <1>1, <1>2 DEF OtherStep, OtherNames, OtherDeletes

-----------------------------------------------------------------------------
LEMMA StartKeepsInv ==
    ASSUME IInv, NEW c \in Creators, NEW app \in Applications, NEW wants \in BOOLEAN,
           Start(c, app, wants)
    PROVE  IInv'
<1> DEFINE new == [IdleCreator EXCEPT !.pc = "template", !.app = app, !.wants = wants]
<1>1. creator' = [creator EXCEPT ![c] = new] BY DEF Start
<1>2. Good(c, new)
  BY DEF Good, IdleCreator, CreatorStates, HasTemplate, Admitted, HasOutcome, KeepsToken
<1>3. UNCHANGED tsc /\ TemplatesInv'
  BY DEF Start, IInv, TemplatesInv, TemplatesTypeOK, WorkerHasName, FiledByApplication,
       templateVars
<1> HIDE DEF new
<1> QED BY <1>1, <1>2, <1>3, GoodStep

LEMMA InitInv == Init => IInv
<1> SUFFICES ASSUME Init PROVE IInv OBVIOUS
<1>1. TemplatesInv
  BY TemplatesAssumption DEF Init, InitTemplates, TemplatesInv, TemplatesTypeOK, WorkerHasName,
       FiledByApplication, IdleCmWorker
<1>2. \A c \in Creators : Good(c, IdleCreator)
  BY DEF Good, IdleCreator, CreatorStates, HasTemplate, Admitted, HasOutcome, KeepsToken
<1>3. tsc \in BOOLEAN BY CreateAssumption DEF Init
<1>4. creator = [c \in Creators |-> IdleCreator] BY DEF Init
<1>5. creator \in [Creators -> CreatorStates]
  BY <1>4 DEF IdleCreator, CreatorStates
<1>6. \A c \in Creators : creator[c] = IdleCreator BY <1>4
<1> QED BY <1>1, <1>2, <1>3, <1>5, <1>6 DEF IInv

LEMMA NextKeepsInv == IInv /\ [Next]_vars => IInv'
<1> SUFFICES ASSUME IInv, [Next]_vars PROVE IInv' OBVIOUS
<1>1. ASSUME NEW c \in Creators, NEW app \in Applications, NEW wants \in BOOLEAN,
             Start(c, app, wants)
      PROVE  IInv'
  BY <1>1, StartKeepsInv
<1>2. ASSUME NEW c \in Creators, CreatorStep(c) PROVE IInv'
  <2>1. CASE FindTemplate(c) \/ Lookup(c) \/ CheckAccess(c) \/ getPodSpec(c) \/ getPodSpecFails(c)
    BY <2>1, StagesKeepInv
  <2>2. CASE createOdpToken(c) BY <2>2, TokenKeepsInv
  <2>3. CASE createPod(c) \/ createPodFails(c) BY <2>3, PodKeepsInv
  <2>6. CASE PodCreated(c) \/ PodNotCreated(c) BY <2>6, PodResultKeepsInv
  <2>4. CASE Undo(c) BY <2>4, UndoKeepsInv
  <2>5. CASE TokenPanics(c) \/ getPodSpecPanics(c) \/ UndoPanics(c)
    BY <2>5, CrashKeepsInv DEF TokenPanics, getPodSpecPanics, UndoPanics
  <2> QED BY <1>2, <2>1, <2>2, <2>3, <2>4, <2>5, <2>6 DEF CreatorStep
<1>3. CASE TemplateStep /\ UNCHANGED <<tsc, creator>>
  <2>1. TemplatesInv' BY <1>3, TemplateStepKeepsInv DEF IInv
  <2>2. \A c \in Creators : Good(c, creator[c])' BY <1>3, GoodNext DEF IInv
  <2> QED BY <1>3, <2>1, <2>2 DEF IInv
<1>4. CASE Crash BY <1>4, CrashKeepsInv
<1>6. ASSUME NEW c \in Creators, OtherStep(c) PROVE IInv'
  BY <1>6, OthersKeepInv
<1>5. CASE UNCHANGED vars
  <2>1. TemplatesInv'
    BY <1>5 DEF vars, templateVars, IInv, TemplatesInv, TemplatesTypeOK, WorkerHasName,
         FiledByApplication
  <2>2. \A c \in Creators : Good(c, creator[c])' BY <1>5, GoodNext DEF IInv, vars
  <2> QED BY <1>5, <2>1, <2>2 DEF IInv, vars
<1> QED BY <1>1, <1>2, <1>3, <1>4, <1>5, <1>6 DEF Next

LEMMA InvHolds == Spec => []IInv
BY InitInv, NextKeepsInv, PTL DEF Spec

-----------------------------------------------------------------------------
(* Every state has its type: the worker, the templates and the attempts.    *)
THEOREM CreateTypeCorrect == Spec => []TypeOK
<1>1. IInv => TypeOK BY DEF IInv, TemplatesInv, TypeOK
<1> QED BY InvHolds, <1>1, PTL

(* Whoever gets a Pod is admitted by the template it was made from, and the *)
(* template is one of the requested application.                            *)
THEOREM OnlyAdmitted == Spec => []AdmittedByItsTemplate
<1>1. IInv => AdmittedByItsTemplate BY DEF IInv, Good, Admitted, AdmittedByItsTemplate
<1> QED BY InvHolds, <1>1, PTL

(* No attempt ends without an error or a Pod.                               *)
THEOREM AttemptsHaveOutcomes == Spec => []AttemptHasOutcome
<1>1. IInv => AttemptHasOutcome BY DEF IInv, Good, HasOutcome, AttemptHasOutcome, At
<1> QED BY InvHolds, <1>1, PTL

(* Unless others work on its entry, an attempt's Pod has the token made for *)
(* it, and a token remains without its Pod only in the cases named, the     *)
(* answer without a name among them.                                        *)
THEOREM TokensFollowPods == Spec => []TokenFollowsPod
<1>1. IInv => TokenFollowsPod BY DEF IInv, Good, KeepsToken, TokenFollowsPod, At
<1> QED BY InvHolds, <1>1, PTL

-----------------------------------------------------------------------------
(* TemplateCurrent.  An event that is due will make the worker read the     *)
(* ConfigMap again; one that is in hand was read.  Where neither is so the  *)
(* templates are current.                                                   *)

MayName(cm, a) == \E x \in Contents[cm] : x.app = a

FromContents ==
    /\ \A cm \in ConfigMaps : configMaps[cm] \in Contents[cm] \cup {None}
    /\ cmWorker.pc = "handle" => cmWorker.obj \in Contents[cmWorker.name] \cup {None}
    /\ \A cm \in ConfigMaps : templatesByName[cm] # None => MayName(cm, templatesByName[cm].app)
    /\ \A a \in Applications : templatesByApplication[a] # None =>
          /\ MayName(templatesByApplication[a].name, a)
          /\ templatesByName[templatesByApplication[a].name] # None

Current(cm) ==
    IF configMaps[cm] = None
    THEN /\ templatesByName[cm] = None
         /\ \A a \in Applications :
               templatesByApplication[a] # None => templatesByApplication[a].name # cm
    ELSE Loadable(configMaps[cm]) =>
            templatesByApplication[configMaps[cm].app]
                = handleConfigMapEventLoad(cm, configMaps[cm])

Due(cm) == events[cm] > 0 \/ (cmWorker.pc = "read" /\ cmWorker.name = cm)
InHand(cm) == cmWorker.pc = "handle" /\ cmWorker.name = cm

CurrentUnlessDue ==
    \A cm \in ConfigMaps :
        \/ Due(cm)
        \/ InHand(cm) /\ cmWorker.obj = configMaps[cm]
        \/ ~InHand(cm) /\ Current(cm)

CurrentInv == FromContents /\ CurrentUnlessDue

LEMMA OneName ==
    ASSUME OneApplicationEach, NEW c \in ConfigMaps, NEW d \in ConfigMaps,
           NEW a \in Applications, NEW b \in Applications, MayName(c, a), MayName(d, b)
    PROVE  a = b <=> c = d
BY TemplatesAssumption DEF OneApplicationEach, MayName

LEMMA StartIsCurrent ==
    ASSUME TemplatesInv, FromContents, StartTemplates(configMaps)
    PROVE  CurrentInv'
<1>1. /\ configMaps' = configMaps /\ cmWorker' = IdleCmWorker
      /\ \A cm \in ConfigMaps : /\ templatesByName'[cm] = None
                                /\ events'[cm] = IF configMaps[cm] = None THEN 0 ELSE 1
      /\ \A a \in Applications : templatesByApplication'[a] = None
  BY DEF StartTemplates
<1>2. FromContents' BY <1>1 DEF FromContents, IdleCmWorker
<1>3. CurrentUnlessDue' BY <1>1 DEF CurrentUnlessDue, Due, InHand, Current, IdleCmWorker
<1> QED BY <1>2, <1>3 DEF CurrentInv

LEMMA EventIsHandled ==
    ASSUME OneApplicationEach, TemplatesInv, CurrentInv, handleConfigMapEvent
    PROVE  CurrentInv'
<1> DEFINE cm == cmWorker.name
           obj == cmWorker.obj
<1>1. /\ cm \in ConfigMaps /\ obj \in ConfigMap \cup {None} /\ cmWorker.pc = "handle"
      /\ obj \in Contents[cm] \cup {None}
      /\ UNCHANGED <<configMaps, events>> /\ cmWorker' = IdleCmWorker
  BY DEF TemplatesInv, TemplatesTypeOK, WorkerHasName, CurrentInv, FromContents,
         handleConfigMapEvent
<1>2. /\ templatesByName \in [ConfigMaps -> OdpTemplate \cup {None}]
      /\ templatesByApplication \in [Applications -> OdpTemplate \cup {None}]
      /\ \A d \in ConfigMaps : configMaps[d] \in ConfigMap \cup {None}
      /\ \A a \in Applications :
            templatesByApplication[a] # None => templatesByApplication[a].name \in ConfigMaps
      /\ \A d \in ConfigMaps :
            templatesByName[d] # None => templatesByName[d].app \in Applications
  BY DEF TemplatesInv, TemplatesTypeOK, OdpTemplate
<1>c. \A d \in ConfigMaps : Contents[d] \subseteq ConfigMap BY TemplatesAssumption
(* What is filed under an application is of the ConfigMap that names it.    *)
<1>3. ASSUME NEW a \in Applications, NEW d \in ConfigMaps, MayName(d, a),
             templatesByApplication[a] # None
      PROVE  templatesByApplication[a].name = d
  BY <1>2, <1>3, OneName DEF CurrentInv, FromContents
<1>4. \A d \in ConfigMaps : Due(d)' <=> events[d] > 0
  BY <1>1 DEF Due, IdleCmWorker
<1>5. \A d \in ConfigMaps : ~InHand(d)' BY <1>1 DEF InHand, IdleCmWorker
<1>6. \A d \in ConfigMaps : Due(d) <=> events[d] > 0 BY <1>1 DEF Due
<1>7. CASE obj = None
  <2>1. DeleteTemplate(cm) BY <1>7 DEF handleConfigMapEvent
  <2>2. \A d \in ConfigMaps : templatesByName'[d] = IF d = cm THEN None ELSE templatesByName[d]
    BY <1>2, <2>1 DEF DeleteTemplate
  <2>3. \A a \in Applications :
           templatesByApplication'[a] =
              IF templatesByName[cm] # None /\ templatesByName[cm].app = a THEN None
              ELSE templatesByApplication[a]
    BY <1>1, <1>2, <2>1 DEF DeleteTemplate
  <2>4. ASSUME NEW a \in Applications, templatesByApplication'[a] # None
        PROVE  templatesByApplication'[a] = templatesByApplication[a]
               /\ templatesByApplication[a].name # cm
    <3>1. templatesByApplication'[a] = templatesByApplication[a] BY <2>3, <2>4
    <3>2. ASSUME templatesByApplication[a].name = cm PROVE FALSE
      <4>1. templatesByName[cm] # None /\ MayName(cm, a)
        BY <2>4, <3>1, <3>2 DEF CurrentInv, FromContents
      <4>2. MayName(cm, templatesByName[cm].app)
        BY <1>1, <4>1 DEF CurrentInv, FromContents
      <4>3. templatesByName[cm].app = a BY <1>1, <1>2, <4>1, <4>2, OneName
      <4> QED BY <2>3, <2>4, <4>1, <4>3
    <3> QED BY <3>1, <3>2
  <2>5. FromContents'
    <3>1. \A a \in Applications : templatesByApplication'[a] # None =>
             /\ MayName(templatesByApplication'[a].name, a)
             /\ templatesByName'[templatesByApplication'[a].name] # None
      BY <1>2, <2>2, <2>4 DEF CurrentInv, FromContents
    <3>2. \A d \in ConfigMaps : templatesByName'[d] # None => MayName(d, templatesByName'[d].app)
      BY <2>2 DEF CurrentInv, FromContents
    <3>3. /\ \A d \in ConfigMaps : configMaps'[d] \in Contents[d] \cup {None}
          /\ cmWorker'.pc # "handle"
      BY <1>1 DEF CurrentInv, FromContents, IdleCmWorker
    <3> QED BY <3>1, <3>2, <3>3 DEF FromContents, MayName
  <2>6. ASSUME NEW d \in ConfigMaps, ~Due(d)' PROVE Current(d)'
    <3>1. CASE d = cm
      <4>1. configMaps'[d] = None
        BY <1>1, <1>4, <1>6, <1>7, <2>6, <3>1 DEF CurrentInv, CurrentUnlessDue, InHand
      <4> QED BY <2>2, <2>4, <3>1, <4>1 DEF Current
    <3>2. CASE d # cm
      <4>1. Current(d)
        BY <1>1, <1>4, <1>6, <2>6, <3>2 DEF CurrentInv, CurrentUnlessDue, InHand
      <4>2. CASE configMaps[d] = None
        BY <1>1, <2>2, <2>4, <3>2, <4>1, <4>2 DEF Current
      <4>3. CASE configMaps[d] # None /\ Loadable(configMaps[d])
        <5> DEFINE a == configMaps[d].app
        <5>1. a \in Applications /\ MayName(d, a)
          BY <1>2, <4>3 DEF Loadable, ConfigMap, MayName, CurrentInv, FromContents
        <5>2. ~(templatesByName[cm] # None /\ templatesByName[cm].app = a)
          BY <1>1, <1>2, <3>2, <5>1, OneName DEF CurrentInv, FromContents
        <5>3. templatesByApplication'[a] = templatesByApplication[a] BY <2>3, <5>1, <5>2
        <5> QED BY <1>1, <4>1, <4>3, <5>3 DEF Current, handleConfigMapEventLoad
      <4>4. CASE configMaps[d] # None /\ ~Loadable(configMaps[d])
        BY <1>1, <4>4 DEF Current, Loadable
      <4> QED BY <4>2, <4>3, <4>4
    <3> QED BY <3>1, <3>2
  <2> QED BY <1>5, <2>5, <2>6 DEF CurrentInv, CurrentUnlessDue
<1>8. CASE obj # None /\ Loadable(obj)
  <2> DEFINE t == handleConfigMapEventLoad(cm, obj)
             b == obj.app
  <2>1. t.name = cm /\ t.app = b /\ b \in Applications /\ MayName(cm, b)
    <3>1. b \in Applications BY <1>1, <1>8 DEF Loadable, ConfigMap
    <3>2. MayName(cm, b) BY <1>1, <1>8 DEF MayName
    <3>3. t.name = cm /\ t.app = b BY DEF handleConfigMapEventLoad
    <3> QED BY <3>1, <3>2, <3>3
  <2>2. /\ templatesByName' = [templatesByName EXCEPT ![cm] = t]
        /\ templatesByApplication' = [templatesByApplication EXCEPT ![b] = t]
    BY <1>8 DEF handleConfigMapEvent, LoadTemplate
  <2>m. configMaps[cm] = obj => configMaps[cm].app = b
                                /\ handleConfigMapEventLoad(cm, configMaps[cm]) = t
    OBVIOUS
  <2> HIDE DEF t, b
  <2>3. /\ \A d \in ConfigMaps : templatesByName'[d] = IF d = cm THEN t ELSE templatesByName[d]
        /\ \A a \in Applications :
              templatesByApplication'[a] = IF a = b THEN t ELSE templatesByApplication[a]
    BY <1>1, <1>2, <2>1, <2>2
  <2>4. FromContents'
    <3>1. ASSUME NEW a \in Applications, templatesByApplication'[a] # None
          PROVE  /\ MayName(templatesByApplication'[a].name, a)
                 /\ templatesByName'[templatesByApplication'[a].name] # None
      <4>1. CASE a = b BY <1>1, <2>1, <2>3, <3>1, <4>1
      <4>2. CASE a # b
        <5>1. templatesByApplication'[a] = templatesByApplication[a] BY <2>3, <4>2
        <5>2. templatesByApplication[a].name # cm
          BY <1>1, <1>3, <2>1, <3>1, <4>2, <5>1, OneName DEF CurrentInv, FromContents
        <5> QED BY <1>2, <2>3, <3>1, <5>1, <5>2 DEF CurrentInv, FromContents
      <4> QED BY <4>1, <4>2
    <3>2. \A d \in ConfigMaps : templatesByName'[d] # None => MayName(d, templatesByName'[d].app)
      BY <2>1, <2>3 DEF CurrentInv, FromContents
    <3>3. /\ \A d \in ConfigMaps : configMaps'[d] \in Contents[d] \cup {None}
          /\ cmWorker'.pc # "handle"
      BY <1>1 DEF CurrentInv, FromContents, IdleCmWorker
    <3> QED BY <3>1, <3>2, <3>3 DEF FromContents, MayName
  <2>5. ASSUME NEW d \in ConfigMaps, ~Due(d)' PROVE Current(d)'
    <3>1. CASE d = cm
      <4>1. configMaps'[d] = obj /\ configMaps[cm] = obj
        BY <1>1, <1>4, <1>6, <2>5, <3>1 DEF CurrentInv, CurrentUnlessDue, InHand
      <4>2. templatesByApplication'[configMaps'[d].app]
               = handleConfigMapEventLoad(d, configMaps'[d])
        BY <1>1, <2>m, <2>1, <2>3, <3>1, <4>1
      <4> QED BY <1>8, <4>1, <4>2 DEF Current
    <3>2. CASE d # cm
      <4>1. Current(d)
        BY <1>1, <1>4, <1>6, <2>5, <3>2 DEF CurrentInv, CurrentUnlessDue, InHand
      <4>2. CASE configMaps[d] = None
        BY <1>1, <2>1, <2>3, <3>2, <4>1, <4>2 DEF Current
      <4>3. CASE configMaps[d] # None /\ Loadable(configMaps[d])
        <5> DEFINE a == configMaps[d].app
        <5>1. a \in Applications /\ MayName(d, a)
          BY <1>2, <4>3 DEF Loadable, ConfigMap, MayName, CurrentInv, FromContents
        <5>2. a # b BY <1>1, <2>1, <3>2, <5>1, OneName
        <5>3. templatesByApplication'[a] = templatesByApplication[a] BY <2>3, <5>1, <5>2
        <5> QED BY <1>1, <4>1, <4>3, <5>3 DEF Current
      <4>4. CASE configMaps[d] # None /\ ~Loadable(configMaps[d])
        BY <1>1, <4>4 DEF Current
      <4> QED BY <4>2, <4>3, <4>4
    <3> QED BY <3>1, <3>2
  <2> QED BY <1>5, <2>4, <2>5 DEF CurrentInv, CurrentUnlessDue
<1>9. CASE obj # None /\ ~Loadable(obj)
  <2>1. UNCHANGED <<templatesByName, templatesByApplication>>
    BY <1>9 DEF handleConfigMapEvent, LoadTemplate
  <2>2. FromContents' BY <1>1, <2>1 DEF CurrentInv, FromContents, IdleCmWorker
  <2>3. ASSUME NEW d \in ConfigMaps, ~Due(d)' PROVE Current(d)'
    <3>1. CASE d = cm
      <4>1. configMaps'[d] = obj
        BY <1>1, <1>4, <1>6, <2>3, <3>1 DEF CurrentInv, CurrentUnlessDue, InHand
      <4> QED BY <1>9, <4>1 DEF Current
    <3>2. CASE d # cm
      <4>1. Current(d)
        BY <1>1, <1>4, <1>6, <2>3, <3>2 DEF CurrentInv, CurrentUnlessDue, InHand
      <4> QED BY <1>1, <2>1, <4>1 DEF Current
    <3> QED BY <3>1, <3>2
  <2> QED BY <1>5, <2>2, <2>3 DEF CurrentInv, CurrentUnlessDue
<1> QED BY <1>7, <1>8, <1>9

LEMMA TemplateStepKeepsCurrent ==
    ASSUME OneApplicationEach, TemplatesInv, CurrentInv, TemplateStep
    PROVE  CurrentInv'
<1> USE DEF CurrentInv, FromContents, CurrentUnlessDue, Due, InHand
<1>t. events \in [ConfigMaps -> 0..MaxEvents] /\ MaxEvents \in Nat
      /\ configMaps \in [ConfigMaps -> ConfigMap \cup {None}]
  BY TemplatesAssumption DEF TemplatesInv, TemplatesTypeOK
<1>1. ASSUME NEW cm \in ConfigMaps, InformConfigMap(cm) PROVE CurrentInv'
  <2>1. events'[cm] > 0 /\ \A d \in ConfigMaps \ {cm} : events'[d] = events[d]
    BY <1>1, <1>t DEF InformConfigMap, AddEvent
  <2>2. /\ configMaps'[cm] \in Contents[cm] \cup {None}
        /\ \A d \in ConfigMaps \ {cm} : configMaps'[d] = configMaps[d]
        /\ UNCHANGED <<cmWorker, templatesByName, templatesByApplication>>
    BY <1>1, <1>t DEF InformConfigMap
  <2>3. FromContents' BY <2>2
  <2>4. CurrentUnlessDue' BY <2>1, <2>2 DEF Current
  <2> QED BY <2>3, <2>4
<1>2. ASSUME NEW cm \in ConfigMaps, TakeEvent(cm) PROVE CurrentInv'
  <2>1. /\ cmWorker.pc = "idle" /\ cmWorker'.pc = "read" /\ cmWorker'.name = cm
        /\ \A d \in ConfigMaps \ {cm} : events'[d] = events[d]
        /\ UNCHANGED <<configMaps, templatesByName, templatesByApplication>>
    BY <1>2, <1>t DEF TakeEvent
  <2>2. FromContents' BY <2>1
  <2>3. CurrentUnlessDue' BY <2>1 DEF Current
  <2> QED BY <2>2, <2>3
<1>3. CASE ReadConfigMap
  <2> DEFINE cm == cmWorker.name
  <2>1. /\ cm \in ConfigMaps /\ cmWorker.name = cm /\ cmWorker.pc = "read"
        /\ cmWorker'.pc = "handle" /\ cmWorker'.name = cm /\ cmWorker'.obj = configMaps[cm]
        /\ UNCHANGED <<configMaps, events, templatesByName, templatesByApplication>>
    BY <1>3 DEF ReadConfigMap, TemplatesInv, TemplatesTypeOK, WorkerHasName
  <2> HIDE DEF cm
  <2>2. FromContents' BY <2>1
  <2>3. CurrentUnlessDue' BY <2>1 DEF Current
  <2> QED BY <2>2, <2>3
<1>4. CASE handleConfigMapEvent
  BY <1>4, EventIsHandled
<1> QED BY <1>1, <1>2, <1>3, <1>4 DEF TemplateStep

LEMMA NextKeepsCurrent ==
    OneApplicationEach /\ IInv /\ CurrentInv /\ [Next]_vars => CurrentInv'
<1> SUFFICES ASSUME OneApplicationEach, IInv, CurrentInv, [Next]_vars PROVE CurrentInv'
  OBVIOUS
<1>1. CASE UNCHANGED templateVars
  BY <1>1 DEF templateVars, CurrentInv, FromContents, CurrentUnlessDue, Due, InHand, Current
<1>2. CASE TemplateStep
  BY <1>2, TemplateStepKeepsCurrent DEF IInv
<1>3. CASE Crash
  BY <1>3, StartIsCurrent DEF Crash, IInv, CurrentInv
<1>4. ASSUME NEW c \in Creators, CreatorStep(c) PROVE CurrentInv'
  <2>1. UNCHANGED templateVars \/ Crash
    BY <1>4 DEF CreatorStep, FindTemplate, Lookup, CheckAccess, createOdpToken, TokenPanics,
       getPodSpec, getPodSpecFails, getPodSpecPanics, createPod, createPodFails, PodCreated,
       PodNotCreated, Undo, UndoPanics
  <2> QED BY <1>1, <1>3, <2>1
<1>5. ASSUME NEW c \in Creators, NEW app \in Applications, NEW wants \in BOOLEAN,
             Start(c, app, wants)
      PROVE  CurrentInv'
  BY <1>1, <1>5 DEF Start
<1>6. CASE UNCHANGED vars BY <1>1, <1>6 DEF vars
<1>7. ASSUME NEW c \in Creators, OtherStep(c) PROVE CurrentInv'
  BY <1>1, <1>7 DEF OtherStep, OtherNames, OtherDeletes
<1> QED BY <1>2, <1>3, <1>4, <1>5, <1>6, <1>7 DEF Next

(* When the events are handled, templates are those the ConfigMaps hold.    *)
THEOREM TemplatesStayCurrent == Spec => []TemplateCurrent
<1>1. Init => CurrentInv
  BY DEF Init, InitTemplates, CurrentInv, FromContents, CurrentUnlessDue, Due, InHand, Current,
     IdleCmWorker
<1> DEFINE Inv == OneApplicationEach => CurrentInv
<1>2. Init => Inv BY <1>1
<1>3. IInv /\ Inv /\ [Next]_vars => Inv'
  BY NextKeepsCurrent DEF OneApplicationEach
<1>4. Inv => TemplateCurrent
  <2> SUFFICES ASSUME Inv, OneApplicationEach, TemplatesSettled PROVE \A cm \in ConfigMaps : Current(cm)
    BY DEF TemplateCurrent, Current
  <2>1. CurrentUnlessDue BY DEF CurrentInv
  <2>2. ASSUME NEW cm \in ConfigMaps PROVE ~Due(cm) /\ ~InHand(cm)
    <3>1. events[cm] = 0 /\ cmWorker.pc = "idle" BY DEF TemplatesSettled
    <3> QED BY <3>1 DEF Due, InHand
  <2> QED BY <2>1, <2>2 DEF CurrentUnlessDue
<1> HIDE DEF Inv
<1> QED BY <1>2, <1>3, <1>4, InvHolds, PTL DEF Spec

-----------------------------------------------------------------------------
(* ImplementsFactoryCreator.  ResultCode and ErrorTime are set together,    *)
(* and only where an attempt ends or has its token deleted.                 *)
HasCode(o) ==
    /\ o.failed <=> o.code # Creating
    /\ o.pc \notin {"undo", "ended"} => ~o.failed
    /\ o.pc = "undo" => o.code = K8sError

CodesInv == \A c \in Creators : HasCode(creator[c])

(* No attempt has a result before it has begun.                             *)
LEMMA InitCodes == Init => CodesInv
BY DEF Init, CodesInv, HasCode, IdleCreator

LEMMA CodeStep ==
    ASSUME IInv, CodesInv, NEW c \in Creators, NEW new, HasCode(new),
           creator' = [creator EXCEPT ![c] = new]
    PROVE  CodesInv'
<1>1. \A d \in Creators : creator'[d] = IF d = c THEN new ELSE creator[d] BY DEF IInv
<1> QED BY <1>1 DEF CodesInv, HasCode

LEMMA UndoStep ==
    ASSUME NEW c \in Creators, creator \in [Creators -> CreatorStates], Undo(c)
    PROVE  \E left, bad : creator' = [creator EXCEPT ![c] =
              [creator[c] EXCEPT !.pc = "ended", !.onServer = left, !.mishap = bad]]
<1>1. PICK outcome \in Outcomes("DELETE") :
         creator' = [creator EXCEPT
            ![c].pc = "ended",
            ![c].onServer = @ /\ ~(outcome.did /\ creator[c].tokenName = c),
            ![c].mishap = IF @ = "none" /\ outcome.result = "error"
                          THEN "undo failed" ELSE @]
  BY DEF Undo, deleteOdpToken
<1> DEFINE left == creator[c].onServer /\ ~(outcome.did /\ creator[c].tokenName = c)
           bad == IF creator[c].mishap = "none" /\ outcome.result = "error" THEN "undo failed"
                  ELSE creator[c].mishap
<1>2. creator' = [creator EXCEPT ![c] =
         [creator[c] EXCEPT !.pc = "ended", !.onServer = left, !.mishap = bad]]
  BY <1>1
<1> HIDE DEF left, bad
<1> QED BY <1>2

LEMMA CreatorStepKeepsCodes ==
    ASSUME IInv, CodesInv, NEW c \in Creators, CreatorStep(c)
    PROVE  CodesInv'
<1> DEFINE o == creator[c]
<1>0. HasCode(o) /\ o \in CreatorStates /\ creator \in [Creators -> CreatorStates]
  BY DEF IInv, CodesInv
<1>e. /\ LdapError # Creating /\ TemplateError # Creating /\ TokenError # Creating
      /\ K8sError # Creating /\ NotAuthorisedError # Creating
  BY DEF LdapError, TemplateError, TokenError, K8sError, NotAuthorisedError, Creating
<1>f. ASSUME NEW code, code # Creating, Fails(c, code) PROVE CodesInv'
  <2> DEFINE new == [o EXCEPT !.pc = "ended", !.code = code, !.failed = TRUE]
  <2>1. creator' = [creator EXCEPT ![c] = new] BY <1>0, <1>f DEF Fails
  <2>2. HasCode(new) BY <1>0, <1>f DEF HasCode, CreatorStates
  <2> HIDE DEF new
  <2> QED BY <2>1, <2>2, CodeStep
<1>g. ASSUME NEW pc, pc # "undo", Goes(c, pc), o.pc \notin {"undo", "ended"} PROVE CodesInv'
  <2> DEFINE new == [o EXCEPT !.pc = pc]
  <2>1. creator' = [creator EXCEPT ![c] = new] BY <1>0, <1>g DEF Goes
  <2>2. HasCode(new) BY <1>0, <1>g DEF HasCode, CreatorStates
  <2> HIDE DEF new
  <2> QED BY <2>1, <2>2, CodeStep
<1>1. CASE FindTemplate(c)
  <2>1. CASE Fails(c, TemplateError) BY <1>e, <1>f, <2>1
  <2>2. CASE ~Fails(c, TemplateError)
    <3> DEFINE t == templatesByApplication[o.app]
               new == [o EXCEPT !.pc = "lookup", !.odpTemplate = t]
    <3>1. o.pc = "template" /\ creator' = [creator EXCEPT ![c] = new]
      BY <1>0, <1>1, <2>2 DEF FindTemplate, At
    <3>2. HasCode(new) BY <1>0, <3>1 DEF HasCode, CreatorStates
    <3> HIDE DEF new
    <3> QED BY <3>1, <3>2, CodeStep
  <2> QED BY <2>1, <2>2
<1>2. CASE Lookup(c)
  <2>1. ASSUME NEW g \in GroupsFound,
               creator' = [creator EXCEPT ![c].pc = "access", ![c].memberOf = g]
        PROVE  CodesInv'
    <3> DEFINE new == [o EXCEPT !.pc = "access", !.memberOf = g]
    <3>1. o.pc = "lookup" BY <1>2 DEF Lookup, At
    <3>2. HasCode(new) BY <1>0, <3>1 DEF HasCode, CreatorStates
    <3>3. creator' = [creator EXCEPT ![c] = new] BY <1>0, <2>1
    <3> HIDE DEF new
    <3> QED BY <3>2, <3>3, CodeStep
  <2> QED BY <1>2, <1>e, <1>f, <2>1 DEF Lookup
<1>3. CASE CheckAccess(c)
  <2>1. o.pc = "access" BY <1>3 DEF CheckAccess, At
  <2>2. CASE isAccessAllowed(c)
    <3>1. PICK pc \in {"token", "spec"} : Goes(c, pc) BY <1>3, <2>2 DEF CheckAccess
    <3> QED BY <1>g, <2>1, <3>1
  <2>3. CASE ~isAccessAllowed(c) BY <1>3, <1>e, <1>f, <2>3 DEF CheckAccess
  <2> QED BY <2>2, <2>3
<1>4. CASE createOdpToken(c)
  <2>1. PICK outcome \in Outcomes("POST") :
         \/ creator' = [creator EXCEPT ![c].pc = "spec", ![c].tokenName = c,
                                       ![c].onServer = outcome.did]
         \/ creator' = [creator EXCEPT ![c].pc = "spec", ![c].tokenName = None,
                                       ![c].onServer = outcome.did, ![c].mishap = "unnamed"]
         \/ creator' = [creator EXCEPT ![c].pc = "ended", ![c].code = TokenError,
                                       ![c].failed = TRUE, ![c].onServer = outcome.did]
    BY <1>4 DEF createOdpToken
  <2> DEFINE did == outcome.did
             new == [o EXCEPT !.pc = "spec", !.tokenName = c, !.onServer = did]
             unnamed == [o EXCEPT !.pc = "spec", !.tokenName = None, !.onServer = did,
                                  !.mishap = "unnamed"]
             bad == [o EXCEPT !.pc = "ended", !.code = TokenError, !.failed = TRUE,
                              !.onServer = did]
  <2>2. \/ creator' = [creator EXCEPT ![c] = new]
        \/ creator' = [creator EXCEPT ![c] = unnamed]
        \/ creator' = [creator EXCEPT ![c] = bad]
    BY <1>0, <2>1
  <2>3. o.pc = "token" BY <1>4 DEF createOdpToken, At
  <2>4. HasCode(new) /\ HasCode(unnamed) /\ HasCode(bad)
    <3> HIDE DEF did
    <3> QED BY <1>0, <1>e, <2>3 DEF HasCode, CreatorStates
  <2> HIDE DEF new, unnamed, bad
  <2> QED BY <2>2, <2>4, CodeStep
<1>5. CASE getPodSpec(c)
  <2> DEFINE t == TemplateInHand(c)
             named == o.tokenName
             new == [o EXCEPT !.pc = "post", !.spec = t, !.annotation = named]
  <2>1. o.pc = "spec" /\ creator' = [creator EXCEPT ![c] = new]
    BY <1>0, <1>5 DEF getPodSpec, Expands, At
  <2>2. HasCode(new) BY <1>0, <2>1 DEF HasCode, CreatorStates
  <2> HIDE DEF new
  <2> QED BY <2>1, <2>2, CodeStep
<1>6. CASE getPodSpecFails(c) BY <1>6, <1>e, <1>f DEF getPodSpecFails
<1>7. CASE createPod(c) \/ createPodFails(c)
  <2> DEFINE p == [o EXCEPT !.pod = o.spec]
  <2>1. PICK pc \in {"done", "failed"} :
           \/ creator' = [creator EXCEPT ![c] = [o EXCEPT !.pc = pc]]
           \/ creator' = [creator EXCEPT ![c] = [p EXCEPT !.pc = pc]]
    BY <1>0, <1>7 DEF createPod, createPodFails, PodIn
  <2>2. o.pc = "post" BY <1>7 DEF createPod, createPodFails, At
  <2>3. HasCode([o EXCEPT !.pc = pc]) /\ HasCode([p EXCEPT !.pc = pc])
    BY <1>0, <2>2 DEF HasCode, CreatorStates
  <2> QED BY <2>1, <2>3, CodeStep
<1>8. CASE PodCreated(c) BY <1>8, <1>g DEF PodCreated, At
<1>9. CASE PodNotCreated(c)
  <2> DEFINE new == [o EXCEPT !.pc = "undo", !.code = K8sError, !.failed = TRUE]
  <2>1. creator' = [creator EXCEPT ![c] = new] BY <1>0, <1>9 DEF PodNotCreated
  <2>2. HasCode(new) BY <1>0, <1>e DEF HasCode, CreatorStates
  <2> HIDE DEF new
  <2> QED BY <2>1, <2>2, CodeStep
<1>10. CASE Undo(c)
  <2>1. PICK left, bad : creator' = [creator EXCEPT ![c] =
                            [o EXCEPT !.pc = "ended", !.onServer = left, !.mishap = bad]]
    BY <1>0, <1>10, UndoStep
  <2>2. o.pc = "undo" BY <1>10 DEF Undo, At
  <2>3. HasCode([o EXCEPT !.pc = "ended", !.onServer = left, !.mishap = bad])
    BY <1>0, <2>2 DEF HasCode, CreatorStates
  <2> QED BY <2>1, <2>3, CodeStep
<1>11. CASE TokenPanics(c) \/ getPodSpecPanics(c) \/ UndoPanics(c)
  <2>1. creator' = [d \in Creators |-> IdleCreator]
    BY <1>11 DEF TokenPanics, getPodSpecPanics, UndoPanics, Crash
  <2> QED BY <2>1 DEF CodesInv, HasCode, IdleCreator
<1> QED BY <1>1, <1>2, <1>3, <1>4, <1>5, <1>6, <1>7, <1>8, <1>9, <1>10, <1>11 DEF CreatorStep

LEMMA NextKeepsCodes == IInv /\ CodesInv /\ [Next]_vars => CodesInv'
<1> SUFFICES ASSUME IInv, CodesInv, [Next]_vars PROVE CodesInv' OBVIOUS
<1>1. ASSUME NEW c \in Creators, NEW app \in Applications, NEW wants \in BOOLEAN,
             Start(c, app, wants)
      PROVE  CodesInv'
  <2> DEFINE new == [IdleCreator EXCEPT !.pc = "template", !.app = app, !.wants = wants]
  <2>1. creator' = [creator EXCEPT ![c] = new] BY <1>1 DEF Start
  <2>2. HasCode(new) BY DEF HasCode, IdleCreator
  <2> HIDE DEF new
  <2> QED BY <2>1, <2>2, CodeStep
<1>2. ASSUME NEW c \in Creators, CreatorStep(c) PROVE CodesInv'
  BY <1>2, CreatorStepKeepsCodes
<1>3. CASE Crash
  BY <1>3 DEF Crash, CodesInv, HasCode, IdleCreator
<1>4. CASE UNCHANGED creator
  BY <1>4 DEF CodesInv, HasCode
<1>5. ASSUME NEW c \in Creators, OtherStep(c) PROVE CodesInv'
  <2>1. \A d \in Creators : /\ creator'[d].pc = creator[d].pc
                            /\ creator'[d].code = creator[d].code
                            /\ creator'[d].failed = creator[d].failed
    <3>1. creator \in [Creators -> CreatorStates] BY DEF IInv
    <3>2. CASE OtherNames(c)
      <4>1. PICK name :
               creator' = [creator EXCEPT ![c].tokenName = name, ![c].mishap = "shared"]
        BY <3>2 DEF OtherNames
      <4> DEFINE new == [creator[c] EXCEPT !.tokenName = name, !.mishap = "shared"]
      <4>2. creator' = [creator EXCEPT ![c] = new] BY <4>1
      <4>3. /\ new.pc = creator[c].pc /\ new.code = creator[c].code
            /\ new.failed = creator[c].failed
        BY <3>1 DEF CreatorStates
      <4> HIDE DEF new
      <4> QED BY <3>1, <4>2, <4>3
    <3>3. CASE OtherDeletes(c) BY <3>1, <3>3 DEF OtherDeletes, CreatorStates
    <3> QED BY <1>5, <3>2, <3>3 DEF OtherStep
  <2> QED BY <2>1 DEF CodesInv, HasCode
<1> QED BY <1>1, <1>2, <1>3, <1>4, <1>5 DEF Next, vars

(* A step of one creator is seen at its own name, entry, Pod and token only.*)
LEMMA MapsAlone ==
    ASSUME IInv, NEW c \in Creators, NEW new, creator' = [creator EXCEPT ![c] = new]
    PROVE  /\ creator'[c] = new
           /\ factoryHeap' = [factoryHeap EXCEPT ![c] = FactoryOdp(c)']
           /\ factoryCreators' = [factoryCreators EXCEPT ![c] = FactoryCreator(c)']
           /\ factoryApi' = [factoryApi EXCEPT ![c] = FactoryPod(c)']
           /\ factoryWatch' = [factoryWatch EXCEPT
                    ![c] = IF new.pod = None THEN << >> ELSE <<FactoryPod(c)'>>]
           /\ factoryTokens' = {d \in Creators : IF d = c THEN new.onServer ELSE creator[d].onServer}
<1>1. \A d \in Creators : creator'[d] = IF d = c THEN new ELSE creator[d] BY DEF IInv
<1>2. \A d \in Creators \ {c} : /\ FactoryOdp(d)' = FactoryOdp(d)
                                /\ FactoryCreator(d)' = FactoryCreator(d)
                                /\ FactoryPod(d)' = FactoryPod(d)
  BY <1>1 DEF FactoryOdp, FactoryCreator, FactoryPod
<1>3. factoryHeap' = [factoryHeap EXCEPT ![c] = FactoryOdp(c)'] BY <1>2 DEF factoryHeap
<1>4. factoryCreators' = [factoryCreators EXCEPT ![c] = FactoryCreator(c)']
  BY <1>2 DEF factoryCreators
<1>5. factoryApi' = [factoryApi EXCEPT ![c] = FactoryPod(c)'] BY <1>2 DEF factoryApi
<1>6. factoryWatch' = [factoryWatch EXCEPT
          ![c] = IF new.pod = None THEN << >> ELSE <<FactoryPod(c)'>>]
  BY <1>1, <1>2 DEF factoryWatch
<1>7. factoryTokens' = {d \in Creators : IF d = c THEN new.onServer ELSE creator[d].onServer}
  BY <1>1 DEF factoryTokens
<1> QED BY <1>1, <1>3, <1>4, <1>5, <1>6, <1>7

(* Where the step leaves the Pod alone, Kubernetes is left alone.           *)
LEMMA ServersAlone ==
    ASSUME IInv, NEW c \in Creators, NEW new, creator' = [creator EXCEPT ![c] = new],
           new.pod = creator[c].pod,
           new.pod # None => new.annotation = creator[c].annotation
    PROVE  /\ factoryApi' = factoryApi /\ factoryWatch' = factoryWatch
           /\ new.onServer = creator[c].onServer => factoryTokens' = factoryTokens
<1>1. \A d \in Creators : creator'[d] = IF d = c THEN new ELSE creator[d] BY DEF IInv
<1>2. \A d \in Creators : /\ creator'[d].pod = creator[d].pod
                          /\ creator[d].pod # None =>
                                creator'[d].annotation = creator[d].annotation
  BY <1>1
<1>3. \A d \in Creators : FactoryPod(d)' = FactoryPod(d) BY <1>2 DEF FactoryPod
<1>4. factoryApi' = factoryApi BY <1>3 DEF factoryApi
<1>5. factoryWatch' = factoryWatch BY <1>2, <1>3 DEF factoryWatch
<1>6. ASSUME new.onServer = creator[c].onServer PROVE factoryTokens' = factoryTokens
  <2>1. \A d \in Creators : creator'[d].onServer = creator[d].onServer BY <1>1, <1>6
  <2> QED BY <2>1 DEF factoryTokens
<1> QED BY <1>4, <1>5, <1>6

(* The Pods anybody knows of are those that the attempts have made.         *)
LEMMA PodsAreOfAttempts ==
    ASSUME NEW p \in Factory!PodsInSight
    PROVE  \E d \in Creators : creator[d].pod # None /\ p = FactoryPod(d)
<1>1. p # None BY DEF Factory!PodsInSight
<1>2. CASE \E d \in Creators : p = factoryApi[d]
  BY <1>1, <1>2 DEF factoryApi, FactoryPod
<1>3. CASE \E d \in Creators : p \in Factory!Watched(d)
  <2>1. PICK d \in Creators : p \in Factory!Watched(d) BY <1>3
  <2>2. PICK i \in DOMAIN factoryWatch[d] : p = factoryWatch[d][i]
    BY <2>1 DEF Factory!Watched
  <2>3. factoryWatch[d] = IF creator[d].pod = None THEN << >> ELSE <<FactoryPod(d)>>
    BY DEF factoryWatch
  <2>4. creator[d].pod # None /\ i = 1 BY <2>2, <2>3
  <2> QED BY <2>2, <2>3, <2>4
<1> QED BY <1>1, <1>2, <1>3 DEF Factory!PodsInSight

(* The token and the UID called after a creator are fresh when it needs them.*)
LEMMA TokenIsFresh ==
    ASSUME IInv, NEW c \in Creators, At(c, "token")
    PROVE  c \in Factory!FreshTokens
<1>1. ~creator[c].onServer /\ creator[c].tokenName = None /\ creator[c].pod = None
  BY DEF IInv, Good, Admitted, KeepsToken, At
<1>2. \A d \in Creators : /\ creator[d].tokenName \in {d, Other, None}
                          /\ creator[d].annotation \in {d, Other, None}
  BY DEF IInv, Good, KeepsToken
<1>7. c \in TokenNames /\ c # Other /\ c # None BY CreatorsAssumption DEF TokenNames
<1>3. c \notin factoryTokens BY <1>1 DEF factoryTokens
<1>4. ASSUME NEW p \in Factory!PodsInSight PROVE p.token # c
  <2>1. PICK d \in Creators : creator[d].pod # None /\ p = FactoryPod(d)
    BY PodsAreOfAttempts
  <2>2. p.token = creator[d].annotation BY <2>1 DEF FactoryPod
  <2> QED BY <1>1, <1>2, <1>7, <2>1, <2>2
<1>5. ASSUME NEW d \in Creators PROVE factoryHeap[d].token # c /\ factoryCreators[d].token # c
  <2>1. factoryHeap[d].token = creator[d].tokenName BY DEF factoryHeap, FactoryOdp
  <2>2. factoryCreators[d].token
           = IF creator[d].pc \in {"post", "done", "failed", "undo"}
             THEN creator[d].annotation ELSE None
    BY DEF factoryCreators, FactoryCreator
  <2>3. factoryHeap[d].token # c BY <1>1, <1>2, <1>7, <2>1
  <2>4. d = c => factoryCreators[d].token = None BY <2>2 DEF At
  <2>5. factoryCreators[d].token # c BY <1>2, <1>7, <2>2, <2>4
  <2> QED BY <2>3, <2>5
<1>6. \A o \in Factory!HeldOdps \ {None} : o \in Creators
  BY DEF Factory!HeldOdps, factoryCreators, FactoryCreator
<1> QED BY <1>3, <1>4, <1>5, <1>6, <1>7 DEF Factory!FreshTokens

LEMMA UidIsFresh ==
    ASSUME IInv, NEW c \in Creators, At(c, "post")
    PROVE  c \in Factory!FreshUids
<1>1. creator[c].pod = None BY DEF IInv, Good, Admitted, At
<1>2. ASSUME NEW p \in Factory!PodsInSight PROVE p.uid # c
  <2>1. PICK d \in Creators : creator[d].pod # None /\ p = FactoryPod(d)
    BY PodsAreOfAttempts
  <2>2. p.uid = d BY <2>1 DEF FactoryPod
  <2> QED BY <1>1, <2>1, <2>2
<1> QED BY <1>2 DEF Factory!FreshUids

(* The stages before the token, and what OdpFactory calls them.             *)
Checks == {"template", "lookup", "access"}

(* What a creator of OdpFactory that is at work has in hand.                *)
LEMMA InHandOf ==
    ASSUME IInv, NEW c \in Creators, creator[c].pc \notin {"idle", "ended"}
    PROVE  /\ factoryCreators[c].name = c /\ factoryCreators[c].odp = c
           /\ factoryCreators[c].pc = FactoryPlace[creator[c].pc]
           /\ factoryHeap[c] = FactoryOdp(c)
           /\ creator[c].pc \in DOMAIN FactoryPlace
<1>1. creator[c].pc \in {"idle", "template", "lookup", "access", "token", "spec", "post", "done",
                         "failed", "undo", "ended"}
  BY DEF IInv, CreatorStates
<1> QED BY <1>1 DEF factoryCreators, FactoryCreator, factoryHeap, FactoryPlace

(* FindTemplate, Lookup: still at the checks.                               *)
LEMMA StageRefines ==
    ASSUME IInv, CodesInv, NEW c \in Creators, NEW new,
           creator' = [creator EXCEPT ![c] = new],
           creator[c].pc \in Checks, new.pc \in Checks,
           new.wants = creator[c].wants, new.code = creator[c].code,
           new.failed = creator[c].failed, new.tokenName = creator[c].tokenName,
           new.onServer = creator[c].onServer,
           new.pod = creator[c].pod, new.annotation = creator[c].annotation
    PROVE  UNCHANGED factoryVars
<1>1. creator'[c] = new BY MapsAlone
<1>2. FactoryOdp(c)' = FactoryOdp(c) BY <1>1 DEF FactoryOdp, Checks
<1>3. FactoryCreator(c)' = FactoryCreator(c)
  BY <1>1 DEF FactoryCreator, FactoryPlace, Checks
<1>4. factoryHeap' = factoryHeap BY <1>2, MapsAlone DEF factoryHeap
<1>5. factoryCreators' = factoryCreators BY <1>3, MapsAlone DEF factoryCreators
<1> QED BY <1>4, <1>5, ServersAlone DEF factoryVars

(* The entry of OdpFactory, and what the creators do to it.                 *)
Entry(wants, requested, created, code, err, token) ==
    [wants |-> wants, requested |-> requested, created |-> created, code |-> code, err |-> err,
     token |-> token]

WithToken(f, token)   == [f EXCEPT !.token = token]
WithCreated(f, yes)   == [f EXCEPT !.created = yes]
WithError(f)          == [f EXCEPT !.code = "Failed", !.err = "fresh"]
WithFailedPod(f, yes) == [f EXCEPT !.created = yes, !.code = "Failed", !.err = "fresh"]

LEMMA EntryUpdates ==
    ASSUME NEW wants, NEW requested, NEW created, NEW code, NEW err, NEW token,
           NEW new, NEW yes
    PROVE  LET f == Entry(wants, requested, created, code, err, token) IN
           /\ WithToken(f, new) = Entry(wants, requested, created, code, err, new)
           /\ WithCreated(f, yes) = Entry(wants, requested, yes, code, err, token)
           /\ WithError(f) = Entry(wants, requested, created, "Failed", "fresh", token)
           /\ WithFailedPod(f, yes) = Entry(wants, requested, yes, "Failed", "fresh", token)
<1> DEFINE f == Entry(wants, requested, created, code, err, token)
<1>1. [f EXCEPT !.token = new] = Entry(wants, requested, created, code, err, new) BY DEF Entry
<1>2. [f EXCEPT !.created = yes] = Entry(wants, requested, yes, code, err, token) BY DEF Entry
<1>3. [f EXCEPT !.code = "Failed"] = Entry(wants, requested, created, "Failed", err, token)
  BY DEF Entry
<1>4. [Entry(wants, requested, created, "Failed", err, token) EXCEPT !.err = "fresh"]
        = Entry(wants, requested, created, "Failed", "fresh", token)
  BY DEF Entry
<1>5. [Entry(wants, requested, yes, code, err, token) EXCEPT !.code = "Failed"]
        = Entry(wants, requested, yes, "Failed", err, token)
  BY DEF Entry
<1>6. [Entry(wants, requested, yes, "Failed", err, token) EXCEPT !.err = "fresh"]
        = Entry(wants, requested, yes, "Failed", "fresh", token)
  BY DEF Entry
<1> HIDE DEF f
<1>7. WithFailedPod(f, yes) = Entry(wants, requested, yes, "Failed", "fresh", token)
  BY <1>2, <1>5, <1>6 DEF WithFailedPod
<1>8. WithError(f) = Entry(wants, requested, created, "Failed", "fresh", token)
  BY <1>3, <1>4 DEF WithError
<1>9. WithToken(f, new) = Entry(wants, requested, created, code, err, new)
  BY <1>1 DEF WithToken
<1>10. WithCreated(f, yes) = Entry(wants, requested, yes, code, err, token)
  BY <1>2 DEF WithCreated
<1> QED BY <1>7, <1>8, <1>9, <1>10 DEF f

(* setOdpError and the return, at the stages before the Pod.                *)
LEMMA FailingRefines ==
    ASSUME IInv, NEW c \in Creators, NEW new, creator' = [creator EXCEPT ![c] = new],
           creator[c].pc \in Checks \cup {"token", "spec"}, new.pc = "ended",
           new.failed = TRUE, new.code # Creating, new.code # K8sError,
           new.wants = creator[c].wants, new.tokenName = creator[c].tokenName,
           new.pod = creator[c].pod, new.annotation = creator[c].annotation
    PROVE  /\ Factory!setOdpError(factoryCreators[c].odp)
           /\ Factory!CreatorRests(c)
           /\ factoryApi' = factoryApi /\ factoryWatch' = factoryWatch
           /\ new.onServer = creator[c].onServer => factoryTokens' = factoryTokens
<1> DEFINE o == creator[c]
<1>p. o.pc \notin {"idle", "ended", "undo"} BY DEF Checks
<1>1. creator'[c] = new BY MapsAlone
<1>2. FactoryOdp(c)' = WithError(FactoryOdp(c))
  <2>0. PICK yes : yes = TRUE OBVIOUS
  <2>1. PICK created : created = FALSE OBVIOUS
  <2> DEFINE code0 == IF o.code = Creating THEN "Creating" ELSE "Failed"
             err0 == IF o.failed THEN "fresh" ELSE "none"
             token == o.tokenName
  <2>2. FactoryOdp(c) = Entry(o.wants, yes, created, code0, err0, token)
    <3>1. (o.pc = "undo" \/ (o.pc = "ended" /\ o.code \in {Creating, K8sError})) = created
      BY <1>p, <2>1
    <3> QED BY <2>0, <3>1 DEF FactoryOdp, Entry
  <2>3. FactoryOdp(c)' = Entry(o.wants, yes, created, "Failed", "fresh", token)
    <3>1. (new.pc = "undo" \/ (new.pc = "ended" /\ new.code \in {Creating, K8sError})) = created
      BY <2>1
    <3> QED BY <1>1, <2>0, <3>1 DEF FactoryOdp, Entry
  <2> HIDE DEF code0, err0, token
  <2>4. WithError(Entry(o.wants, yes, created, code0, err0, token))
          = Entry(o.wants, yes, created, "Failed", "fresh", token)
    BY EntryUpdates
  <2> QED BY <2>2, <2>3, <2>4
<1>3. FactoryCreator(c)' = Factory!IdleCreator
  BY <1>1 DEF FactoryCreator, FactoryPlace, Factory!IdleCreator
<1>4. factoryHeap' = [factoryHeap EXCEPT ![c] = FactoryOdp(c)']
      /\ factoryCreators' = [factoryCreators EXCEPT ![c] = FactoryCreator(c)']
  BY MapsAlone
<1>5. factoryCreators[c].odp = c /\ factoryHeap[c] = FactoryOdp(c) BY <1>p, InHandOf
<1>6. factoryHeap' = [factoryHeap EXCEPT ![c].code = "Failed", ![c].err = "fresh"]
  BY <1>2, <1>4, <1>5 DEF WithError
<1>7. Factory!setOdpError(factoryCreators[c].odp) BY <1>5, <1>6 DEF Factory!setOdpError
<1>8. Factory!CreatorRests(c) BY <1>3, <1>4 DEF Factory!CreatorRests
<1>9. factoryApi' = factoryApi /\ factoryWatch' = factoryWatch
     /\ (new.onServer = o.onServer => factoryTokens' = factoryTokens)
  BY ServersAlone
<1> QED BY <1>7, <1>8, <1>9

LEMMA FrameStays ==
    UNCHANGED <<Factory!sharedVars, Factory!creatorFrame>>
BY DEF Factory!sharedVars, Factory!creatorFrame, Factory!controlVars

LEMMA RefusalRefines ==
    ASSUME IInv, NEW c \in Creators, NEW code, code # Creating, code # K8sError,
           creator[c].pc \in Checks, Fails(c, code)
    PROVE  Factory!Refuse(c)
<1> DEFINE o == creator[c]
           new == [o EXCEPT !.pc = "ended", !.code = code, !.failed = TRUE]
<1>0. o \in CreatorStates /\ creator \in [Creators -> CreatorStates] BY DEF IInv
<1>1. creator' = [creator EXCEPT ![c] = new] BY <1>0 DEF Fails
<1>2. /\ new.pc = "ended" /\ new.failed = TRUE /\ new.code = code
      /\ new.wants = o.wants /\ new.tokenName = o.tokenName
      /\ new.pod = o.pod /\ new.annotation = o.annotation /\ new.onServer = o.onServer
  BY <1>0 DEF CreatorStates
<1> HIDE DEF new
<1>3. /\ Factory!setOdpError(factoryCreators[c].odp) /\ Factory!CreatorRests(c)
      /\ factoryApi' = factoryApi /\ factoryWatch' = factoryWatch /\ factoryTokens' = factoryTokens
  BY <1>1, <1>2, FailingRefines
<1>4. Factory!CreatorAt(c, "checks")
  <2>1. o.pc \notin {"idle", "ended"} /\ FactoryPlace[o.pc] = "checks" BY DEF Checks, FactoryPlace
  <2> QED BY <2>1, InHandOf DEF Factory!CreatorAt
<1> QED BY <1>3, <1>4, FrameStays DEF Factory!Refuse, Factory!serverVars

LEMMA ChecksRefine ==
    ASSUME IInv, CodesInv, NEW c \in Creators, FindTemplate(c) \/ Lookup(c)
    PROVE  UNCHANGED factoryVars \/ Factory!Refuse(c)
<1> DEFINE o == creator[c]
<1>0. o \in CreatorStates /\ creator \in [Creators -> CreatorStates] BY DEF IInv
<1>e. /\ LdapError \notin {Creating, K8sError} /\ TemplateError \notin {Creating, K8sError}
  BY DEF LdapError, TemplateError, K8sError, Creating
<1>1. CASE FindTemplate(c)
  <2>1. o.pc = "template" BY <1>1 DEF FindTemplate, At
  <2>2. CASE Fails(c, TemplateError) BY <1>e, <2>1, <2>2, RefusalRefines DEF Checks
  <2>3. CASE ~Fails(c, TemplateError)
    <3> DEFINE t == templatesByApplication[o.app]
               new == [o EXCEPT !.pc = "lookup", !.odpTemplate = t]
    <3>1. creator' = [creator EXCEPT ![c] = new] BY <1>0, <1>1, <2>3 DEF FindTemplate
    <3>2. /\ new.pc \in Checks /\ new.wants = o.wants /\ new.code = o.code
          /\ new.failed = o.failed /\ new.tokenName = o.tokenName /\ new.onServer = o.onServer
          /\ new.pod = o.pod /\ new.annotation = o.annotation
      BY <1>0 DEF CreatorStates, Checks
    <3>3. o.pc \in Checks BY <2>1 DEF Checks
    <3> HIDE DEF new
    <3> QED BY <3>1, <3>2, <3>3, StageRefines
  <2> QED BY <2>2, <2>3
<1>2. CASE Lookup(c)
  <2>1. o.pc = "lookup" BY <1>2 DEF Lookup, At
  <2>2. CASE Fails(c, LdapError) BY <1>e, <2>1, <2>2, RefusalRefines DEF Checks
  <2>3. ASSUME NEW g \in GroupsFound,
               creator' = [creator EXCEPT ![c].pc = "access", ![c].memberOf = g]
        PROVE  UNCHANGED factoryVars
    <3> DEFINE new == [o EXCEPT !.pc = "access", !.memberOf = g]
    <3>1. creator' = [creator EXCEPT ![c] = new] BY <1>0, <2>3
    <3>2. /\ new.pc \in Checks /\ new.wants = o.wants /\ new.code = o.code
          /\ new.failed = o.failed /\ new.tokenName = o.tokenName /\ new.onServer = o.onServer
          /\ new.pod = o.pod /\ new.annotation = o.annotation
      BY <1>0 DEF CreatorStates, Checks
    <3>3. o.pc \in Checks BY <2>1 DEF Checks
    <3> HIDE DEF new
    <3> QED BY <3>1, <3>2, <3>3, StageRefines
  <2> QED BY <1>2, <2>2, <2>3 DEF Lookup
<1> QED BY <1>1, <1>2

(* A step that moves the creator on and leaves the entry as it is.          *)
LEMMA MovingRefines ==
    ASSUME IInv, CodesInv, NEW c \in Creators, NEW pc, Goes(c, pc),
           creator[c].pc \in {"access", "post"},
           pc \in {"token", "spec", "post", "done", "failed"}
    PROVE  /\ factoryHeap' = factoryHeap
           /\ UNCHANGED <<factoryApi, factoryWatch, factoryTokens>>
<1> DEFINE o == creator[c]
           new == [o EXCEPT !.pc = pc]
<1>0. o \in CreatorStates /\ creator \in [Creators -> CreatorStates] BY DEF IInv
<1>1. creator' = [creator EXCEPT ![c] = new] BY <1>0 DEF Goes
<1>2. /\ new.pc = pc /\ new.wants = o.wants /\ new.code = o.code
      /\ new.failed = o.failed /\ new.tokenName = o.tokenName /\ new.onServer = o.onServer
      /\ new.pod = o.pod /\ new.annotation = o.annotation
  BY <1>0 DEF CreatorStates
<1> HIDE DEF new
<1>3. creator'[c] = new /\ factoryHeap' = [factoryHeap EXCEPT ![c] = FactoryOdp(c)']
  BY <1>1, MapsAlone
<1>4. FactoryOdp(c)' = FactoryOdp(c) BY <1>2, <1>3 DEF FactoryOdp
<1>5. factoryHeap' = factoryHeap BY <1>3, <1>4 DEF factoryHeap
<1> QED BY <1>1, <1>2, <1>5, ServersAlone

LEMMA AdmissionRefines ==
    ASSUME IInv, CodesInv, NEW c \in Creators, CheckAccess(c)
    PROVE  Factory!Refuse(c) \/ Factory!Admit(c)
<1> DEFINE o == creator[c]
<1>0. o \in CreatorStates /\ creator \in [Creators -> CreatorStates] BY DEF IInv
<1>1. o.pc = "access" /\ o.tokenName = None BY DEF CheckAccess, At, IInv, Good, KeepsToken
<1>2. CASE ~isAccessAllowed(c)
  <2>1. NotAuthorisedError \notin {Creating, K8sError}
    BY DEF NotAuthorisedError, Creating, K8sError
  <2>2. Fails(c, NotAuthorisedError) BY <1>2 DEF CheckAccess
  <2> QED BY <1>1, <2>1, <2>2, RefusalRefines DEF Checks
<1>3. CASE isAccessAllowed(c)
  <2> DEFINE pc == IF o.wants THEN "token" ELSE "spec"
  <2>1. Goes(c, pc) BY <1>3 DEF CheckAccess
  <2>2. pc \in {"token", "spec"} OBVIOUS
  <2>3. factoryCreators[c].odp = c /\ factoryHeap[c].wants = o.wants
        /\ Factory!CreatorAt(c, "checks")
    <3>1. factoryCreators[c].odp = c /\ factoryCreators[c].pc = FactoryPlace["access"]
          /\ factoryHeap[c] = FactoryOdp(c)
      BY <1>1, InHandOf
    <3>2. FactoryOdp(c).wants = o.wants BY DEF FactoryOdp
    <3>3. FactoryPlace["access"] = "checks" BY DEF FactoryPlace
    <3> QED BY <3>1, <3>2, <3>3 DEF Factory!CreatorAt
  <2>4. FactoryCreator(c) = [pc |-> "checks", name |-> c, odp |-> c, token |-> None]
    BY <1>1 DEF FactoryCreator, FactoryPlace
  <2>5. creator' = [creator EXCEPT ![c] = [o EXCEPT !.pc = pc]]
    BY <1>0, <2>1 DEF Goes
  <2>6. creator'[c] = [o EXCEPT !.pc = pc]
        /\ factoryCreators' = [factoryCreators EXCEPT ![c] = FactoryCreator(c)']
    BY <2>5, MapsAlone
  <2>7. FactoryCreator(c)' = [pc |-> pc, name |-> c, odp |-> c, token |-> None]
    <3>1. creator'[c].pc = pc BY <1>0, <2>6 DEF CreatorStates
    <3> QED BY <2>2, <3>1 DEF FactoryCreator, FactoryPlace
  <2>8. Factory!CreatorGoes(c, pc)
    <3>1. factoryCreators[c] = FactoryCreator(c) BY DEF factoryCreators
    <3>2. [FactoryCreator(c) EXCEPT !.pc = pc] = FactoryCreator(c)'
      <4> HIDE DEF pc
      <4> QED BY <2>4, <2>7
    <3> QED BY <2>6, <3>1, <3>2 DEF Factory!CreatorGoes
  <2>9. factoryHeap' = factoryHeap /\ UNCHANGED <<factoryApi, factoryWatch, factoryTokens>>
    BY <1>1, <2>1, <2>2, MovingRefines
  <2> HIDE DEF pc
  <2> QED BY <2>3, <2>8, <2>9, FrameStays DEF Factory!Admit, Factory!serverVars, pc
<1> QED BY <1>2, <1>3

(* The result of createOdpToken                                             *)
LEMMA TokenRefines ==
    ASSUME IInv, CodesInv, NEW c \in Creators, createOdpToken(c)
    PROVE  Factory!createOdpToken(c) \/ Factory!createOdpTokenFails(c)
<1> DEFINE o == creator[c]
<1>0. o \in CreatorStates /\ creator \in [Creators -> CreatorStates] BY DEF IInv
<1>1. /\ o.pc = "token" /\ o.tokenName = None /\ ~o.onServer /\ ~o.failed /\ o.code = Creating
  BY DEF createOdpToken, At, IInv, Good, KeepsToken, CodesInv, HasCode
<1>2. /\ factoryCreators[c].odp = c /\ Factory!CreatorAt(c, "token")
      /\ factoryHeap[c] = FactoryOdp(c)
  BY <1>1, InHandOf DEF FactoryPlace, Factory!CreatorAt
<1>3. c \in Factory!FreshTokens BY <1>1, TokenIsFresh DEF At
<1>4. PICK outcome \in Outcomes("POST") :
         \/ /\ outcome.result = "token"
            /\ creator' = [creator EXCEPT ![c].pc = "spec", ![c].tokenName = c,
                                          ![c].onServer = outcome.did]
         \/ /\ outcome.result = "nameless"
            /\ creator' = [creator EXCEPT ![c].pc = "spec", ![c].tokenName = None,
                                          ![c].onServer = outcome.did,
                                          ![c].mishap = "unnamed"]
         \/ creator' = [creator EXCEPT ![c].pc = "ended", ![c].code = TokenError,
                                       ![c].failed = TRUE, ![c].onServer = outcome.did]
  BY DEF createOdpToken
<1>5. outcome.did \in BOOLEAN /\ (outcome.result \in {"token", "nameless"} => outcome.did)
  BY NoErrorMeansDone
<1> DEFINE did == outcome.did
<1> HIDE DEF did
(* The token has its name, or the answer lacked it.                         *)
<1>6. ASSUME NEW name \in {c, None}, NEW how, did,
             creator' = [creator EXCEPT ![c] =
                [o EXCEPT !.pc = "spec", !.tokenName = name, !.onServer = did, !.mishap = how]]
      PROVE  Factory!createOdpToken(c)
  <2> DEFINE new == [o EXCEPT !.pc = "spec", !.tokenName = name, !.onServer = did,
                              !.mishap = how]
  <2>1. creator' = [creator EXCEPT ![c] = new] BY <1>6
  <2>2. /\ new.pc = "spec" /\ new.tokenName = name /\ new.onServer = did
        /\ new.wants = o.wants /\ new.code = o.code /\ new.failed = o.failed
        /\ new.pod = o.pod /\ new.annotation = o.annotation
    BY <1>0 DEF CreatorStates
  <2> HIDE DEF new
  <2>3. /\ creator'[c] = new
        /\ factoryHeap' = [factoryHeap EXCEPT ![c] = FactoryOdp(c)']
        /\ factoryCreators' = [factoryCreators EXCEPT ![c] = FactoryCreator(c)']
        /\ factoryTokens' = {d \in Creators : IF d = c THEN new.onServer ELSE creator[d].onServer}
    BY <2>1, MapsAlone
  <2>4. factoryTokens' = factoryTokens \cup {c}
    <3>1. new.onServer BY <1>6, <2>2
    <3> QED BY <2>3, <3>1 DEF factoryTokens
  <2>5. FactoryOdp(c)' = WithToken(FactoryOdp(c), name)
    <3>0. PICK yes : yes = TRUE OBVIOUS
    <3>1. PICK created : created = FALSE OBVIOUS
    <3>2. FactoryOdp(c) = Entry(o.wants, yes, created, "Creating", "none", None)
      <4>1. (o.pc = "undo" \/ (o.pc = "ended" /\ o.code \in {Creating, K8sError})) = created
        BY <1>1, <3>1
      <4> QED BY <1>1, <3>0, <4>1 DEF FactoryOdp, Entry
    <3>3. FactoryOdp(c)' = Entry(o.wants, yes, created, "Creating", "none", name)
      <4>1. (new.pc = "undo" \/ (new.pc = "ended" /\ new.code \in {Creating, K8sError})) = created
        BY <2>2, <3>1
      <4> QED BY <1>1, <2>2, <2>3, <3>0, <4>1 DEF FactoryOdp, Entry
    <3>4. WithToken(Entry(o.wants, yes, created, "Creating", "none", None), name)
            = Entry(o.wants, yes, created, "Creating", "none", name)
      BY EntryUpdates
    <3> QED BY <3>2, <3>3, <3>4
  <2>6. factoryHeap' = [factoryHeap EXCEPT ![factoryCreators[c].odp].token = name]
    BY <1>2, <2>3, <2>5 DEF WithToken
  <2>7. Factory!CreatorGoes(c, "spec")
    <3>1. FactoryCreator(c) = [pc |-> "token", name |-> c, odp |-> c, token |-> None]
      BY <1>1 DEF FactoryCreator, FactoryPlace
    <3>2. FactoryCreator(c)' = [pc |-> "spec", name |-> c, odp |-> c, token |-> None]
      BY <2>2, <2>3 DEF FactoryCreator, FactoryPlace
    <3>3. factoryCreators[c] = FactoryCreator(c) BY DEF factoryCreators
    <3>4. [FactoryCreator(c) EXCEPT !.pc = "spec"] = FactoryCreator(c)' BY <3>1, <3>2
    <3> QED BY <2>3, <3>3, <3>4 DEF Factory!CreatorGoes
  <2>8. UNCHANGED <<factoryApi, factoryWatch>> BY <2>1, <2>2, ServersAlone
  <2>9. name \in {c} \cup (IF "createToken" \in {"createToken", "deleteToken", "createPod"}
                          THEN {None} ELSE {})
    BY <1>6
  <2> QED BY <1>2, <1>3, <2>4, <2>6, <2>7, <2>8, <2>9, FrameStays DEF Factory!createOdpToken
<1>8. CASE outcome.result = "token" /\ creator' = [creator EXCEPT ![c].pc = "spec",
                                  ![c].tokenName = c, ![c].onServer = did]
  <2> DEFINE how == o.mishap
  <2>1. creator' = [creator EXCEPT ![c] =
            [o EXCEPT !.pc = "spec", !.tokenName = c, !.onServer = did, !.mishap = how]]
    BY <1>0, <1>8 DEF CreatorStates
  <2>2. did BY <1>5, <1>8 DEF did
  <2> HIDE DEF how
  <2> QED BY <1>6, <2>1, <2>2
<1>9. CASE outcome.result = "nameless" /\ creator' = [creator EXCEPT ![c].pc = "spec",
                                  ![c].tokenName = None, ![c].onServer = did,
                                  ![c].mishap = "unnamed"]
  <2>1. creator' = [creator EXCEPT ![c] =
            [o EXCEPT !.pc = "spec", !.tokenName = None, !.onServer = did,
                      !.mishap = "unnamed"]]
    BY <1>0, <1>9
  <2>2. did BY <1>5, <1>9 DEF did
  <2> QED BY <1>6, <2>1, <2>2
<1>7. CASE creator' = [creator EXCEPT ![c].pc = "ended", ![c].code = TokenError,
                                      ![c].failed = TRUE, ![c].onServer = did]
  <2> DEFINE new == [o EXCEPT !.pc = "ended", !.code = TokenError, !.failed = TRUE,
                              !.onServer = did]
  <2>1. creator' = [creator EXCEPT ![c] = new] BY <1>0, <1>7
  <2>2. /\ new.pc = "ended" /\ new.failed = TRUE /\ new.onServer = did /\ new.code = TokenError
        /\ new.wants = o.wants /\ new.tokenName = o.tokenName
        /\ new.pod = o.pod /\ new.annotation = o.annotation
    BY <1>0 DEF CreatorStates
  <2> HIDE DEF new
  <2>3. TokenError # Creating /\ TokenError # K8sError BY DEF TokenError, Creating, K8sError
  <2>4. /\ Factory!setOdpError(factoryCreators[c].odp) /\ Factory!CreatorRests(c)
        /\ UNCHANGED <<factoryApi, factoryWatch>>
        /\ new.onServer = o.onServer => factoryTokens' = factoryTokens
    BY <1>1, <2>1, <2>2, <2>3, FailingRefines
  <2>5. factoryTokens' = factoryTokens \/ factoryTokens' = factoryTokens \cup {c}
    <3>1. factoryTokens' = {d \in Creators : IF d = c THEN new.onServer ELSE creator[d].onServer}
      BY <2>1, MapsAlone
    <3>2. did \in BOOLEAN BY <1>5 DEF did
    <3>3. CASE did BY <2>2, <3>1, <3>3 DEF factoryTokens
    <3>4. CASE ~did BY <1>1, <2>2, <3>1, <3>4 DEF factoryTokens
    <3> QED BY <3>3, <3>4
  <2> QED BY <1>2, <1>3, <2>4, <2>5, FrameStays DEF Factory!createOdpTokenFails
<1> QED BY <1>4, <1>7, <1>8, <1>9 DEF did

(* getPodSpec, createPod and PodCreated: the Pod and the token it names.    *)
LEMMA EntryIsLeft ==
    ASSUME IInv, NEW c \in Creators, NEW new, creator' = [creator EXCEPT ![c] = new],
           creator[c].pc \notin {"undo", "ended"}, new.pc \notin {"undo", "ended"},
           new.wants = creator[c].wants, new.code = creator[c].code,
           new.failed = creator[c].failed, new.tokenName = creator[c].tokenName
    PROVE  factoryHeap' = factoryHeap
<1>1. creator'[c] = new /\ factoryHeap' = [factoryHeap EXCEPT ![c] = FactoryOdp(c)']
  BY MapsAlone
<1>2. FactoryOdp(c)' = FactoryOdp(c) BY <1>1 DEF FactoryOdp
<1> QED BY <1>1, <1>2 DEF factoryHeap

(* A creator that has reached the Pod: its place and its copy of the token. *)
LEMMA CreatorMoves ==
    ASSUME IInv, NEW c \in Creators, NEW new, creator' = [creator EXCEPT ![c] = new],
           creator[c].pc \in {"post", "done", "failed"}, new.pc \in {"done", "failed", "undo"},
           new.annotation = creator[c].annotation
    PROVE  Factory!CreatorGoes(c, new.pc)
<1> DEFINE o == creator[c]
           token == o.annotation
<1>1. creator'[c] = new /\ factoryCreators' = [factoryCreators EXCEPT ![c] = FactoryCreator(c)']
  BY MapsAlone
<1>2. PICK place : place = FactoryPlace[o.pc] OBVIOUS
<1>3. FactoryCreator(c) = [pc |-> place, name |-> c, odp |-> c, token |-> token]
  BY <1>2 DEF FactoryCreator
<1>4. FactoryPlace[new.pc] = new.pc BY DEF FactoryPlace
<1>5. FactoryCreator(c)' = [pc |-> new.pc, name |-> c, odp |-> c, token |-> token]
  BY <1>1, <1>4 DEF FactoryCreator
<1>6. [FactoryCreator(c) EXCEPT !.pc = new.pc] = FactoryCreator(c)'
  <2> HIDE DEF token
  <2> QED BY <1>3, <1>5
<1>7. factoryCreators[c] = FactoryCreator(c) BY DEF factoryCreators
<1> QED BY <1>1, <1>6, <1>7 DEF Factory!CreatorGoes

LEMMA SpecRefines ==
    ASSUME IInv, CodesInv, NEW c \in Creators, getPodSpec(c) \/ getPodSpecFails(c)
    PROVE  Factory!getPodSpec(c) \/ Factory!getPodSpecFails(c)
<1> DEFINE o == creator[c]
<1>0. o \in CreatorStates /\ creator \in [Creators -> CreatorStates] BY DEF IInv
<1>1. o.pc = "spec" BY DEF getPodSpec, getPodSpecFails, Expands, At
<1>2. /\ factoryCreators[c].odp = c /\ Factory!CreatorAt(c, "spec")
      /\ factoryHeap[c] = FactoryOdp(c)
  BY <1>1, InHandOf DEF FactoryPlace, Factory!CreatorAt
<1>3. CASE getPodSpecFails(c)
  <2> DEFINE new == [o EXCEPT !.pc = "ended", !.code = TemplateError, !.failed = TRUE]
  <2>1. creator' = [creator EXCEPT ![c] = new] BY <1>0, <1>3 DEF getPodSpecFails, Fails
  <2>2. /\ new.pc = "ended" /\ new.failed = TRUE /\ new.code = TemplateError
        /\ new.wants = o.wants /\ new.tokenName = o.tokenName
        /\ new.pod = o.pod /\ new.annotation = o.annotation /\ new.onServer = o.onServer
    BY <1>0 DEF CreatorStates
  <2> HIDE DEF new
  <2>3. TemplateError # Creating /\ TemplateError # K8sError
    BY DEF TemplateError, Creating, K8sError
  <2>4. /\ Factory!setOdpError(factoryCreators[c].odp) /\ Factory!CreatorRests(c)
        /\ UNCHANGED <<factoryApi, factoryWatch, factoryTokens>>
    BY <1>1, <2>1, <2>2, <2>3, FailingRefines
  <2> QED BY <1>2, <2>4, FrameStays DEF Factory!getPodSpecFails, Factory!serverVars
<1>4. CASE getPodSpec(c)
  <2> DEFINE t == TemplateInHand(c)
             token == o.tokenName
             new == [o EXCEPT !.pc = "post", !.spec = t, !.annotation = token]
  <2>1. creator' = [creator EXCEPT ![c] = new] BY <1>0, <1>4 DEF getPodSpec
  <2>2. /\ new.pc = "post" /\ new.code = o.code /\ new.failed = o.failed
        /\ new.wants = o.wants /\ new.tokenName = o.tokenName
        /\ new.pod = o.pod /\ new.annotation = token /\ new.onServer = o.onServer
    BY <1>0 DEF CreatorStates
  <2>p. new.pod = None BY <1>1, <2>2 DEF IInv, Good, Admitted
  <2> HIDE DEF new
  <2>3. factoryHeap' = factoryHeap BY <1>1, <2>1, <2>2, EntryIsLeft
  <2>4. UNCHANGED <<factoryApi, factoryWatch, factoryTokens>>
    BY <2>1, <2>2, <2>p, ServersAlone
  <2>5. factoryHeap[c].token = token BY <1>2 DEF FactoryOdp
  <2>6. creator'[c] = new
        /\ factoryCreators' = [factoryCreators EXCEPT ![c] = FactoryCreator(c)']
    BY <2>1, MapsAlone
  <2>7. FactoryCreator(c) = [pc |-> "spec", name |-> c, odp |-> c, token |-> None]
    BY <1>1 DEF FactoryCreator, FactoryPlace
  <2>8. FactoryCreator(c)' = [pc |-> "post", name |-> c, odp |-> c, token |-> token]
    BY <2>2, <2>6 DEF FactoryCreator, FactoryPlace
  <2>9. [FactoryCreator(c) EXCEPT !.pc = "post", !.token = token] = FactoryCreator(c)'
    <3> HIDE DEF token
    <3>1. [FactoryCreator(c) EXCEPT !.pc = "post"]
            = [pc |-> "post", name |-> c, odp |-> c, token |-> None]
      BY <2>7
    <3>2. [[pc |-> "post", name |-> c, odp |-> c, token |-> None] EXCEPT !.token = token]
            = FactoryCreator(c)'
      BY <2>8
    <3> QED BY <3>1, <3>2
  <2>10. factoryCreators[c] = FactoryCreator(c) BY DEF factoryCreators
  <2>11. factoryCreators' = [factoryCreators EXCEPT ![c].pc = "post",
                                                    ![c].token = factoryHeap[c].token]
    <3> HIDE DEF token
    <3> QED BY <2>5, <2>6, <2>9, <2>10
  <2> QED BY <1>2, <2>3, <2>4, <2>11, FrameStays DEF Factory!getPodSpec, Factory!serverVars
<1> QED BY <1>3, <1>4

(* One change fits the channel of a name that has none.                     *)
LEMMA WatchTakesOne ==
    ASSUME NEW w, w = << >>, NEW p
    PROVE  (IF Len(w) < 1 THEN Append(w, p) ELSE [w EXCEPT ![1] = p]) = <<p>>
OBVIOUS

(* The Pod that the call makes in Kubernetes, and the informer is told of.  *)
LEMMA PostRefines ==
    ASSUME IInv, NEW c \in Creators, NEW new, creator' = [creator EXCEPT ![c] = new],
           At(c, "post"), new.pod = creator[c].spec, new.annotation = creator[c].annotation
    PROVE  Factory!PostPod(c)
<1> DEFINE o == creator[c]
           p == [uid |-> c, phase |-> "Pending", token |-> o.annotation]
<1>1. o.pc = "post" /\ o.pod = None /\ o.spec # None
  BY DEF At, IInv, Good, Admitted, HasTemplate
<1>2. factoryCreators[c].name = c BY <1>1, InHandOf
<1>3. factoryCreators[c].token = o.annotation
  BY <1>1 DEF factoryCreators, FactoryCreator
<1>4. c \in Factory!FreshUids BY <1>1, UidIsFresh
<1>5. factoryApi[c] = None /\ factoryWatch[c] = << >>
  BY <1>1 DEF factoryApi, factoryWatch, FactoryPod
<1>6. creator'[c] = new
      /\ factoryApi' = [factoryApi EXCEPT ![c] = FactoryPod(c)']
      /\ factoryWatch' = [factoryWatch EXCEPT
              ![c] = IF new.pod = None THEN << >> ELSE <<FactoryPod(c)'>>]
  BY MapsAlone
<1>7. FactoryPod(c)' = p BY <1>1, <1>6 DEF FactoryPod
<1> HIDE DEF p
<1>8. factoryWatch' = [factoryWatch EXCEPT ![c] = <<p>>] BY <1>1, <1>6, <1>7
<1>9. factoryWatch' = [factoryWatch EXCEPT
          ![c] = IF Len(@) < 1 THEN Append(@, p) ELSE [@ EXCEPT ![1] = p]]
  <2>1. (IF Len(factoryWatch[c]) < 1 THEN Append(factoryWatch[c], p)
         ELSE [factoryWatch[c] EXCEPT ![1] = p]) = <<p>>
    BY <1>5, WatchTakesOne
  <2> QED BY <1>8, <2>1
<1>10. Factory!SetPod(c, p) BY <1>6, <1>7, <1>9 DEF Factory!SetPod
<1>11. p = [uid |-> c, phase |-> "Pending", token |-> factoryCreators[c].token]
  BY <1>3 DEF p
<1> QED BY <1>2, <1>4, <1>5, <1>10, <1>11 DEF Factory!PostPod

LEMMA PodRefines ==
    ASSUME IInv, CodesInv, NEW c \in Creators, createPod(c) \/ createPodFails(c)
    PROVE  Factory!createPod(c) \/ Factory!createPodFails(c)
<1> DEFINE o == creator[c]
           p == [o EXCEPT !.pod = o.spec]
<1>0. o \in CreatorStates /\ creator \in [Creators -> CreatorStates] BY DEF IInv
<1>1. o.pc = "post" BY DEF createPod, createPodFails, At
<1>2. Factory!CreatorAt(c, "post")
  BY <1>1, InHandOf DEF FactoryPlace, Factory!CreatorAt
<1>3. ASSUME NEW pc \in {"done", "failed"}, NEW new,
             creator' = [creator EXCEPT ![c] = new],
             new = [o EXCEPT !.pc = pc] \/ new = [p EXCEPT !.pc = pc]
      PROVE  /\ Factory!CreatorGoes(c, pc)
             /\ UNCHANGED <<factoryHeap, factoryTokens>>
             /\ new.pod = o.pod /\ new.annotation = o.annotation => UNCHANGED <<factoryApi, factoryWatch>>
             /\ new = [p EXCEPT !.pc = pc] => Factory!PostPod(c)
  <2>1. /\ new.pc = pc /\ new.code = o.code /\ new.failed = o.failed
        /\ new.wants = o.wants /\ new.tokenName = o.tokenName /\ new.onServer = o.onServer
        /\ new.annotation = o.annotation
    BY <1>0, <1>3 DEF CreatorStates
  <2>2. Factory!CreatorGoes(c, pc) BY <1>1, <1>3, <2>1, CreatorMoves
  <2>3. factoryHeap' = factoryHeap BY <1>1, <1>3, <2>1, EntryIsLeft
  <2>4. factoryTokens' = factoryTokens
    <3>1. factoryTokens' = {d \in Creators : IF d = c THEN new.onServer ELSE creator[d].onServer}
      BY <1>3, MapsAlone
    <3> QED BY <2>1, <3>1 DEF factoryTokens
  <2>5. ASSUME new.pod = o.pod /\ new.annotation = o.annotation PROVE UNCHANGED <<factoryApi, factoryWatch>>
    BY <1>3, <2>5, ServersAlone
  <2>6. ASSUME new = [p EXCEPT !.pc = pc] PROVE Factory!PostPod(c)
    <3>1. new.pod = o.spec /\ new.annotation = o.annotation BY <1>0, <2>6 DEF CreatorStates
    <3> QED BY <1>1, <1>3, <3>1, PostRefines DEF At
  <2> QED BY <2>2, <2>3, <2>4, <2>5, <2>6
<1>4. CASE createPod(c)
  <2> DEFINE new == [p EXCEPT !.pc = "done"]
  <2>1. creator' = [creator EXCEPT ![c] = new] BY <1>0, <1>4 DEF createPod, PodIn
  <2>2. Factory!CreatorGoes(c, "done") /\ Factory!PostPod(c)
        /\ UNCHANGED <<factoryHeap, factoryTokens>>
    BY <1>3, <2>1
  <2> QED BY <1>2, <2>2, FrameStays DEF Factory!createPod
<1>5. CASE createPodFails(c)
  <2>1. \/ creator' = [creator EXCEPT ![c] = [o EXCEPT !.pc = "failed"]]
        \/ creator' = [creator EXCEPT ![c] = [p EXCEPT !.pc = "failed"]]
    BY <1>0, <1>5 DEF createPodFails, PodIn
  <2>2. CASE creator' = [creator EXCEPT ![c] = [p EXCEPT !.pc = "failed"]]
    <3>1. Factory!CreatorGoes(c, "failed") /\ Factory!PostPod(c)
          /\ UNCHANGED <<factoryHeap, factoryTokens>>
      BY <1>3, <2>2
    <3> QED BY <1>2, <3>1, FrameStays DEF Factory!createPodFails
  <2>3. CASE creator' = [creator EXCEPT ![c] = [o EXCEPT !.pc = "failed"]]
    <3> DEFINE new == [o EXCEPT !.pc = "failed"]
    <3>1. new.pod = o.pod /\ new.annotation = o.annotation BY <1>0 DEF CreatorStates
    <3>2. Factory!CreatorGoes(c, "failed")
          /\ UNCHANGED <<factoryHeap, factoryTokens, factoryApi, factoryWatch>>
      BY <1>3, <2>3, <3>1
    <3> QED BY <1>2, <3>2, FrameStays DEF Factory!createPodFails
  <2> QED BY <2>1, <2>2, <2>3
<1> QED BY <1>4, <1>5

(* What is written to the entry once the call has returned.                 *)
LEMMA PodResultRefines ==
    ASSUME IInv, CodesInv, NEW c \in Creators, PodCreated(c) \/ PodNotCreated(c)
    PROVE  Factory!PodCreated(c) \/ Factory!PodNotCreated(c)
<1> DEFINE o == creator[c]
           token == o.tokenName
<1>0. o \in CreatorStates /\ creator \in [Creators -> CreatorStates] BY DEF IInv
<1>1. o.pc \in {"done", "failed"} /\ ~o.failed /\ o.code = Creating
  BY DEF PodCreated, PodNotCreated, At, CodesInv, HasCode
<1>2. /\ factoryCreators[c].odp = c /\ factoryCreators[c].pc = o.pc
      /\ factoryHeap[c] = FactoryOdp(c)
  BY <1>1, InHandOf DEF FactoryPlace
<1>3. PICK yes : yes = TRUE OBVIOUS
<1>4. PICK created : created = FALSE OBVIOUS
<1>5. FactoryOdp(c) = Entry(o.wants, yes, created, "Creating", "none", token)
  <2>1. (o.pc = "undo" \/ (o.pc = "ended" /\ o.code \in {Creating, K8sError})) = created
    BY <1>1, <1>4
  <2> QED BY <1>1, <1>3, <2>1 DEF FactoryOdp, Entry
<1>6. CASE PodCreated(c)
  <2> DEFINE new == [o EXCEPT !.pc = "ended"]
  <2>1. creator' = [creator EXCEPT ![c] = new] BY <1>0, <1>6 DEF PodCreated, Goes
  <2>2. /\ new.pc = "ended" /\ new.failed = o.failed /\ new.code = o.code
        /\ new.wants = o.wants /\ new.tokenName = o.tokenName
        /\ new.pod = o.pod /\ new.annotation = o.annotation /\ new.onServer = o.onServer
    BY <1>0 DEF CreatorStates
  <2> HIDE DEF new
  <2>3. /\ creator'[c] = new
        /\ factoryHeap' = [factoryHeap EXCEPT ![c] = FactoryOdp(c)']
        /\ factoryCreators' = [factoryCreators EXCEPT ![c] = FactoryCreator(c)']
    BY <2>1, MapsAlone
  <2>4. FactoryOdp(c)' = Entry(o.wants, yes, yes, "Creating", "none", token)
    <3>1. (new.pc = "undo" \/ (new.pc = "ended" /\ new.code \in {Creating, K8sError})) = yes
      BY <1>1, <1>3, <2>2
    <3> QED BY <1>1, <1>3, <2>2, <2>3, <3>1 DEF FactoryOdp, Entry
  <2>5. FactoryOdp(c)' = WithCreated(FactoryOdp(c), yes)
    <3> HIDE DEF token
    <3>1. WithCreated(Entry(o.wants, yes, created, "Creating", "none", token), yes)
            = Entry(o.wants, yes, yes, "Creating", "none", token)
      BY EntryUpdates
    <3> QED BY <1>5, <2>4, <3>1
  <2>6. factoryHeap' = [factoryHeap EXCEPT ![c].created = yes]
    BY <1>2, <2>3, <2>5 DEF WithCreated
  <2>7. factoryHeap' = [factoryHeap EXCEPT ![factoryCreators[c].odp].created = TRUE]
    BY <1>2, <1>3, <2>6
  <2>8. FactoryCreator(c)' = Factory!IdleCreator
    BY <2>2, <2>3 DEF FactoryCreator, FactoryPlace, Factory!IdleCreator
  <2>9. Factory!CreatorRests(c) BY <2>3, <2>8 DEF Factory!CreatorRests
  <2>10. UNCHANGED <<factoryApi, factoryWatch, factoryTokens>> BY <2>1, <2>2, ServersAlone
  <2>11. Factory!CreatorAt(c, "done") BY <1>2, <1>6 DEF PodCreated, At, Factory!CreatorAt
  <2> QED BY <2>7, <2>9, <2>10, <2>11, FrameStays DEF Factory!PodCreated, Factory!serverVars
<1>7. CASE PodNotCreated(c)
  <2> DEFINE new == [o EXCEPT !.pc = "undo", !.code = K8sError, !.failed = TRUE]
  <2>1. creator' = [creator EXCEPT ![c] = new] BY <1>0, <1>7 DEF PodNotCreated
  <2>2. /\ new.pc = "undo" /\ new.failed = TRUE /\ new.code = K8sError
        /\ new.wants = o.wants /\ new.tokenName = o.tokenName
        /\ new.pod = o.pod /\ new.annotation = o.annotation /\ new.onServer = o.onServer
    BY <1>0 DEF CreatorStates
  <2> HIDE DEF new
  <2>3. /\ creator'[c] = new
        /\ factoryHeap' = [factoryHeap EXCEPT ![c] = FactoryOdp(c)']
    BY <2>1, MapsAlone
  <2>4. FactoryOdp(c)' = Entry(o.wants, yes, yes, "Failed", "fresh", token)
    <3>1. (new.pc = "undo" \/ (new.pc = "ended" /\ new.code \in {Creating, K8sError})) = yes
      BY <1>3, <2>2
    <3>2. new.code # Creating BY <2>2 DEF Creating, K8sError
    <3> QED BY <1>3, <2>2, <2>3, <3>1, <3>2 DEF FactoryOdp, Entry
  <2>5. FactoryOdp(c)' = WithFailedPod(FactoryOdp(c), yes)
    <3> HIDE DEF token
    <3>1. WithFailedPod(Entry(o.wants, yes, created, "Creating", "none", token), yes)
            = Entry(o.wants, yes, yes, "Failed", "fresh", token)
      BY EntryUpdates
    <3> QED BY <1>5, <2>4, <3>1
  <2>6. factoryHeap' = [factoryHeap EXCEPT ![c].created = yes, ![c].code = "Failed",
                                           ![c].err = "fresh"]
    BY <1>2, <2>3, <2>5 DEF WithFailedPod
  <2>7. factoryHeap' = [factoryHeap EXCEPT ![factoryCreators[c].odp].created = TRUE,
                                           ![factoryCreators[c].odp].code = "Failed",
                                           ![factoryCreators[c].odp].err = "fresh"]
    BY <1>2, <1>3, <2>6
  <2>8. Factory!CreatorGoes(c, "undo") BY <1>1, <2>1, <2>2, CreatorMoves
  <2>9. UNCHANGED <<factoryApi, factoryWatch, factoryTokens>> BY <2>1, <2>2, ServersAlone
  <2>10. Factory!CreatorAt(c, "failed") BY <1>2, <1>7 DEF PodNotCreated, At, Factory!CreatorAt
  <2> QED BY <2>7, <2>8, <2>9, <2>10, FrameStays DEF Factory!PodNotCreated, Factory!serverVars
<1> QED BY <1>6, <1>7

(* The token is deleted, or stays when the call fails.                      *)
LEMMA UndoRefines ==
    ASSUME IInv, CodesInv, NEW c \in Creators, Undo(c)
    PROVE  Factory!UndoToken(c)
<1> DEFINE o == creator[c]
<1>0. o \in CreatorStates /\ creator \in [Creators -> CreatorStates] BY DEF IInv
<1>1. o.pc = "undo" /\ o.failed /\ o.code = K8sError
  BY DEF Undo, At, IInv, Good, KeepsToken, CodesInv, HasCode
<1>2. /\ factoryCreators[c].odp = c /\ Factory!CreatorAt(c, "undo")
      /\ factoryHeap[c] = FactoryOdp(c)
  BY <1>1, InHandOf DEF FactoryPlace, Factory!CreatorAt
<1>3. PICK outcome \in Outcomes("DELETE") :
         creator' = [creator EXCEPT
            ![c].pc = "ended",
            ![c].onServer = @ /\ ~(outcome.did /\ creator[c].tokenName = c),
            ![c].mishap = IF @ = "none" /\ outcome.result = "error"
                          THEN "undo failed" ELSE @]
  BY DEF Undo, deleteOdpToken
<1> DEFINE left == o.onServer /\ ~(outcome.did /\ o.tokenName = c)
           bad == IF o.mishap = "none" /\ outcome.result = "error" THEN "undo failed" ELSE o.mishap
           new == [o EXCEPT !.pc = "ended", !.onServer = left, !.mishap = bad]
<1>4. creator' = [creator EXCEPT ![c] = new] BY <1>0, <1>3
<1>5. left \in BOOLEAN OBVIOUS
<1>6. (left = FALSE /\ o.tokenName = c) \/ left = o.onServer BY <1>0 DEF CreatorStates
<1> HIDE DEF left, bad
<1>7. /\ new.pc = "ended" /\ new.failed = o.failed /\ new.code = o.code
      /\ new.wants = o.wants /\ new.tokenName = o.tokenName
      /\ new.pod = o.pod /\ new.annotation = o.annotation /\ new.onServer = left
  BY <1>0 DEF CreatorStates
<1> HIDE DEF new
<1>8. /\ creator'[c] = new
      /\ factoryHeap' = [factoryHeap EXCEPT ![c] = FactoryOdp(c)']
      /\ factoryCreators' = [factoryCreators EXCEPT ![c] = FactoryCreator(c)']
      /\ factoryTokens' = {d \in Creators : IF d = c THEN new.onServer ELSE creator[d].onServer}
  BY <1>4, MapsAlone
<1>9. FactoryOdp(c)' = FactoryOdp(c)
  <2>1. (new.pc = "undo" \/ (new.pc = "ended" /\ new.code \in {Creating, K8sError}))
           = (o.pc = "undo" \/ (o.pc = "ended" /\ o.code \in {Creating, K8sError}))
    BY <1>1, <1>7
  <2> QED BY <1>7, <1>8, <2>1 DEF FactoryOdp
<1>10. factoryHeap' = factoryHeap BY <1>8, <1>9 DEF factoryHeap
<1>11. FactoryCreator(c)' = Factory!IdleCreator
  BY <1>7, <1>8 DEF FactoryCreator, FactoryPlace, Factory!IdleCreator
<1>12. Factory!CreatorRests(c) BY <1>8, <1>11 DEF Factory!CreatorRests
<1>13. UNCHANGED <<factoryApi, factoryWatch>> BY <1>4, <1>7, ServersAlone
<1>14. Factory!deleteOdpToken(factoryCreators[c].odp)
  <2>1. CASE left = FALSE /\ o.tokenName = c
    <3>1. factoryHeap[c].token = c BY <1>2, <2>1 DEF FactoryOdp
    <3>2. factoryTokens' = factoryTokens \ {c} BY <1>7, <1>8, <2>1 DEF factoryTokens
    <3> QED BY <1>2, <3>1, <3>2 DEF Factory!deleteOdpToken
  <2>2. CASE left = o.onServer
    <3>1. factoryTokens' = factoryTokens BY <1>7, <1>8, <2>2 DEF factoryTokens
    <3> QED BY <3>1 DEF Factory!deleteOdpToken
  <2> QED BY <1>6, <2>1, <2>2
<1> QED BY <1>2, <1>10, <1>12, <1>13, <1>14, FrameStays DEF Factory!UndoToken

LEMMA StartBegins ==
    ASSUME IInv, CodesInv, NEW c \in Creators, NEW app \in Applications, NEW wants \in BOOLEAN,
           Start(c, app, wants)
    PROVE  Begins(c)
<1> DEFINE new == [IdleCreator EXCEPT !.pc = "template", !.app = app, !.wants = wants]
<1>1. creator' = [creator EXCEPT ![c] = new] BY DEF Start
<1>2. /\ new.pc = "template" /\ new.wants = wants /\ new.code = Creating /\ ~new.failed
      /\ new.tokenName = None /\ ~new.onServer /\ new.annotation = None /\ new.pod = None
  BY DEF IdleCreator
<1> HIDE DEF new
<1>3. /\ creator'[c] = new
      /\ factoryHeap' = [factoryHeap EXCEPT ![c] = FactoryOdp(c)']
      /\ factoryCreators' = [factoryCreators EXCEPT ![c] = FactoryCreator(c)']
  BY <1>1, MapsAlone
<1>4. FactoryOdp(c)' = Factory!NewOdp(TRUE, wants)
  <2>1. PICK created : created = FALSE OBVIOUS
  <2>2. PICK yes : yes = TRUE OBVIOUS
  <2>3. (new.pc = "undo" \/ (new.pc = "ended" /\ new.code \in {Creating, K8sError})) = created
    BY <1>2, <2>1
  <2>4. FactoryOdp(c)' = Entry(wants, yes, created, "Creating", "none", None)
    BY <1>2, <1>3, <2>2, <2>3 DEF FactoryOdp, Entry
  <2>5. Factory!NewOdp(yes, wants) = Entry(wants, yes, created, "Creating", "none", None)
    BY <2>1 DEF Factory!NewOdp, Entry
  <2> QED BY <2>2, <2>4, <2>5
<1>5. FactoryCreator(c)' = [pc |-> "checks", name |-> c, odp |-> c, token |-> None]
  BY <1>2, <1>3 DEF FactoryCreator, FactoryPlace
<1>6. Factory!CreatorAt(c, "idle")
  BY DEF Start, factoryCreators, FactoryCreator, FactoryPlace, Factory!CreatorAt
<1> QED BY <1>3, <1>4, <1>5, <1>6 DEF Begins

(* A step of the others changes the attempt they take it for.               *)
LEMMA OthersChange ==
    ASSUME IInv, NEW c \in Creators, OtherStep(c), creator' # creator
    PROVE  creator'[c] # creator[c]
<1>0. creator \in [Creators -> CreatorStates] BY DEF IInv
<1>1. PICK new : creator' = [creator EXCEPT ![c] = new]
  BY <1>0 DEF OtherStep, OtherNames, OtherDeletes
<1>2. ASSUME creator'[c] = creator[c] PROVE creator' = creator
  BY <1>0, <1>1, <1>2
<1> QED BY <1>2

LEMMA CreatorStepRefines ==
    ASSUME IInv, CodesInv, NEW c \in Creators, CreatorStep(c)
    PROVE  Crash \/ UNCHANGED factoryVars \/ Factory!CreatorStep(c)
<1>1. CASE FindTemplate(c) \/ Lookup(c)
  BY <1>1, ChecksRefine DEF Factory!CreatorStep
<1>2. CASE CheckAccess(c) BY <1>2, AdmissionRefines DEF Factory!CreatorStep
<1>3. CASE createOdpToken(c) BY <1>3, TokenRefines DEF Factory!CreatorStep
<1>4. CASE getPodSpec(c) \/ getPodSpecFails(c)
  BY <1>4, SpecRefines DEF Factory!CreatorStep
<1>5. CASE createPod(c) \/ createPodFails(c)
  BY <1>5, PodRefines DEF Factory!CreatorStep
<1>6. CASE PodCreated(c) \/ PodNotCreated(c)
  BY <1>6, PodResultRefines DEF Factory!CreatorStep
<1>7. CASE Undo(c) BY <1>7, UndoRefines DEF Factory!CreatorStep
<1>8. CASE TokenPanics(c) \/ getPodSpecPanics(c) \/ UndoPanics(c)
  BY <1>8 DEF TokenPanics, getPodSpecPanics, UndoPanics
<1> QED BY <1>1, <1>2, <1>3, <1>4, <1>5, <1>6, <1>7, <1>8 DEF CreatorStep

(* A step that leaves the acting creator as it was leaves them all.         *)
LEMMA ActorChanges ==
    ASSUME IInv, NEW c \in Creators, CreatorStep(c), ~Crash, creator' # creator
    PROVE  creator'[c] # creator[c]
<1>0. creator \in [Creators -> CreatorStates] BY DEF IInv
<1>1. PICK new : creator' = [creator EXCEPT ![c] = new]
  <2>1. ASSUME NEW code, Fails(c, code) PROVE \E new : creator' = [creator EXCEPT ![c] = new]
    BY <1>0, <2>1 DEF Fails
  <2>2. ASSUME NEW pc, Goes(c, pc) PROVE \E new : creator' = [creator EXCEPT ![c] = new]
    BY <1>0, <2>2 DEF Goes
  <2>3. CASE FindTemplate(c)
    BY <1>0, <2>1, <2>3 DEF FindTemplate
  <2>4. CASE Lookup(c) BY <1>0, <2>1, <2>4 DEF Lookup
  <2>5. CASE CheckAccess(c) BY <2>1, <2>2, <2>5 DEF CheckAccess
  <2>6. CASE createOdpToken(c)
    <3>1. PICK outcome \in Outcomes("POST") :
         \/ creator' = [creator EXCEPT ![c].pc = "spec", ![c].tokenName = c,
                                       ![c].onServer = outcome.did]
         \/ creator' = [creator EXCEPT ![c].pc = "spec", ![c].tokenName = None,
                                       ![c].onServer = outcome.did, ![c].mishap = "unnamed"]
         \/ creator' = [creator EXCEPT ![c].pc = "ended", ![c].code = TokenError,
                                       ![c].failed = TRUE, ![c].onServer = outcome.did]
      BY <2>6 DEF createOdpToken
    <3> QED BY <1>0, <3>1
  <2>7. CASE getPodSpec(c) \/ getPodSpecFails(c)
    BY <1>0, <2>1, <2>7 DEF getPodSpec, getPodSpecFails
  <2>8. CASE createPod(c) \/ createPodFails(c)
    BY <1>0, <2>8 DEF createPod, createPodFails, PodIn
  <2>9. CASE PodCreated(c) \/ PodNotCreated(c)
    BY <1>0, <2>2, <2>9 DEF PodCreated, PodNotCreated
  <2>10. CASE Undo(c) BY <1>0, <2>10, UndoStep
  <2> QED BY <2>3, <2>4, <2>5, <2>6, <2>7, <2>8, <2>9, <2>10
    DEF CreatorStep, TokenPanics, getPodSpecPanics, UndoPanics
<1>2. ASSUME creator'[c] = creator[c] PROVE creator' = creator
  BY <1>0, <1>1, <1>2
<1> QED BY <1>2

(* OdpFactory has all that matters of an attempt: whatever the templates,   *)
(* the LDAP server, the Token service and Kubernetes do to it, and whatever *)
(* others did to the TokenName of its entry, each of its steps is one that  *)
(* a creator of OdpFactory may take, unless the process ends                *)
(* (factory.go:292-386, factory_token.go:11-32).                            *)
THEOREM AttemptsAreOfTheFactory == Spec => ImplementsFactoryCreator
<1> DEFINE Acts == \E c \in Creators :
              /\ creator'[c] # creator[c]
              /\ \/ Begins(c) \/ Crash \/ OtherStep(c)
                 \/ UNCHANGED factoryVars \/ Factory!CreatorStep(c)
<1>1. IInv /\ CodesInv /\ [Next]_vars => [Acts]_creator
  <2> SUFFICES ASSUME IInv, CodesInv, [Next]_vars, creator' # creator PROVE Acts
    OBVIOUS
  <2>1. CASE Crash
    <3>1. PICK c \in Creators : creator'[c] # creator[c]
      BY <2>1 DEF Crash, IInv
    <3> QED BY <2>1, <3>1
  <2>2. ASSUME NEW c \in Creators, NEW app \in Applications, NEW wants \in BOOLEAN,
               Start(c, app, wants)
        PROVE  Acts
    <3>1. Begins(c) BY <2>2, StartBegins
    <3>2. creator'[c] # creator[c]
      <4>1. creator \in [Creators -> CreatorStates] BY DEF IInv
      <4>2. ASSUME creator'[c] = creator[c] PROVE creator' = creator
        BY <2>2, <4>1, <4>2 DEF Start
      <4> QED BY <4>2
    <3> QED BY <3>1, <3>2
  <2>3. ASSUME NEW c \in Creators, CreatorStep(c), ~Crash PROVE Acts
    BY <2>3, CreatorStepRefines, ActorChanges
  <2>4. ASSUME NEW c \in Creators, OtherStep(c) PROVE Acts
    BY <2>4, OthersChange
  <2> HIDE DEF Acts
  <2> QED BY <2>1, <2>2, <2>3, <2>4 DEF Next, vars
<1>2. IInv /\ CodesInv /\ [Next]_vars => IInv' /\ CodesInv'
  BY NextKeepsInv, NextKeepsCodes
<1>3. Init => IInv /\ CodesInv BY InitInv, InitCodes
<1>4. [][Acts]_creator => ImplementsFactoryCreator BY PTL DEF ImplementsFactoryCreator
<1> HIDE DEF Acts
<1> QED BY <1>1, <1>2, <1>3, <1>4, PTL DEF Spec
=============================================================================
