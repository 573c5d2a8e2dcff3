----------------------------- MODULE CreateOdp -----------------------------
(***************************************************************************)
(* One attempt to create an On Demand Pod, in detail (createOnDemandPod in  *)
(* internal/factory/factory.go), with the calls it makes: the LDAP lookup   *)
(* (internal/userlookup), the ODP Token service client                      *)
(* (internal/tokenservice) and Kubernetes.  OdpFactory has the same steps   *)
(* with less of their data, among the other goroutines that use the entry.  *)
(* Here the ConfigMap worker changes the templates meanwhile.               *)
(***************************************************************************)
EXTENDS Templates, Integers

CONSTANTS
    Creators,
    Other,          \* the token of another goroutine that uses the same entry
    BindUser,       \* is an LDAP user configured to bind with
    TokenServices   \* may TOKENSERVICE_URL be set or unset: a set of BOOLEANs

ASSUME CreateAssumption == BindUser \in BOOLEAN /\ TokenServices \subseteq BOOLEAN
ASSUME CreatorsAssumption == None \notin Creators /\ Other \notin Creators \cup {None}

Creating           == -1
LdapError          == 1
TemplateError      == 2
TokenError         == 3
K8sError           == 4
NotAuthorisedError == 5

VARIABLES
    tsc,       \* is there a Token service client; f.tsc is nil if not
    creator    \* the attempt each creator is working on

vars == <<templateVars, tsc, creator>>

(* odpTemplate, memberOf and spec are locals of createOnDemandPod; code and *)
(* failed are what the attempt has stored in the entry's ResultCode and     *)
(* ErrorTime.  wants stands for the entry's token types, and tokenName is   *)
(* its TokenName: the one field an attempt reads that others may write.     *)
(* The token of an attempt is called after its creator, and onServer says   *)
(* whether it exists in the Token service.  annotation is the token the Pod *)
(* is annotated with, pod the template the Pod in Kubernetes was made from. *)
(* mishap is history: CreateToken returned a token without a name, or       *)
(* DeleteToken an error, or another goroutine used the entry meanwhile.     *)
IdleCreator ==
    [pc |-> "idle", app |-> None, wants |-> FALSE, odpTemplate |-> None,
     memberOf |-> {}, code |-> Creating, failed |-> FALSE, tokenName |-> None,
     onServer |-> FALSE, spec |-> None, annotation |-> None, pod |-> None,
     mishap |-> "none"]

TokenNames == Creators \cup {Other}

CreatorStates ==
    [pc : {"idle", "template", "lookup", "access", "token", "spec", "post", "done", "failed",
           "undo", "ended"},
     app : Applications \cup {None}, wants : BOOLEAN, odpTemplate : OdpTemplate \cup {None},
     memberOf : SUBSET Groups, code : {Creating} \cup (1..5), failed : BOOLEAN,
     tokenName : TokenNames \cup {None}, onServer : BOOLEAN,
     spec : OdpTemplate \cup {None}, annotation : TokenNames \cup {None},
     pod : OdpTemplate \cup {None},
     mishap : {"none", "unnamed", "undo failed", "shared"}]

TypeOK == TemplatesTypeOK /\ tsc \in BOOLEAN /\ creator \in [Creators -> CreatorStates]

-----------------------------------------------------------------------------
(* UserLookup: users is how many entries the user search returned, groups   *)
(* the names in the answer to the group search.                             *)
LdapAnswers ==
    [dial : BOOLEAN, bind : BOOLEAN, userSearch : BOOLEAN, users : 0..2,
     groupSearch : BOOLEAN, groups : SUBSET Groups]

LookupFails(a) ==
    \/ ~a.dial
    \/ BindUser /\ ~a.bind
    \/ ~a.userSearch
    \/ a.users # 1
    \/ ~a.groupSearch

GroupsFound  == {a.groups : a \in {b \in LdapAnswers : ~LookupFails(b)}}
LookupFailed == \E a \in LdapAnswers : LookupFails(a)

-----------------------------------------------------------------------------
(* The ODP Token client: a response may not arrive, or not in full.  A JSON *)
(* object without tokenname makes a token with an empty name ("nameless").  *)
Responses ==
    [arrives : BOOLEAN, ok : BOOLEAN,
     content : {"none", "token", "nameless", "garbage", "other type"}]

processResponse(method, r) ==
    IF ~r.arrives \/ ~r.ok THEN "error"
    ELSE IF r.content \in {"token", "nameless"} THEN r.content
    ELSE IF r.content = "none" /\ method \notin {"POST", "GET"} THEN "nil"
    ELSE "error"

(* What the service did when it sent r: it did what it was asked if it says *)
(* so, nothing if it says it failed, and either if the response is lost.    *)
ServiceDid(r) == IF r.arrives THEN {r.ok} ELSE BOOLEAN

Outcomes(method) ==
    UNION {{[result |-> processResponse(method, r), did |-> did] : did \in ServiceDid(r)} :
           r \in Responses}

-----------------------------------------------------------------------------
At(c, pc) == creator[c].pc = pc
Goes(c, pc) == creator' = [creator EXCEPT ![c].pc = pc]

(* Variant: the return without setOdpError.                                 *)
GivesUp(c, code) == Goes(c, "ended")

(* setOdpError, and the return that follows it.                             *)
Fails(c, code) ==
    creator' = [creator EXCEPT ![c].pc = "ended", ![c].code = code, ![c].failed = TRUE]

(* A panic in a creator ends the process, and it is started again.          *)
Crash ==
    /\ StartTemplates(configMaps)
    /\ creator' = [c \in Creators |-> IdleCreator]
    /\ UNCHANGED tsc

Start(c, app, wants) ==
    /\ creator[c].pc \in {"idle", "ended"}
    /\ creator' = [creator EXCEPT ![c] =
            [IdleCreator EXCEPT !.pc = "template", !.app = app, !.wants = wants]]
    /\ UNCHANGED <<templateVars, tsc>>

FindTemplate(c) ==
    /\ At(c, "template")
    /\ IF templatesByApplication[creator[c].app] = None
       THEN Fails(c, TemplateError)
       ELSE creator' = [creator EXCEPT
                ![c].pc = "lookup",
                ![c].odpTemplate = templatesByApplication[creator[c].app]]
    /\ UNCHANGED <<templateVars, tsc>>

Lookup(c) ==
    /\ At(c, "lookup")
    /\ \/ LookupFailed /\ Fails(c, LdapError)
       \/ \E groups \in GroupsFound :
             creator' = [creator EXCEPT ![c].pc = "access", ![c].memberOf = groups]
    /\ UNCHANGED <<templateVars, tsc>>

isAccessAllowed(c) ==
    \E g \in creator[c].odpTemplate.groups : g \in creator[c].memberOf

CheckAccess(c) ==
    /\ At(c, "access")
    /\ IF isAccessAllowed(c) THEN Goes(c, IF creator[c].wants THEN "token" ELSE "spec")
                             ELSE Fails(c, NotAuthorisedError)
    /\ UNCHANGED <<templateVars, tsc>>

-----------------------------------------------------------------------------
(* createOdpToken reads a field of the token the client returned.           *)
createOdpToken(c) ==
    /\ At(c, "token")
    /\ tsc
    /\ \E outcome \in Outcomes("POST") :
         \/ /\ outcome.result = "token"
            /\ creator' = [creator EXCEPT ![c].pc = "spec", ![c].tokenName = c,
                                          ![c].onServer = outcome.did]
         \/ /\ outcome.result = "nameless"
            /\ creator' = [creator EXCEPT ![c].pc = "spec", ![c].tokenName = None,
                                          ![c].onServer = outcome.did,
                                          ![c].mishap = "unnamed"]
         \/ /\ outcome.result = "error"
            /\ creator' = [creator EXCEPT ![c].pc = "ended", ![c].code = TokenError,
                                          ![c].failed = TRUE, ![c].onServer = outcome.did]
    /\ UNCHANGED <<templateVars, tsc>>

NilToken(c) ==
    /\ At(c, "token")
    /\ \E outcome \in Outcomes("POST") : outcome.result = "nil"

TokenPanics(c) ==
    /\ At(c, "token")
    /\ ~tsc \/ NilToken(c)
    /\ Crash

(* Variant: the template is looked up again.                                *)
TemplateAgain(c) ==
    IF templatesByApplication[creator[c].app] = None THEN creator[c].odpTemplate
    ELSE templatesByApplication[creator[c].app]

TemplateInHand(c) == creator[c].odpTemplate

Expands(c, body) == At(c, "spec") /\ TemplateInHand(c).body = body

getPodSpec(c) ==
    /\ Expands(c, "pod")
    /\ creator' = [creator EXCEPT ![c].pc = "post", ![c].spec = TemplateInHand(c),
                                  ![c].annotation = creator[c].tokenName]
    /\ UNCHANGED <<templateVars, tsc>>

getPodSpecFails(c) ==
    /\ Expands(c, "fails")
    /\ Fails(c, TemplateError)
    /\ UNCHANGED <<templateVars, tsc>>

(* PodTemplate is nil, or the type assertion to *Pod fails.                 *)
getPodSpecPanics(c) == Expands(c, "absent") /\ Crash

-----------------------------------------------------------------------------
PodIn(c) == [creator EXCEPT ![c].pod = creator[c].spec]

createPod(c) ==
    /\ At(c, "post")
    /\ creator' = [PodIn(c) EXCEPT ![c].pc = "done"]
    /\ UNCHANGED <<templateVars, tsc>>

(* The call fails, before or after its effect.                              *)
createPodFails(c) ==
    /\ At(c, "post")
    /\ \E outcome \in {creator, PodIn(c)} : creator' = [outcome EXCEPT ![c].pc = "failed"]
    /\ UNCHANGED <<templateVars, tsc>>

PodCreated(c) ==
    /\ At(c, "done")
    /\ Goes(c, "ended")
    /\ UNCHANGED <<templateVars, tsc>>

PodNotCreated(c) ==
    /\ At(c, "failed")
    /\ creator' = [creator EXCEPT ![c].pc = "undo", ![c].code = K8sError, ![c].failed = TRUE]
    /\ UNCHANGED <<templateVars, tsc>>

(* Variant: the token stays.                                                *)
KeepOdpToken(c) == Goes(c, "ended")

(* The token the entry names by now is deleted.  Without a name the request *)
(* goes to the service's own URL, and no token is.                          *)
deleteOdpToken(c) ==
    \E outcome \in Outcomes("DELETE") :
        creator' = [creator EXCEPT
            ![c].pc = "ended",
            ![c].onServer = @ /\ ~(outcome.did /\ creator[c].tokenName = c),
            ![c].mishap = IF @ = "none" /\ outcome.result = "error"
                          THEN "undo failed" ELSE @]

Undo(c) ==
    /\ At(c, "undo")
    /\ tsc
    /\ deleteOdpToken(c)
    /\ UNCHANGED <<templateVars, tsc>>

UndoPanics(c) == At(c, "undo") /\ ~tsc /\ Crash

CreatorStep(c) ==
    \/ FindTemplate(c) \/ Lookup(c) \/ CheckAccess(c)
    \/ createOdpToken(c) \/ TokenPanics(c)
    \/ getPodSpec(c) \/ getPodSpecFails(c) \/ getPodSpecPanics(c)
    \/ createPod(c) \/ createPodFails(c) \/ PodCreated(c) \/ PodNotCreated(c)
    \/ Undo(c) \/ UndoPanics(c)

-----------------------------------------------------------------------------
(* Two names in createChannel may lead two creators to one entry, and a     *)
(* worker may handle the end of a Pod of that name: they write and clear    *)
(* the TokenName of the attempt, and delete the token it names.  They may   *)
(* at any time; it matters where the attempt goes on to read TokenName.     *)

ReadsToken(c) == creator[c].pc \in {"spec", "undo"}

OtherNames(c) ==
    /\ ReadsToken(c)
    /\ \E name \in {Other, None} :
         creator' = [creator EXCEPT ![c].tokenName = name, ![c].mishap = "shared"]
    /\ UNCHANGED <<templateVars, tsc>>

OtherDeletes(c) ==
    /\ ReadsToken(c)
    /\ creator[c].tokenName = c
    /\ creator' = [creator EXCEPT ![c].onServer = FALSE, ![c].mishap = "shared"]
    /\ UNCHANGED <<templateVars, tsc>>

OtherStep(c) == OtherNames(c) \/ OtherDeletes(c)

-----------------------------------------------------------------------------
Init ==
    /\ InitTemplates
    /\ tsc \in TokenServices
    /\ creator = [c \in Creators |-> IdleCreator]

Next ==
    \/ \E c \in Creators, app \in Applications, wants \in BOOLEAN : Start(c, app, wants)
    \/ \E c \in Creators : CreatorStep(c) \/ OtherStep(c)
    \/ TemplateStep /\ UNCHANGED <<tsc, creator>>
    \/ Crash

Spec == Init /\ [][Next]_vars

-----------------------------------------------------------------------------
(* Properties *)

(* A user gets a Pod only of the requested application, and only from a     *)
(* template whose own access groups admit the user, even when the ConfigMap *)
(* changes while the attempt is under way (factory.go:304, 323, 341).       *)
AdmittedByItsTemplate ==
    \A c \in Creators :
        creator[c].pod # None =>
            /\ creator[c].pod.app = creator[c].app
            /\ creator[c].pod.groups \cap creator[c].memberOf # {}

(* An attempt that ends without an error has made a Pod: no stage gives up  *)
(* in silence (factory.go:305-382).                                         *)
AttemptHasOutcome ==
    \A c \in Creators :
        At(c, "ended") /\ ~creator[c].failed => creator[c].pod # None

(* A Pod that was made without an error is annotated with the token made    *)
(* for it, and that token exists.  A token is left without such a Pod only  *)
(* when the template failed after the token was made, its creation went     *)
(* unanswered, its deletion failed, or the service gave it no name: then    *)
(* the Pod has no annotation and nobody can delete the token                *)
(* (factory.go:331-346, 367, 378-380, tokenservice.go:238-248).  Nothing is *)
(* promised of an entry that others work on during the attempt: creators    *)
(* overwrite each other's TokenName (factory_token.go:21).                  *)
TokenFollowsPod ==
    \A c \in Creators :
        LET odp == creator[c] IN
        At(c, "ended") /\ odp.mishap # "shared" =>
            /\ ~odp.failed =>
                  /\ odp.onServer <=> odp.wants
                  /\ odp.annotation = IF odp.wants /\ odp.mishap # "unnamed" THEN c ELSE None
            /\ odp.onServer /\ odp.failed =>
                  \/ odp.code \in {TemplateError, TokenError}
                  \/ odp.mishap \in {"unnamed", "undo failed"}

(* The refinement mapping.  A creator's name, its entry, its Pod and its    *)
(* token are called after it; others may put their token into its entry.    *)
(* Before the token is asked for, OdpFactory does not tell the stages apart. *)
FactoryPlace ==
    [idle |-> "idle", template |-> "checks", lookup |-> "checks", access |-> "checks",
     token |-> "token", spec |-> "spec", post |-> "post", done |-> "done",
     failed |-> "failed", undo |-> "undo", ended |-> "idle"]

FactoryOdp(c) ==
    LET odp == creator[c] IN
    [wants     |-> odp.wants,
     requested |-> TRUE,
     created   |-> odp.pc = "undo" \/ (odp.pc = "ended" /\ odp.code \in {Creating, K8sError}),
     code      |-> IF odp.code = Creating THEN "Creating" ELSE "Failed",
     err       |-> IF odp.failed THEN "fresh" ELSE "none",
     token     |-> odp.tokenName]

FactoryCreator(c) ==
    LET pc == creator[c].pc
        name == IF pc \in {"idle", "ended"} THEN None ELSE c
        inSpec == pc \in {"post", "done", "failed", "undo"}
    IN [pc |-> FactoryPlace[pc], name |-> name, odp |-> name,
        token |-> IF inSpec THEN creator[c].annotation ELSE None]

FactoryPod(c) ==
    IF creator[c].pod = None THEN None
    ELSE [uid |-> c, phase |-> "Pending", token |-> creator[c].annotation]

factoryHeap     == [c \in Creators |-> FactoryOdp(c)]
factoryCreators == [c \in Creators |-> FactoryCreator(c)]
factoryApi      == [c \in Creators |-> FactoryPod(c)]
factoryWatch    == [c \in Creators |->
                        IF creator[c].pod = None THEN << >> ELSE <<FactoryPod(c)>>]
factoryTokens   == {c \in Creators : creator[c].onServer}

Factory == INSTANCE OdpFactory WITH
    Names <- Creators, Odps <- Creators, Uids <- Creators, Tokens <- TokenNames,
    Requesters <- {}, Workers <- {}, QueueSize <- 1, MaxLag <- 1, MaxItems <- 1,
    TokenWanted <- BOOLEAN, Endings <- {},
    Faults <- {"createToken", "deleteToken", "createPod"},
    odps <- [c \in Creators |-> c], heap <- factoryHeap, creator <- factoryCreators,
    api <- factoryApi, watch <- factoryWatch, tokens <- factoryTokens,
    createChannel <- << >>, deletedPods <- {}, requester <- << >>, worker <- << >>,
    waiting <- [c \in Creators |-> 0], cache <- [c \in Creators |-> None],
    undeleted <- {}, instance <- 0

factoryVars == <<factoryHeap, factoryCreators, factoryApi, factoryWatch, factoryTokens>>

Begins(c) ==
    /\ Factory!CreatorAt(c, "idle")
    /\ \E wants \in BOOLEAN :
         factoryHeap' = [factoryHeap EXCEPT ![c] = Factory!NewOdp(TRUE, wants)]
    /\ factoryCreators' = [factoryCreators EXCEPT
            ![c] = [pc |-> "checks", name |-> c, odp |-> c, token |-> None]]

(* OdpFactory has all that matters of an attempt: whatever the templates,   *)
(* the LDAP server, the Token service and Kubernetes do to it, and whatever *)
(* others did to the TokenName of its entry, each of its steps is one that  *)
(* a creator of OdpFactory may take, unless the process ends                *)
(* (factory.go:292-386, factory_token.go:11-32).                            *)
ImplementsFactoryCreator ==
    [][\E c \in Creators :
            /\ creator'[c] # creator[c]
            /\ \/ Begins(c) \/ Crash \/ OtherStep(c)
               \/ UNCHANGED factoryVars \/ Factory!CreatorStep(c)
      ]_creator
=============================================================================
