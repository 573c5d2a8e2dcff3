----------------------------- MODULE RestReply -----------------------------
(***************************************************************************)
(* The answer ServeHTTP builds from an entry (internal/rest/rest.go) while  *)
(* creators and Pod workers write the same entry.  No lock protects the     *)
(* fields; each load and store of a field is a step here.                   *)
(*                                                                         *)
(* The Go compiler makes loads and stores of one goroutine in the order of  *)
(* the source, and amd64 keeps them in that order; the model assumes both.  *)
(* Error (two words) and PodIPs (three) are not written at once: who reads  *)
(* one while it is written may get words that do not belong together, which *)
(* ends the handler by a panic that net/http recovers, or goes unnoticed.   *)
(***************************************************************************)
EXTENDS Naturals, FiniteSets

CONSTANTS
    Handlers, \* REST requests at a time
    Creators, \* creators that got the name of the entry
    Workers,  \* Pod workers
    Earlier,  \* the token data of a Pod that was there before the entry
    None      \* no token data

ASSUME WritersAssumption == Creators \cap Workers = {}

Writers == Creators \cup Workers

VARIABLES
    origin,   \* how the entry came about
    entry,    \* the fields of the OnDemandPod that ServeHTTP reads
    phases,   \* the phases the Pod has had: a worker may hold any of them
    writer,   \* where each creator and worker is
    spec,     \* the token data in the Pod each creator is about to create
    handler,  \* where each ServeHTTP is, with its reply
    podToken, \* history: the token data the Pod was made with
    replaced, \* history: token data was stored when a Pod had been expanded
    told,     \* history: the furthest answer that was sent
    since     \* history: what that was when each request arrived

podVars == <<spec, podToken, replaced>>
history == <<told, since>>
vars == <<origin, entry, phases, writer, handler, podVars, history>>

(* The token data a creator got is called after the creator.                *)
TokenData == Creators \cup {Earlier, None}

Codes  == {"Creating", "Ready", "Failed"} \* Failed is any of the error codes
Entry  == [code : Codes, token : TokenData, ips : BOOLEAN, errorTime : BOOLEAN, error : BOOLEAN]
Reply  == [code : Codes, token : TokenData, ips : BOOLEAN, error : BOOLEAN]
Origin == [requested : BOOLEAN,  \* by GetOnDemandPod, or by a worker for a Pod
           foreign : BOOLEAN,    \* the Pod was there before the entry
           tokens : BOOLEAN]     \* it has token types

NewEntry == [code |-> "Creating", token |-> None, ips |-> FALSE,
             errorTime |-> FALSE, error |-> FALSE]
NewReply == [code |-> "Creating", token |-> None, ips |-> FALSE, error |-> FALSE]

WriterAt(w, pc) == writer[w] = pc
WriterGoes(w, pc) == writer' = [writer EXCEPT ![w] = pc]
HandlerAt(h, pc) == handler[h].pc = pc

(* How far the attempt has come, by what a client is told: Creating, then   *)
(* Ready (or an error code), then an error.                                 *)
Answer(reply) == IF reply.error THEN 2 ELSE IF reply.code = "Creating" THEN 0 ELSE 1
Further(a, b) == IF a > b THEN a ELSE b

(* A requested entry has its creators.  The worker that made an entry for a *)
(* Pod (handlePodEvent) goes on to read its token.                          *)
Init ==
    /\ origin \in {o \in Origin : o.requested \/ o.foreign}
    /\ entry = NewEntry
    /\ phases = IF origin.foreign THEN {"Pending"} ELSE {}
    /\ \E maker \in Workers :
         writer = [w \in Writers |->
            IF origin.requested /\ w \in Creators THEN "check"
            ELSE IF ~origin.requested /\ w = maker THEN "reload" ELSE "idle"]
    /\ handler = [h \in Handlers |-> [pc |-> "idle", reply |-> NewReply]]
    /\ spec = [c \in Creators |-> None] /\ podToken = None /\ replaced = FALSE
    /\ told = 0 /\ since = [h \in Handlers |-> 0]

-----------------------------------------------------------------------------
(* setOdpError: three stores one after the other.  When the last is done a  *)
(* creator has ended its attempt, and a worker goes on to delete the Pod.   *)
(* An error that was there is replaced; no property tells the two apart.    *)

Fails(w) == WriterGoes(w, "errorTime")

(* Variant: the same stores in the opposite order.                          *)
SetCodeFirst(w) ==
    /\ \/ /\ WriterAt(w, "errorTime")
          /\ entry' = [entry EXCEPT !.code = "Failed"]
          /\ WriterGoes(w, "error")
       \/ /\ WriterAt(w, "error")
          /\ entry' = [entry EXCEPT !.error = TRUE]
          /\ WriterGoes(w, "code")
       \/ /\ WriterAt(w, "code")
          /\ entry' = [entry EXCEPT !.errorTime = TRUE]
          /\ WriterGoes(w, "idle")
    /\ UNCHANGED <<origin, phases, handler, podVars, history>>

setOdpError(w) ==
    /\ \/ /\ WriterAt(w, "errorTime")
          /\ entry' = [entry EXCEPT !.errorTime = TRUE]
          /\ WriterGoes(w, "error")
       \/ /\ WriterAt(w, "error")
          /\ entry' = [entry EXCEPT !.error = TRUE]
          /\ WriterGoes(w, "code")
       \/ /\ WriterAt(w, "code")
          /\ entry' = [entry EXCEPT !.code = "Failed"]
          /\ WriterGoes(w, "idle")
    /\ UNCHANGED <<origin, phases, handler, podVars, history>>

-----------------------------------------------------------------------------
(* A creator: the writes of createOnDemandPod.  CreateOdp has its checks.   *)

CheckUser(c) ==
    /\ WriterAt(c, "check")
    /\ Fails(c) \/ WriterGoes(c, IF origin.tokens THEN "token" ELSE "spec")
    /\ UNCHANGED <<origin, entry, phases, handler, podVars, history>>

(* CreateToken returns a token whose data is nil if the answer had none.  A *)
(* token replaces that of another creator, which may have expanded its Pod. *)
createOdpToken(c) ==
    /\ WriterAt(c, "token")
    /\ \/ Fails(c) /\ UNCHANGED <<entry, replaced>>
       \/ /\ WriterGoes(c, "spec")
          /\ \E data \in {c, None} : entry' = [entry EXCEPT !.token = data]
          /\ replaced' = (replaced \/ phases # {} \/ \E d \in Creators : WriterAt(d, "post"))
    /\ UNCHANGED <<origin, phases, handler, spec, podToken, history>>

(* Variant: the template is given this attempt's token, not the entry's.    *)
getPodSpecOwn(c) ==
    /\ WriterAt(c, "spec")
    /\ \/ Fails(c) /\ UNCHANGED spec
       \/ WriterGoes(c, "post") /\ spec' = [spec EXCEPT ![c] = IF origin.tokens THEN c ELSE None]
    /\ UNCHANGED <<origin, entry, phases, handler, podToken, replaced, history>>

getPodSpec(c) ==
    /\ WriterAt(c, "spec")
    /\ \/ Fails(c) /\ UNCHANGED spec
       \/ WriterGoes(c, "post") /\ spec' = [spec EXCEPT ![c] = entry.token]
    /\ UNCHANGED <<origin, entry, phases, handler, podToken, replaced, history>>

(* The call may fail although the Pod was made.  A Pod that was there may   *)
(* have been deleted, so either outcome is possible.                        *)
createPod(c) ==
    /\ WriterAt(c, "post")
    /\ \/ /\ phases' = phases \cup {"Pending"}
          /\ podToken' = spec[c]
          /\ WriterGoes(c, "idle") \/ Fails(c)
       \/ UNCHANGED <<phases, podToken>> /\ Fails(c)
    /\ spec' = [spec EXCEPT ![c] = None]
    /\ UNCHANGED <<origin, entry, handler, replaced, history>>

CreatorStep(c) ==
    CheckUser(c) \/ createOdpToken(c) \/ getPodSpec(c) \/ createPod(c) \/ setOdpError(c)

-----------------------------------------------------------------------------
(* A Pod worker: the writes of handlePodEvent *)

(* An error of GetToken is only logged.  Other workers do not wait for it.  *)
reloadOdp(w) ==
    /\ WriterAt(w, "reload")
    /\ \E data \in {None} \cup (IF origin.tokens THEN {Earlier} ELSE {}) :
           entry' = [entry EXCEPT !.token = data]
    /\ WriterGoes(w, "idle")
    /\ UNCHANGED <<origin, phases, handler, podVars, history>>

(* The worker has read the Pod from the cache, perhaps an older version.  A *)
(* Pod that is pending or has succeeded writes nothing into the entry.      *)
PodFailed(w) ==
    /\ WriterAt(w, "idle")
    /\ "Failed" \in phases
    /\ Fails(w)
    /\ UNCHANGED <<origin, entry, phases, handler, podVars, history>>

(* Variant: the code follows the phase of the Pod the worker has read.      *)
PodSetsCode(w) ==
    /\ \/ /\ WriterAt(w, "idle")
          /\ \E phase \in phases \ {"Failed"} :
                entry' = [entry EXCEPT !.code = IF phase = "Running" THEN "Ready" ELSE "Creating"]
          /\ WriterGoes(w, "ips")
       \/ /\ WriterAt(w, "ips")
          /\ entry' = [entry EXCEPT !.ips = TRUE]
          /\ WriterGoes(w, "idle")
    /\ UNCHANGED <<origin, phases, handler, podVars, history>>

handlePodUpdate(w) ==
    /\ \/ /\ WriterAt(w, "idle")
          /\ "Running" \in phases
          /\ entry' = [entry EXCEPT !.code = "Ready"]
          /\ WriterGoes(w, "ips")
       \/ /\ WriterAt(w, "ips")
          /\ entry' = [entry EXCEPT !.ips = TRUE]
          /\ WriterGoes(w, "idle")
    /\ UNCHANGED <<origin, phases, handler, podVars, history>>

WorkerStep(w) == reloadOdp(w) \/ PodFailed(w) \/ handlePodUpdate(w) \/ setOdpError(w)

PodMoves ==
    /\ phases # {}
    /\ \E phase \in {"Running", "Failed"} \ phases : phases' = phases \cup {phase}
    /\ UNCHANGED <<origin, entry, writer, handler, podVars, history>>

-----------------------------------------------------------------------------
(* ServeHTTP.  A request that is refused before GetOnDemandPod (its content *)
(* type, its body) reads no entry.                                          *)

BeingWritten(field) == \E w \in Writers : WriterAt(w, field)

Handles(h, pc, reply) ==
    /\ handler' = [handler EXCEPT ![h] = [pc |-> pc, reply |-> reply]]
    /\ told' = IF pc = "sent" THEN Further(told, Answer(reply)) ELSE told
    /\ since' = IF pc = "code" THEN [since EXCEPT ![h] = told] ELSE since
    /\ UNCHANGED <<origin, entry, phases, writer, podVars>>

GetOnDemandPod(h) ==
    /\ HandlerAt(h, "idle") \/ HandlerAt(h, "sent")
    /\ Handles(h, "code", NewReply)

ReadResultCode(h) ==
    /\ HandlerAt(h, "code")
    /\ Handles(h, "token", [handler[h].reply EXCEPT !.code = entry.code])

ReadTokenData(h) ==
    /\ HandlerAt(h, "token")
    /\ Handles(h, "ips", [handler[h].reply EXCEPT !.token = entry.token])

(* Torn words of PodIPs are noticed by json.Marshal.                        *)
ReadPodIPs(h) ==
    /\ HandlerAt(h, "ips")
    /\ \/ \E some \in {entry.ips} \cup (IF BeingWritten("ips") THEN {TRUE} ELSE {}) :
              Handles(h, "errorTime", [handler[h].reply EXCEPT !.ips = some])
       \/ BeingWritten("ips") /\ Handles(h, "idle", NewReply)

ReadErrorTime(h) ==
    /\ HandlerAt(h, "errorTime")
    /\ Handles(h, IF entry.errorTime THEN "error" ELSE "sent", handler[h].reply)

(* odp.Error.Error(): a nil Error, or torn words of it, may be called.      *)
ReadError(h) ==
    /\ HandlerAt(h, "error")
    /\ \/ /\ entry.error
          /\ Handles(h, "sent", [handler[h].reply EXCEPT !.error = TRUE])
       \/ /\ ~entry.error \/ BeingWritten("error")
          /\ Handles(h, "idle", NewReply)

ServeHTTP(h) ==
    \/ GetOnDemandPod(h) \/ ReadResultCode(h) \/ ReadTokenData(h) \/ ReadPodIPs(h)
    \/ ReadErrorTime(h) \/ ReadError(h)

-----------------------------------------------------------------------------
Next ==
    \/ \E c \in Creators : CreatorStep(c)
    \/ \E w \in Workers : WorkerStep(w)
    \/ PodMoves
    \/ \E h \in Handlers : ServeHTTP(h)

Spec == Init /\ [][Next]_vars

TypeOK ==
    /\ origin \in Origin
    /\ entry \in Entry /\ (entry.error => entry.errorTime)
    /\ phases \subseteq {"Pending", "Running", "Failed"}
    /\ writer \in [Writers -> {"idle", "check", "token", "spec", "post", "reload",
                              "ips", "errorTime", "error", "code"}]
    /\ handler \in [Handlers ->
         [pc : {"idle", "code", "token", "ips", "errorTime", "error", "sent"},
          reply : Reply]]
    /\ spec \in [Creators -> TokenData] /\ podToken \in TokenData /\ replaced \in BOOLEAN
    /\ told \in 0..2 /\ since \in [Handlers -> 0..2]

-----------------------------------------------------------------------------
(* Properties *)

Sent(h) == HandlerAt(h, "sent")
ReplyOf(h) == handler[h].reply

(* "If there was an error creating the OPD the response will include that   *)
(* error" (api/odp-factory.yaml:29-30): a client that is given an error     *)
(* code is also told the error, since setOdpError writes the code last      *)
(* (helpers.go:30-32) and ServeHTTP reads it first (rest.go:167-175).       *)
FailedReplyHasError ==
    \A h \in Handlers : Sent(h) /\ ReplyOf(h).code = "Failed" => ReplyOf(h).error

(* A client that is told Ready also gets the token data its Pod was made    *)
(* with: TokenData is there before the template is expanded, so before a    *)
(* worker can see the Pod run (factory_token.go:22, factory.go:332, 341,    *)
(* 373, factory_podevents.go:126).  Not so for a Pod of an earlier          *)
(* instance, which another worker may find running before its token was     *)
(* read; nor when two creators have the entry and one stores its token data *)
(* after the other has expanded the template.                               *)
ReadyReplyHasToken ==
    \A h \in Handlers :
        Sent(h) /\ ReplyOf(h).code = "Ready" /\ ~origin.foreign /\ ~replaced
            => ReplyOf(h).token = podToken

(* Who asks again after an answer is told at least as much, whoever got     *)
(* that answer: an error is not followed by an answer without one (another  *)
(* error may replace it, helpers.go:31), nor Ready by Creating, though      *)
(* workers and creators write the entry in any order and an event may be    *)
(* handled late (factory_podevents.go:94, 126, helpers.go:30-32,            *)
(* rest.go:167-175).                                                        *)
AnswersGoForward == \A h \in Handlers : Sent(h) => Answer(ReplyOf(h)) >= since[h]

=============================================================================
