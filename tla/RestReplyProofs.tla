-------------------------- MODULE RestReplyProofs --------------------------
(***************************************************************************)
(* Proofs about RestReply, for any number of requests, creators and         *)
(* workers.                                                                *)
(***************************************************************************)
EXTENDS RestReply, TLAPS

(* What FailedReplyHasError needs: the error code is stored after the error *)
(* and its time, and a handler that read it finds them.                     *)
ErrorBeforeCode ==
    /\ entry.code = "Failed" => entry.errorTime
    /\ \A w \in Writers : writer[w] \in {"error", "code"} => entry.errorTime

ReadsErrorAfterCode ==
    \A h \in Handlers :
        /\ handler[h].pc \in {"token", "ips", "errorTime"} /\ handler[h].reply.code = "Failed"
              => entry.errorTime
        /\ handler[h].pc = "sent" /\ handler[h].reply.code = "Failed"
              => handler[h].reply.error

(* What ReadyReplyHasToken needs: unless the Pod is of an earlier instance, *)
(* or token data was stored late, the entry has the token data of its Pod   *)
(* from when the template is expanded.                                      *)
OwnPod == ~origin.foreign /\ ~replaced

TokenBeforePod ==
    OwnPod =>
        /\ entry.code = "Ready" => phases # {}
        /\ phases # {} => podToken = entry.token
        /\ \A c \in Creators : writer[c] = "post" => spec[c] = entry.token
        /\ \A w \in Writers : writer[w] # "reload"

ReadsTokenAfterCode ==
    OwnPod => \A h \in Handlers :
        handler[h].reply.code = "Ready" =>
            /\ phases # {}
            /\ handler[h].pc \in {"ips", "errorTime", "error", "sent"} =>
                  handler[h].reply.token = entry.token

ErrorInv == TypeOK /\ ErrorBeforeCode /\ ReadsErrorAfterCode
TokenInv == TypeOK /\ TokenBeforePod /\ ReadsTokenAfterCode

-----------------------------------------------------------------------------
(* What a step of ServeHTTP makes of place and reply of its handler.        *)
Loads(h, pc, r) ==
    LET old == handler[h].reply IN
    \/ pc \in {"idle", "code"} /\ r = NewReply
    \/ /\ HandlerAt(h, "code") /\ pc = "token" /\ r.code = entry.code
       /\ r.error = old.error
    \/ /\ HandlerAt(h, "token") /\ pc = "ips" /\ r.code = old.code /\ r.token = entry.token
       /\ r.error = old.error
    \/ /\ HandlerAt(h, "ips") /\ pc = "errorTime" /\ r.code = old.code /\ r.token = old.token
       /\ r.error = old.error
    \/ HandlerAt(h, "errorTime") /\ r = old /\ pc = IF entry.errorTime THEN "error" ELSE "sent"
    \/ HandlerAt(h, "error") /\ pc = "sent" /\ r = [old EXCEPT !.error = TRUE]

Places == {"idle", "code", "token", "ips", "errorTime", "error", "sent"}

LEMMA ServeLoads ==
    ASSUME TypeOK, NEW h \in Handlers, ServeHTTP(h)
    PROVE  /\ UNCHANGED <<origin, entry, phases, writer, podVars>>
           /\ \E pc \in Places, r \in Reply : Loads(h, pc, r) /\ Handles(h, pc, r)
<1> DEFINE Goes(pc, r) == pc \in Places /\ r \in Reply /\ Loads(h, pc, r) /\ Handles(h, pc, r)
<1>0. handler[h].reply \in Reply /\ entry \in Entry BY DEF TypeOK
<1>1. SUFFICES \E pc, r : Goes(pc, r) BY DEF Handles
<1> USE <1>0 DEF Places, Reply, Entry, Codes, TokenData, NewReply, Loads
<1>2. CASE GetOnDemandPod(h)
  <2>1. Goes("code", NewReply) BY <1>2 DEF GetOnDemandPod
  <2> QED BY <2>1
<1>3. CASE ReadResultCode(h)
  <2>1. Goes("token", [handler[h].reply EXCEPT !.code = entry.code])
    BY <1>3 DEF ReadResultCode
  <2> QED BY <2>1
<1>4. CASE ReadTokenData(h)
  <2>1. Goes("ips", [handler[h].reply EXCEPT !.token = entry.token])
    BY <1>4 DEF ReadTokenData
  <2> QED BY <2>1
<1>5. CASE ReadPodIPs(h)
  <2>1. CASE Handles(h, "idle", NewReply)
    <3>1. Goes("idle", NewReply) BY <2>1
    <3> QED BY <3>1
  <2>2. CASE \E some \in BOOLEAN :
              Handles(h, "errorTime", [handler[h].reply EXCEPT !.ips = some])
    <3>1. PICK some \in BOOLEAN :
              Handles(h, "errorTime", [handler[h].reply EXCEPT !.ips = some])
      BY <2>2
    <3>2. Goes("errorTime", [handler[h].reply EXCEPT !.ips = some])
      BY <1>5, <3>1 DEF ReadPodIPs
    <3> QED BY <3>2
  <2>3. \A some \in {entry.ips} \cup (IF BeingWritten("ips") THEN {TRUE} ELSE {}) :
           some \in BOOLEAN
    OBVIOUS
  <2> QED BY <1>5, <2>1, <2>2, <2>3 DEF ReadPodIPs
<1>6. CASE ReadErrorTime(h)
  <2>1. Goes(IF entry.errorTime THEN "error" ELSE "sent", handler[h].reply)
    BY <1>6 DEF ReadErrorTime
  <2> QED BY <2>1
<1>7. CASE ReadError(h)
  <2>1. CASE Handles(h, "idle", NewReply)
    <3>1. Goes("idle", NewReply) BY <2>1
    <3> QED BY <3>1
  <2>2. CASE Handles(h, "sent", [handler[h].reply EXCEPT !.error = TRUE])
    <3>1. Goes("sent", [handler[h].reply EXCEPT !.error = TRUE]) BY <1>7, <2>2 DEF ReadError
    <3> QED BY <3>1
  <2> QED BY <1>7, <2>1, <2>2 DEF ReadError
<1> QED BY <1>2, <1>3, <1>4, <1>5, <1>6, <1>7 DEF ServeHTTP

LEMMA HistoryTyped ==
    ASSUME TypeOK, NEW h \in Handlers, ServeHTTP(h)
    PROVE  told' \in 0..2 /\ since' \in [Handlers -> 0..2]
<1>1. PICK pc \in Places, r \in Reply : Handles(h, pc, r) BY ServeLoads
<1>2. Answer(r) \in 0..2 BY DEF Answer
<1>3. Further(told, Answer(r)) \in 0..2 BY <1>2 DEF Further, TypeOK
<1> QED BY <1>1, <1>3 DEF Handles, TypeOK

LEMMA TypeStep == TypeOK /\ ErrorBeforeCode /\ [Next]_vars => TypeOK'
<1> SUFFICES ASSUME TypeOK, ErrorBeforeCode, [Next]_vars PROVE TypeOK'
  OBVIOUS
<1> USE WritersAssumption DEF TypeOK, Entry, Reply, Codes, TokenData, Writers, WriterAt, WriterGoes,
                             ErrorBeforeCode, history, podVars
<1>1. ASSUME NEW c \in Creators, CreatorStep(c) PROVE TypeOK'
  <2>1. CASE CheckUser(c) BY <2>1 DEF CheckUser, Fails
  <2>2. CASE createOdpToken(c)
    <3>1. UNCHANGED <<origin, phases, handler, spec, podToken, history>> /\ replaced' \in BOOLEAN
      BY <2>2 DEF createOdpToken
    <3>2. entry' \in Entry /\ (entry'.error => entry'.errorTime)
      BY <2>2 DEF createOdpToken
    <3>3. \E pc \in {"errorTime", "spec"} : writer' = [writer EXCEPT ![c] = pc]
      BY <2>2 DEF createOdpToken, Fails
    <3> QED BY <3>1, <3>2, <3>3
  <2>3. CASE getPodSpec(c) BY <2>3 DEF getPodSpec, Fails
  <2>4. CASE createPod(c) BY <2>4 DEF createPod, Fails
  <2>5. CASE setOdpError(c)
    <3>1. UNCHANGED <<origin, phases, handler, podVars, history>> BY <2>5 DEF setOdpError
    <3>2. entry' \in Entry /\ (entry'.error => entry'.errorTime)
      BY <2>5 DEF setOdpError
    <3>3. \E pc \in {"error", "code", "idle"} : writer' = [writer EXCEPT ![c] = pc]
      BY <2>5 DEF setOdpError
    <3> QED BY <3>1, <3>2, <3>3
  <2> QED BY <1>1, <2>1, <2>2, <2>3, <2>4, <2>5 DEF CreatorStep
<1>2. ASSUME NEW w \in Workers, WorkerStep(w) PROVE TypeOK'
  <2>1. CASE reloadOdp(w) BY <2>1 DEF reloadOdp
  <2>2. CASE PodFailed(w) BY <2>2 DEF PodFailed, Fails
  <2>3. CASE handlePodUpdate(w) BY <2>3 DEF handlePodUpdate
  <2>4. CASE setOdpError(w) BY <2>4 DEF setOdpError
  <2> QED BY <1>2, <2>1, <2>2, <2>3, <2>4 DEF WorkerStep
<1>3. CASE PodMoves BY <1>3 DEF PodMoves
<1>4. ASSUME NEW h \in Handlers, ServeHTTP(h) PROVE TypeOK'
  <2>0. TypeOK BY DEF TokenInv, ErrorInv
  <2>1. PICK pc \in Places, r \in Reply :
          /\ Loads(h, pc, r)
          /\ handler' = [handler EXCEPT ![h] = [pc |-> pc, reply |-> r]]
    BY <1>4, <2>0, ServeLoads DEF Handles
  <2>2. UNCHANGED <<origin, entry, phases, writer, podVars>> BY <1>4, <2>0, ServeLoads
  <2>3. told' \in 0..2 /\ since' \in [Handlers -> 0..2] BY <1>4, <2>0, HistoryTyped
  <2>4. handler' \in [Handlers ->
           [pc : {"idle", "code", "token", "ips", "errorTime", "error", "sent"},
            reply : Reply]]
    BY <2>1 DEF Places
  <2> QED BY <2>2, <2>3, <2>4
<1>5. CASE UNCHANGED vars BY <1>5 DEF vars
<1> QED BY <1>1, <1>2, <1>3, <1>4, <1>5 DEF Next

LEMMA StoresOrdered == TypeOK /\ ErrorBeforeCode /\ [Next]_vars => ErrorBeforeCode'
<1> SUFFICES ASSUME TypeOK, ErrorBeforeCode, [Next]_vars PROVE ErrorBeforeCode'
  OBVIOUS
<1> USE WritersAssumption DEF TypeOK, Entry, Codes, Writers, WriterAt, WriterGoes, ErrorBeforeCode
<1>1. ASSUME NEW c \in Creators, CreatorStep(c) PROVE ErrorBeforeCode'
  <2>1. CASE CheckUser(c) BY <2>1 DEF CheckUser, Fails
  <2>2. CASE createOdpToken(c) BY <2>2 DEF createOdpToken, Fails
  <2>3. CASE getPodSpec(c) BY <2>3 DEF getPodSpec, Fails
  <2>4. CASE createPod(c) BY <2>4 DEF createPod, Fails
  <2>5. CASE setOdpError(c) BY <2>5 DEF setOdpError
  <2> QED BY <1>1, <2>1, <2>2, <2>3, <2>4, <2>5 DEF CreatorStep
<1>2. ASSUME NEW w \in Workers, WorkerStep(w) PROVE ErrorBeforeCode'
  <2>1. CASE reloadOdp(w) BY <2>1 DEF reloadOdp
  <2>2. CASE PodFailed(w) BY <2>2 DEF PodFailed, Fails
  <2>3. CASE handlePodUpdate(w) BY <2>3 DEF handlePodUpdate
  <2>4. CASE setOdpError(w) BY <2>4 DEF setOdpError
  <2> QED BY <1>2, <2>1, <2>2, <2>3, <2>4 DEF WorkerStep
<1>3. CASE PodMoves BY <1>3 DEF PodMoves
<1>4. ASSUME NEW h \in Handlers, ServeHTTP(h) PROVE ErrorBeforeCode'
  BY <1>4 DEF ServeHTTP, GetOnDemandPod, ReadResultCode, ReadTokenData, ReadPodIPs,
              ReadErrorTime, ReadError, Handles
<1>5. CASE UNCHANGED vars BY <1>5 DEF vars
<1> QED BY <1>1, <1>2, <1>3, <1>4, <1>5 DEF Next

LEMMA LoadsOrdered == ErrorInv /\ [Next]_vars => ReadsErrorAfterCode'
<1> SUFFICES ASSUME ErrorInv, [Next]_vars PROVE ReadsErrorAfterCode'
  OBVIOUS
<1> USE WritersAssumption DEF TypeOK, Entry, Codes, Writers, WriterAt, WriterGoes, Reply, ErrorInv, ErrorBeforeCode, ReadsErrorAfterCode
<1>1. ASSUME NEW c \in Creators, CreatorStep(c) PROVE ReadsErrorAfterCode'
  <2>1. CASE CheckUser(c) BY <2>1 DEF CheckUser, Fails
  <2>2. CASE createOdpToken(c) BY <2>2 DEF createOdpToken, Fails
  <2>3. CASE getPodSpec(c) BY <2>3 DEF getPodSpec, Fails
  <2>4. CASE createPod(c) BY <2>4 DEF createPod, Fails
  <2>5. CASE setOdpError(c) BY <2>5 DEF setOdpError
  <2> QED BY <1>1, <2>1, <2>2, <2>3, <2>4, <2>5 DEF CreatorStep
<1>2. ASSUME NEW w \in Workers, WorkerStep(w) PROVE ReadsErrorAfterCode'
  <2>1. CASE reloadOdp(w) BY <2>1 DEF reloadOdp
  <2>2. CASE PodFailed(w) BY <2>2 DEF PodFailed, Fails
  <2>3. CASE handlePodUpdate(w) BY <2>3 DEF handlePodUpdate
  <2>4. CASE setOdpError(w) BY <2>4 DEF setOdpError
  <2> QED BY <1>2, <2>1, <2>2, <2>3, <2>4 DEF WorkerStep
<1>3. CASE PodMoves BY <1>3 DEF PodMoves
<1>4. ASSUME NEW h \in Handlers, ServeHTTP(h) PROVE ReadsErrorAfterCode'
  <2>0. TypeOK BY DEF TokenInv, ErrorInv
  <2>1. PICK pc \in Places, r \in Reply :
          /\ Loads(h, pc, r)
          /\ handler' = [handler EXCEPT ![h] = [pc |-> pc, reply |-> r]]
    BY <1>4, <2>0, ServeLoads DEF Handles
  <2>2. UNCHANGED <<origin, entry, phases, writer, podVars>> BY <1>4, <2>0, ServeLoads
  <2> QED BY <2>1, <2>2 DEF Loads, HandlerAt, NewReply, Places
<1>5. CASE UNCHANGED vars BY <1>5 DEF vars
<1> QED BY <1>1, <1>2, <1>3, <1>4, <1>5 DEF Next

LEMMA InitErrorInv == Init => ErrorInv
<1> SUFFICES ASSUME Init PROVE ErrorInv OBVIOUS
<1>1. /\ entry \in Entry /\ ~entry.error /\ entry.code # "Failed"
      /\ NewReply \in Reply /\ NewReply.code # "Failed"
  BY DEF Init, Entry, Reply, Codes, TokenData, NewEntry, NewReply
<1>2. /\ writer \in [Writers -> {"idle", "check", "token", "spec", "post", "reload",
                                "ips", "errorTime", "error", "code"}]
      /\ \A w \in Writers : writer[w] \notin {"error", "code"}
  BY DEF Init, Writers
<1>3. /\ origin \in Origin /\ phases \subseteq {"Pending", "Running", "Failed"}
      /\ handler = [h \in Handlers |-> [pc |-> "idle", reply |-> NewReply]]
      /\ told \in 0..2 /\ since \in [Handlers -> 0..2]
  BY DEF Init
<1>4. spec \in [Creators -> TokenData] /\ podToken \in TokenData /\ replaced \in BOOLEAN
  BY DEF Init, TokenData
<1>5. TypeOK BY <1>1, <1>2, <1>3, <1>4 DEF TypeOK
<1> QED BY <1>1, <1>2, <1>3, <1>5 DEF ErrorInv, ErrorBeforeCode, ReadsErrorAfterCode

LEMMA ErrorInvHolds == Spec => []ErrorInv
<1>1. ErrorInv /\ [Next]_vars => ErrorInv'
  BY TypeStep, StoresOrdered, LoadsOrdered DEF ErrorInv
<1> QED BY <1>1, InitErrorInv, PTL DEF Spec

(* TypeOK holds for every number of requests, creators and workers; among   *)
(* it, that an entry never has an error without the time that makes it      *)
(* expire (helpers.go:30-31).                                               *)
THEOREM ReplyTypeCorrect == Spec => []TypeOK
<1>1. ErrorInv => TypeOK BY DEF ErrorInv
<1> QED BY <1>1, ErrorInvHolds, PTL

(* No client is given an error code without the error, however setOdpError  *)
(* of several creators and workers and ServeHTTP interleave (helpers.go:30- *)
(* 32, rest.go:167-175).                                                    *)
THEOREM FailuresAreExplained == Spec => []FailedReplyHasError
<1>1. ErrorInv => FailedReplyHasError
  BY DEF ErrorInv, ReadsErrorAfterCode, FailedReplyHasError, Sent, HandlerAt, ReplyOf
<1> QED BY <1>1, ErrorInvHolds, PTL

-----------------------------------------------------------------------------
LEMMA InitTokenInv == Init => TokenBeforePod /\ ReadsTokenAfterCode
  BY DEF Init, TokenBeforePod, ReadsTokenAfterCode, OwnPod, Origin, NewEntry, NewReply

(* Token data that is stored late counts as such.                           *)
LEMMA TokenStoreKeeps ==
    ASSUME TokenInv, NEW c \in Creators, createOdpToken(c)
    PROVE  TokenBeforePod' /\ ReadsTokenAfterCode'
<1>1. /\ WriterAt(c, "token") /\ UNCHANGED <<origin, phases, handler, spec, podToken>>
      /\ writer \in [Writers -> {"idle", "check", "token", "spec", "post", "reload",
                                "ips", "errorTime", "error", "code"}]
      /\ c \in Writers
  BY DEF createOdpToken, TokenInv, TypeOK, Writers
<1>2. CASE Fails(c) /\ UNCHANGED <<entry, replaced>>
  <2>1. \A w \in Writers : writer'[w] = IF w = c THEN "errorTime" ELSE writer[w]
    BY <1>1, <1>2 DEF Fails, WriterGoes
  <2>2. TokenBeforePod'
    BY <1>1, <1>2, <2>1 DEF TokenInv, TokenBeforePod, OwnPod, Writers
  <2>3. ReadsTokenAfterCode' BY <1>1, <1>2 DEF TokenInv, ReadsTokenAfterCode, OwnPod
  <2> QED BY <2>2, <2>3
<1>3. CASE ~(Fails(c) /\ UNCHANGED <<entry, replaced>>)
  <2> SUFFICES ASSUME OwnPod' PROVE TokenBeforePod' /\ ReadsTokenAfterCode'
    BY DEF TokenBeforePod, ReadsTokenAfterCode
  <2>1. /\ WriterGoes(c, "spec") /\ entry'.code = entry.code
        /\ replaced' = (replaced \/ phases # {} \/ \E d \in Creators : WriterAt(d, "post"))
    BY <1>3 DEF createOdpToken, TokenInv, TypeOK, Entry
  <2>2. OwnPod /\ phases = {} /\ \A d \in Creators : ~WriterAt(d, "post")
    BY <1>1, <2>1 DEF OwnPod
  <2>3. \A w \in Writers : writer'[w] = IF w = c THEN "spec" ELSE writer[w]
    BY <1>1, <2>1 DEF WriterGoes
  <2>4. TokenBeforePod'
    BY <1>1, <2>1, <2>2, <2>3 DEF TokenInv, TokenBeforePod, WriterAt, Writers
  <2>5. ReadsTokenAfterCode' BY <1>1, <2>2 DEF TokenInv, ReadsTokenAfterCode
  <2> QED BY <2>4, <2>5
<1> QED BY <1>2, <1>3

LEMMA TokensOrdered == TokenInv /\ [Next]_vars => TokenBeforePod'
<1> SUFFICES ASSUME TokenInv, [Next]_vars PROVE TokenBeforePod'
  OBVIOUS
<1> USE WritersAssumption DEF TypeOK, Entry, Codes, Writers, WriterAt, WriterGoes, Origin, OwnPod,
                             TokenInv, TokenBeforePod, podVars
<1>1. ASSUME NEW c \in Creators, CreatorStep(c) PROVE TokenBeforePod'
  <2>1. CASE CheckUser(c) BY <2>1 DEF CheckUser, Fails
  <2>2. CASE createOdpToken(c) BY <2>2, TokenStoreKeeps
  <2>3. CASE getPodSpec(c) BY <2>3 DEF getPodSpec, Fails
  <2>4. CASE createPod(c) BY <2>4 DEF createPod, Fails
  <2>5. CASE setOdpError(c) BY <2>5 DEF setOdpError
  <2> QED BY <1>1, <2>1, <2>2, <2>3, <2>4, <2>5 DEF CreatorStep
<1>2. ASSUME NEW w \in Workers, WorkerStep(w) PROVE TokenBeforePod'
  <2>1. CASE reloadOdp(w) BY <2>1 DEF reloadOdp
  <2>2. CASE PodFailed(w) BY <2>2 DEF PodFailed, Fails
  <2>3. CASE handlePodUpdate(w) BY <2>3 DEF handlePodUpdate
  <2>4. CASE setOdpError(w) BY <2>4 DEF setOdpError
  <2> QED BY <1>2, <2>1, <2>2, <2>3, <2>4 DEF WorkerStep
<1>3. CASE PodMoves BY <1>3 DEF PodMoves
<1>4. ASSUME NEW h \in Handlers, ServeHTTP(h) PROVE TokenBeforePod'
  BY <1>4, ServeLoads
<1>5. CASE UNCHANGED vars BY <1>5 DEF vars
<1> QED BY <1>1, <1>2, <1>3, <1>4, <1>5 DEF Next

LEMMA TokenLoadsOrdered == TokenInv /\ [Next]_vars => ReadsTokenAfterCode'
<1> SUFFICES ASSUME TokenInv, [Next]_vars PROVE ReadsTokenAfterCode'
  OBVIOUS
<1> USE WritersAssumption DEF TypeOK, Entry, Codes, Writers, WriterAt, WriterGoes, Reply, OwnPod,
                             TokenInv, TokenBeforePod, ReadsTokenAfterCode, podVars
<1>1. ASSUME NEW c \in Creators, CreatorStep(c) PROVE ReadsTokenAfterCode'
  <2>1. CASE CheckUser(c) BY <2>1 DEF CheckUser, Fails
  <2>2. CASE createOdpToken(c) BY <2>2, TokenStoreKeeps
  <2>3. CASE getPodSpec(c) BY <2>3 DEF getPodSpec, Fails
  <2>4. CASE createPod(c) BY <2>4 DEF createPod, Fails
  <2>5. CASE setOdpError(c) BY <2>5 DEF setOdpError
  <2> QED BY <1>1, <2>1, <2>2, <2>3, <2>4, <2>5 DEF CreatorStep
<1>2. ASSUME NEW w \in Workers, WorkerStep(w) PROVE ReadsTokenAfterCode'
  <2>1. CASE reloadOdp(w) BY <2>1 DEF reloadOdp
  <2>2. CASE PodFailed(w) BY <2>2 DEF PodFailed, Fails
  <2>3. CASE handlePodUpdate(w) BY <2>3 DEF handlePodUpdate
  <2>4. CASE setOdpError(w) BY <2>4 DEF setOdpError
  <2> QED BY <1>2, <2>1, <2>2, <2>3, <2>4 DEF WorkerStep
<1>3. CASE PodMoves BY <1>3 DEF PodMoves
<1>4. ASSUME NEW h \in Handlers, ServeHTTP(h) PROVE ReadsTokenAfterCode'
  <2>1. PICK pc \in Places, r \in Reply :
          /\ Loads(h, pc, r)
          /\ handler' = [handler EXCEPT ![h] = [pc |-> pc, reply |-> r]]
    BY <1>4, ServeLoads DEF Handles
  <2>2. UNCHANGED <<origin, entry, phases, writer, podVars>> BY <1>4, ServeLoads
  <2> QED BY <2>1, <2>2 DEF Loads, HandlerAt, NewReply, Places
<1>5. CASE UNCHANGED vars BY <1>5 DEF vars
<1> QED BY <1>1, <1>2, <1>3, <1>4, <1>5 DEF Next

(* A client that is told Ready gets the token data its Pod was made with,   *)
(* for any number of creators and workers, unless the Pod is of an earlier  *)
(* instance or a creator stored its token data when the template of another *)
(* was expanded already (factory_token.go:22, factory.go:332, 341, 373,     *)
(* factory_podevents.go:126).                                               *)
THEOREM ReadyHasToken == Spec => []ReadyReplyHasToken
<1>1. Init => TokenBeforePod /\ ReadsTokenAfterCode BY InitTokenInv
<1>2. TokenInv /\ [Next]_vars => (TokenBeforePod /\ ReadsTokenAfterCode)'
  BY TokensOrdered, TokenLoadsOrdered
<1>3. TypeOK /\ TokenBeforePod /\ ReadsTokenAfterCode <=> TokenInv BY DEF TokenInv
<1>4. TokenInv => ReadyReplyHasToken
  BY DEF TokenInv, TokenBeforePod, ReadsTokenAfterCode, ReadyReplyHasToken, OwnPod, Sent,
         HandlerAt, ReplyOf
<1> QED BY <1>1, <1>2, <1>3, <1>4, ReplyTypeCorrect, PTL DEF Spec

-----------------------------------------------------------------------------
(* AnswersGoForward.  What an answer has told of the entry stays true of    *)
(* it, and the next request reads that or more.                             *)
StillTrue(answer) ==
    /\ answer = 1 => entry.code # "Creating"
    /\ answer = 2 => entry.errorTime

ReadsForward(h) ==
    LET reply == handler[h].reply IN
    /\ StillTrue(since[h])
    /\ handler[h].pc \in {"code", "token", "ips", "errorTime", "error"} => ~reply.error
    /\ handler[h].pc = "error" => entry.errorTime
    /\ handler[h].pc \in {"token", "ips", "errorTime", "error", "sent"} =>
          /\ reply.code # "Creating" => entry.code # "Creating"
          /\ since[h] = 1 => reply.code # "Creating"
    /\ handler[h].pc = "sent" /\ since[h] = 2 => reply.error

AnswerInv == StillTrue(told) /\ \A h \in Handlers : ReadsForward(h)

LEMMA WritersGoForward ==
    ASSUME TypeOK, [Next]_vars
    PROVE  /\ entry.errorTime => entry'.errorTime
           /\ entry.code # "Creating" => entry'.code # "Creating"
           /\ (\E h \in Handlers : ServeHTTP(h)) \/ UNCHANGED <<handler, history>>
<1> USE DEF TypeOK, Entry, Codes
<1>1. ASSUME NEW w, setOdpError(w) \/ reloadOdp(w) \/ PodFailed(w) \/ handlePodUpdate(w)
      PROVE  /\ entry.errorTime => entry'.errorTime
             /\ entry.code # "Creating" => entry'.code # "Creating"
             /\ UNCHANGED <<handler, history>>
  BY <1>1 DEF setOdpError, reloadOdp, PodFailed, handlePodUpdate
<1>2. ASSUME NEW c, CheckUser(c) \/ createOdpToken(c) \/ getPodSpec(c) \/ createPod(c)
      PROVE  /\ entry.errorTime => entry'.errorTime
             /\ entry.code # "Creating" => entry'.code # "Creating"
             /\ UNCHANGED <<handler, history>>
  BY <1>2 DEF CheckUser, createOdpToken, getPodSpec, createPod
<1>3. CASE PodMoves BY <1>3 DEF PodMoves
<1>4. ASSUME NEW h \in Handlers, ServeHTTP(h) PROVE UNCHANGED entry
  BY <1>4, ServeLoads
<1>5. CASE UNCHANGED vars BY <1>5 DEF vars
<1> QED BY <1>1, <1>2, <1>3, <1>4, <1>5 DEF Next, CreatorStep, WorkerStep

(* The step of one request.                                                 *)
LEMMA ReplyGoesForward ==
    ASSUME TypeOK, AnswerInv, NEW h \in Handlers, ServeHTTP(h)
    PROVE  AnswerInv'
<1>1. PICK pc \in Places, r \in Reply : Loads(h, pc, r) /\ Handles(h, pc, r)
  BY ServeLoads
<1>2. /\ entry' = entry
      /\ \A g \in Handlers : handler'[g] = IF g = h THEN [pc |-> pc, reply |-> r] ELSE handler[g]
      /\ told' = IF pc = "sent" THEN Further(told, Answer(r)) ELSE told
      /\ \A g \in Handlers : since'[g] = IF g = h /\ pc = "code" THEN told ELSE since[g]
  BY <1>1 DEF Handles, TypeOK
<1>3. ReadsForward(h) /\ StillTrue(told) BY DEF AnswerInv
<1>4. since'[h] = (IF pc = "code" THEN told ELSE since[h]) /\ StillTrue(since'[h])
  BY <1>2, <1>3 DEF ReadsForward
<1>5. r.code # "Creating" /\ pc \in {"token", "ips", "errorTime", "error", "sent"}
         => entry.code # "Creating"
  <2>1. handler[h].reply \in Reply BY DEF TypeOK
  <2> QED BY <1>1, <1>3, <2>1 DEF Loads, HandlerAt, ReadsForward, NewReply, Reply
<1>6. pc \in {"code", "token", "ips", "errorTime", "error"} => ~r.error
  BY <1>1, <1>3 DEF Loads, HandlerAt, ReadsForward, NewReply
<1>7. pc = "error" => entry.errorTime
  BY <1>1, <1>3 DEF Loads, HandlerAt, ReadsForward
<1>8. pc = "sent" /\ r.error => entry.errorTime
  BY <1>1, <1>3 DEF Loads, HandlerAt, ReadsForward
<1>9. pc = "sent" /\ since[h] = 2 => r.error
  BY <1>1, <1>3 DEF Loads, HandlerAt, ReadsForward, StillTrue, Reply
<1>10. pc \in {"token", "ips", "errorTime", "error", "sent"} /\ since[h] = 1 => r.code # "Creating"
  BY <1>1, <1>3 DEF Loads, HandlerAt, ReadsForward, StillTrue, Reply
<1>11. StillTrue(told)'
  <2>1. CASE pc # "sent" BY <1>2, <1>3, <2>1 DEF StillTrue
  <2>2. CASE pc = "sent"
    <3>1. StillTrue(Answer(r)) BY <1>5, <1>8, <2>2 DEF StillTrue, Answer
    <3>2. told' = told \/ told' = Answer(r) BY <1>2, <2>2 DEF Further
    <3> QED BY <1>2, <1>3, <3>1, <3>2 DEF StillTrue
  <2> QED BY <2>1, <2>2
<1>12. ReadsForward(h)'
  <2>1. handler'[h].pc = pc /\ handler'[h].reply = r BY <1>2
  <2>2. StillTrue(since[h])' BY <1>2, <1>4 DEF StillTrue
  <2> QED BY <1>2, <1>4, <1>5, <1>6, <1>7, <1>9, <1>10, <2>1, <2>2 DEF ReadsForward
<1>13. ASSUME NEW g \in Handlers, g # h PROVE ReadsForward(g)'
  BY <1>2, <1>13 DEF AnswerInv, ReadsForward, StillTrue
<1> QED BY <1>11, <1>12, <1>13 DEF AnswerInv

(* Who asks after an answer was given is told at least as much, for any     *)
(* number of requests, creators and workers (rest.go:167-175,               *)
(* factory_podevents.go:94, 126, helpers.go:30-32).                         *)
THEOREM AnswersNeverGoBack == Spec => []AnswersGoForward
<1>1. Init => AnswerInv
  BY DEF Init, AnswerInv, StillTrue, ReadsForward
<1>2. TypeOK /\ AnswerInv /\ [Next]_vars => AnswerInv'
  <2> SUFFICES ASSUME TypeOK, AnswerInv, [Next]_vars PROVE AnswerInv' OBVIOUS
  <2>1. CASE \E h \in Handlers : ServeHTTP(h) BY <2>1, ReplyGoesForward
  <2>2. CASE UNCHANGED <<handler, history>>
    <3>1. /\ entry.errorTime => entry'.errorTime
          /\ entry.code # "Creating" => entry'.code # "Creating"
      BY WritersGoForward
    <3> QED BY <2>2, <3>1 DEF AnswerInv, ReadsForward, StillTrue, history
  <2> QED BY <2>1, <2>2, WritersGoForward
<1>3. TypeOK /\ AnswerInv => AnswersGoForward
  <2> SUFFICES ASSUME TypeOK, AnswerInv, NEW h \in Handlers, Sent(h)
               PROVE  Answer(ReplyOf(h)) >= since[h]
    BY DEF AnswersGoForward
  <2>1. since[h] \in 0..2 BY DEF TypeOK
  <2>2. ReadsForward(h) /\ handler[h].pc = "sent" BY DEF AnswerInv, Sent, HandlerAt
  <2> QED BY <2>1, <2>2 DEF ReadsForward, Answer, ReplyOf
<1> QED BY <1>1, <1>2, <1>3, ReplyTypeCorrect, PTL DEF Spec

=============================================================================
