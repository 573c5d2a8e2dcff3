------------------------------ MODULE Watchers ------------------------------
(***************************************************************************)
(* The users of the directory watcher together (server.go:166-204): main    *)
(* sets up log control, the client certificate of the Token service and the *)
(* server certificate of the REST API in this order, one dispatcher runs    *)
(* the handlers of all of them, and their files change at any time.         *)
(***************************************************************************)
EXTENDS CertWatcher, LogControl

ASSUME WatchersAssumption == Users = Certs \cup {Log} /\ Log \notin Certs

vars == <<stage, dispatchVars, events, running, certVars, logVars>>

Init == DirInit /\ CertInit /\ LogInit

Main ==
    \/ (initLogging \/ RegisterLog) /\ UNCHANGED certVars
    \/ \E w \in Certs : NewWatcher(w) /\ UNCHANGED logVars

Dispatcher ==
    \/ Dispatch /\ UNCHANGED <<certVars, logVars>>
    \/ \E w \in Certs : certHandler(w) /\ UNCHANGED logVars
    \/ logHandler /\ UNCHANGED certVars

FilesChange ==
    \/ \E w \in Certs : CertFiles(w) /\ UNCHANGED logVars
    \/ EditLogFile /\ UNCHANGED certVars

Next == Main \/ Dispatcher \/ FilesChange

Spec == Init /\ [][Next]_vars

TypeOK == DirTypeOK /\ CertTypeOK /\ LogTypeOK

=============================================================================
