---------------------------- MODULE CertWatcher ----------------------------
(***************************************************************************)
(* The certificate watchers (internal/certwatcher): main loads the pair of  *)
(* certificate and key once, and the dispatcher of DirWatcher loads it      *)
(* again when the directory changes.  A directory is a secret mounted by    *)
(* Kubernetes, which replaces both files at once by switching ..data, or a  *)
(* plain one, whose files are written one by one.  A file is abstracted to  *)
(* the version of the pair it belongs to, 0 for a file that is not there.   *)
(***************************************************************************)
EXTENDS DirWatcher

CONSTANTS
    Certs,      \* users that are certificate watchers
    Mounted,    \* those whose directory is a mounted secret
    MaxVersion  \* bound on the rotations

ASSUME CertsAssumption ==
    /\ Certs \subseteq Users /\ Mounted \subseteq Certs
    /\ MaxVersion \in Nat \ {0}

VARIABLES
    disk,     \* the directory of each watcher
    plainDir, \* CertWatcher.plainDir
    tlsCert,  \* CertWatcher.tlsCert: the version of the pair
    loaded,   \* locals of updateCert in main: version of the certificate read
    reloaded, \* the same in the dispatcher
    heard     \* history: the dispatcher will be told of the latest change

certVars == <<disk, plainDir, tlsCert, loaded, reloaded, heard>>

Versions == 0..MaxVersion
Disk == [data : BOOLEAN, cert : Versions, key : Versions]

Empty == [data |-> FALSE, cert |-> 0, key |-> 0]

(* A secret is mounted before the start, or the directory is still empty.   *)
CertInit ==
    /\ disk \in [Certs -> Disk]
    /\ \A w \in Certs :
          disk[w] \in {Empty, [data |-> w \in Mounted, cert |-> 1, key |-> 1]}
    /\ plainDir = [w \in Certs |-> FALSE]
    /\ tlsCert = [w \in Certs |-> 0]
    /\ loaded = [w \in Certs |-> 0]
    /\ reloaded = [w \in Certs |-> 0]
    /\ heard = [w \in Certs |-> FALSE]

-----------------------------------------------------------------------------
(* NewWatcher, in main *)

(* Variant: the directory is watched before the files are waited for, by    *)
(* putting WatchDirectory first.                                            *)
WatchFirst(w) ==
    /\ StageIs(w, "new") /\ Turn(w)
    /\ plainDir' = [plainDir EXCEPT ![w] = ~disk[w].data]
    /\ watched' = watched \cup {DirOf[w]}
    /\ handlers' = [handlers EXCEPT ![DirOf[w]] = w]
    /\ StageGoes(w, "wait")
    /\ UNCHANGED <<events, running, disk, tlsCert, loaded, reloaded, heard>>

StatDataDir(w) ==
    /\ StageIs(w, "new") /\ Turn(w)
    /\ plainDir' = [plainDir EXCEPT ![w] = ~disk[w].data]
    /\ StageGoes(w, "wait")
    /\ UNCHANGED <<dispatchVars, events, running, disk, tlsCert, loaded, reloaded, heard>>

waitForCert(w) ==
    /\ StageIs(w, "wait")
    /\ disk[w].cert # 0 /\ disk[w].key # 0
    /\ StageGoes(w, "read")
    /\ UNCHANGED <<dispatchVars, events, running, certVars>>

(* updateCert: the certificate is read, then the key; a pair that does not  *)
(* match is an error and the old one is kept.                               *)
LoadCert(w) ==
    /\ StageIs(w, "read")
    /\ loaded' = [loaded EXCEPT ![w] = disk[w].cert]
    /\ StageGoes(w, "next")
    /\ UNCHANGED <<dispatchVars, events, running, disk, plainDir, tlsCert, reloaded, heard>>

LoadKey(w) ==
    /\ StageIs(w, "next")
    /\ IF disk[w].key = loaded[w]
       THEN StageGoes(w, "set") /\ UNCHANGED loaded
       ELSE StageGoes(w, "watch") /\ loaded' = [loaded EXCEPT ![w] = 0]
    /\ UNCHANGED <<dispatchVars, events, running, disk, plainDir, tlsCert, reloaded, heard>>

SetCert(w) ==
    /\ StageIs(w, "set")
    /\ tlsCert' = [tlsCert EXCEPT ![w] = loaded[w]]
    /\ loaded' = [loaded EXCEPT ![w] = 0]
    /\ StageGoes(w, "watch")
    /\ UNCHANGED <<dispatchVars, events, running, disk, plainDir, reloaded, heard>>

NewWatcher(w) ==
    \/ StatDataDir(w) \/ waitForCert(w) \/ LoadCert(w) \/ LoadKey(w) \/ SetCert(w)
    \/ (AddWatch(w) \/ Register(w)) /\ UNCHANGED certVars

-----------------------------------------------------------------------------
(* dirWatchHandler, in the dispatcher *)

(* Variant: the handler waits for a write of the certificate file, which a  *)
(* mounted secret never has.                                                *)
CheckFileOnly(w) ==
    /\ Handling(w, "check")
    /\ IF running.file = "file" THEN HandlerGoes("read") ELSE HandlerReturns
    /\ UNCHANGED <<stage, dispatchVars, events, certVars>>

CheckEvent(w) ==
    /\ Handling(w, "check")
    /\ IF Wanted(running.file, plainDir[w]) THEN HandlerGoes("read") ELSE HandlerReturns
    /\ UNCHANGED <<stage, dispatchVars, events, certVars>>

ReloadCert(w) ==
    /\ Handling(w, "read")
    /\ reloaded' = [reloaded EXCEPT ![w] = disk[w].cert]
    /\ HandlerGoes("next")
    /\ UNCHANGED <<stage, dispatchVars, events, disk, plainDir, tlsCert, loaded, heard>>

ReloadKey(w) ==
    /\ Handling(w, "next")
    /\ IF disk[w].key = reloaded[w]
       THEN HandlerGoes("set") /\ UNCHANGED reloaded
       ELSE HandlerReturns /\ reloaded' = [reloaded EXCEPT ![w] = 0]
    /\ UNCHANGED <<stage, dispatchVars, events, disk, plainDir, tlsCert, loaded, heard>>

UpdateCert(w) ==
    /\ Handling(w, "set")
    /\ tlsCert' = [tlsCert EXCEPT ![w] = reloaded[w]]
    /\ reloaded' = [reloaded EXCEPT ![w] = 0]
    /\ HandlerReturns
    /\ UNCHANGED <<stage, dispatchVars, events, disk, plainDir, loaded, heard>>

certHandler(w) ==
    CheckEvent(w) \/ ReloadCert(w) \/ ReloadKey(w) \/ UpdateCert(w)

-----------------------------------------------------------------------------
(* The files change *)

Changes(w, files, file, told) ==
    /\ disk' = [disk EXCEPT ![w] = files]
    /\ Notify(w, file)
    /\ heard' = [heard EXCEPT ![w] = told]
    /\ UNCHANGED <<stage, dispatchVars, running, plainDir, tlsCert, loaded, reloaded>>

(* kubelet: first ..data, then the links of the two files, later the switch *)
(* of ..data to a new pair.                                                 *)
Mount(w) ==
    /\ w \in Mounted
    /\ ~disk[w].data
    /\ Changes(w, [disk[w] EXCEPT !.data = TRUE], "..data", FALSE)

LinkFiles(w) ==
    /\ w \in Mounted
    /\ disk[w].data
    /\ \/ /\ disk[w].cert = 0
          /\ Changes(w, [disk[w] EXCEPT !.cert = 1], "file", FALSE)
       \/ /\ disk[w].cert # 0 /\ disk[w].key = 0
          /\ Changes(w, [disk[w] EXCEPT !.key = 1], "key", FALSE)

RotateSecret(w) ==
    /\ w \in Mounted
    /\ disk[w].key \in 1..(MaxVersion - 1)
    /\ Changes(w, [disk[w] EXCEPT !.cert = @ + 1, !.key = @ + 1], "..data",
               Hears(w, "..data"))

(* An operator writes the files of the next pair in either order; nobody is *)
(* told of a key that is written last.                                      *)
WriteCert(w) ==
    /\ w \notin Mounted
    /\ disk[w].cert <= disk[w].key /\ disk[w].cert < MaxVersion
    /\ Changes(w, [disk[w] EXCEPT !.cert = @ + 1], "file", Hears(w, "file"))

WriteKey(w) ==
    /\ w \notin Mounted
    /\ disk[w].key <= disk[w].cert /\ disk[w].key < MaxVersion
    /\ Changes(w, [disk[w] EXCEPT !.key = @ + 1], "key", FALSE)

CertFiles(w) ==
    Mount(w) \/ LinkFiles(w) \/ RotateSecret(w) \/ WriteCert(w) \/ WriteKey(w)

CertTypeOK ==
    /\ disk \in [Certs -> Disk]
    /\ plainDir \in [Certs -> BOOLEAN]
    /\ tlsCert \in [Certs -> Versions]
    /\ loaded \in [Certs -> Versions] /\ reloaded \in [Certs -> Versions]
    /\ heard \in [Certs -> BOOLEAN]

-----------------------------------------------------------------------------
(* Properties *)

Complete(w) == disk[w].cert # 0 /\ disk[w].cert = disk[w].key
KnowsDir(w) == plainDir[w] = (w \notin Mounted)

(* A new pair that the dispatcher was told of is what connections get once  *)
(* the watcher is quiet: neither the merging of events, nor the two reads   *)
(* of a pair that is being replaced, nor the load in main that precedes     *)
(* the watch leaves an old one (certwatcher.go:59-66, 95-107, 130-139).     *)
CaughtUp ==
    \A w \in Certs :
        heard[w] /\ Complete(w) /\ KnowsDir(w) /\ Quiet(w, plainDir[w])
            => tlsCert[w] = disk[w].cert

(* Connections never go back to an older pair, although main and the        *)
(* dispatcher both load pairs outside certMu (certwatcher.go:95-107).       *)
NeverOlder ==
    [][\A w \in Certs : tlsCert'[w] >= tlsCert[w]]_tlsCert

=============================================================================
