----------------------------- MODULE MCWatchers -----------------------------
(* An instance of Watchers for TLC: one watcher of each kind of directory.  *)
EXTENDS Watchers

CONSTANTS token, rest, log

MCUsers == {token, rest, log}
MCDirOf == [u \in MCUsers |-> u]
MCBefore == [u \in MCUsers |-> CASE u = log -> {}
                                 [] u = token -> {log}
                                 [] u = rest -> {log, token}]
=============================================================================
