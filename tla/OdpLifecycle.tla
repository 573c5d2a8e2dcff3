---------------------------- MODULE OdpLifecycle ----------------------------
(***************************************************************************)
(* What the service promises a client about one On Demand Pod: the answers  *)
(* that requests for a name may get, one after the other.  Nothing is said  *)
(* of locks, channels, events or Pods; OdpFactory implements this           *)
(* (ImplementsLifecycle there).                                             *)
(*                                                                         *)
(*   absent    no entry: the next request starts an attempt                 *)
(*   asked     a request was accepted, its attempt has no outcome yet       *)
(*   creating  the Pod was posted, or found in the namespace                *)
(*   ready     the Pod has run                                              *)
(*   failed    an error is returned, until it expires                       *)
(*   expired   the next request starts a new attempt                        *)
(***************************************************************************)
EXTENDS Naturals

CONSTANT Names

VARIABLES
    shown,   \* the answer a request for the name gets
    ended,   \* names for which the end of a Pod that ended well is being handled
    instance \* history: instances of the service, by turns 0 and 1

vars == <<shown, ended, instance>>

Answers == {"absent", "asked", "creating", "ready", "failed", "expired"}

TypeOK == shown \in [Names -> Answers] /\ ended \subseteq Names /\ instance \in {0, 1}

Init == shown = [n \in Names |-> "absent"] /\ ended = {} /\ instance = 0

Becomes(n, answer) == shown' = [shown EXCEPT ![n] = answer]

Accept(n) ==
    /\ shown[n] \in {"absent", "expired"}
    /\ Becomes(n, "asked")
    /\ UNCHANGED <<ended, instance>>

Find(n) ==
    /\ shown[n] = "absent"
    /\ Becomes(n, "creating")
    /\ UNCHANGED <<ended, instance>>

Post(n) ==
    /\ shown[n] = "asked"
    /\ Becomes(n, "creating")
    /\ UNCHANGED <<ended, instance>>

Start(n) ==
    /\ shown[n] \in {"asked", "creating"}
    /\ Becomes(n, "ready")
    /\ UNCHANGED <<ended, instance>>

(* Also for a Pod that was ready, and a second time after the first error.  *)
Fail(n) ==
    /\ shown[n] # "absent"
    /\ Becomes(n, "failed")
    /\ UNCHANGED <<ended, instance>>

Expire(n) ==
    /\ shown[n] = "failed"
    /\ Becomes(n, "expired")
    /\ UNCHANGED <<ended, instance>>

Forget(n) ==
    /\ shown[n] = "expired"
    /\ Becomes(n, "absent")
    /\ UNCHANGED <<ended, instance>>

HearOfEnd(n) ==
    /\ ended' = ended \cup {n}
    /\ UNCHANGED <<shown, instance>>

(* Events of the same Pod may be handled several times.                     *)
Finish(n) ==
    /\ n \in ended
    /\ Becomes(n, "absent")
    /\ ended' \in {ended, ended \ {n}}
    /\ UNCHANGED instance

(* Only a new instance of the service forgets what it has told.             *)
Crash ==
    /\ shown' = [n \in Names |-> "absent"]
    /\ ended' = {}
    /\ instance' = 1 - instance

Next ==
    \/ \E n \in Names :
         \/ Accept(n) \/ Find(n) \/ Post(n) \/ Start(n) \/ Fail(n)
         \/ Expire(n) \/ Forget(n) \/ HearOfEnd(n) \/ Finish(n)
    \/ Crash

Spec == Init /\ [][Next]_vars

=============================================================================
