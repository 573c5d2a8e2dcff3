---------------------------- MODULE MCOdpFactory ----------------------------
(* Instances of OdpFactory for TLC. *)
EXTENDS OdpFactory, TLC

MCSymmetry == Permutations(Odps) \cup Permutations(Uids) \cup Permutations(Tokens)
              \cup Permutations(Creators) \cup Permutations(Workers)
              \cup Permutations(Requesters) \cup Permutations(Names)

(* Two states with the same view have the same future: an object outside the *)
(* map is only asked for its token, its token types and (by CheckError)      *)
(* whether it has an error; a worker only uses its Pod's token in reloadOdp, *)
(* its phase up to the action it selects, and its UID (in deletedPods and in *)
(* the properties) when the phase is a finished one.  Nobody asks for instance, *)
(* a restart only flips it, so a step says the same of either value.         *)
ViewOdp(o) ==
    IF \E n \in Names : odps[n] = o THEN heap[o]
    ELSE <<heap[o].token, heap[o].wants,
           heap[o].err # "none" /\ \E r \in Requesters : requester[r].odp = o>>

ViewWorker(w) ==
    LET g == worker[w] IN
    IF g.pc = "act" /\ g.pod.phase \notin Finished
    THEN <<g.name, g.pod.phase, g.odp>>
    ELSE IF g.pc = "act" THEN <<g.name, g.pod.phase, g.odp, g.pod.uid>>
    ELSE IF g.pc \in {"remember", "token", "clear", "delete"}
    THEN <<g.name, g.pc, g.odp, g.pod.uid>>
    ELSE g

MCView ==
    <<odps, [o \in HeldOdps \ {None} |-> ViewOdp(o)], createChannel, deletedPods,
      requester, creator, [w \in Workers |-> ViewWorker(w)], waiting, cache, api,
      watch, tokens, undeleted>>

BothEndings == {"Succeeded", "Failed"}
NoFaults == {}
AllFaults == {"createToken", "deleteToken", "createPod", "deletePod"}
Both == BOOLEAN
OnlyTokens == {TRUE}
NoTokens == {FALSE}
=============================================================================
