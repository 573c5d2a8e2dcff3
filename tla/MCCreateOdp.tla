---------------------------- MODULE MCCreateOdp ----------------------------
(* Instances of CreateOdp for TLC. *)
EXTENDS CreateOdp, TLC

CONSTANTS cm1, cm2, a1, a2, g1, g2

WithAndWithout == BOOLEAN

(* Each ConfigMap keeps its application.  The first is edited: other groups, *)
(* a template that expands to no Pod, one that cannot be loaded.  The       *)
(* template of the second cannot be executed.                               *)
ContentsOfOneApplication ==
    (cm1 :> {[app |-> a1, groups |-> {g1}, body |-> "pod"],
             [app |-> a1, groups |-> {g2}, body |-> "pod"],
             [app |-> a1, groups |-> {g1}, body |-> "absent"],
             [app |-> None, groups |-> {None}, body |-> "unparsable"]})
    @@ (cm2 :> {[app |-> a2, groups |-> {g1}, body |-> "fails"]})

(* Any ConfigMap may name any application.                                  *)
ContentsOfAnyApplication ==
    [cm \in ConfigMaps |->
        {[app |-> a, groups |-> {g1}, body |-> "pod"] : a \in Applications}]
=============================================================================
