---------------------------- MODULE MCRestReply ----------------------------
(* RestReply for TLC.  The creators are alike, and the workers.             *)
EXTENDS RestReply, TLC

Alike == Permutations(Creators) \cup Permutations(Workers)
=============================================================================
