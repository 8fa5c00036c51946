---------------------------- MODULE MCRemoteSync ----------------------------
(* RemoteSync for TLC: the tags and the job slots are interchangeable. *)
EXTENDS RemoteSync, TLC

Symmetry == Permutations(Tags) \cup Permutations(Slots)
=============================================================================
