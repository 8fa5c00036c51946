---------------------------- MODULE MCAheadBehind ----------------------------
(* AheadBehind for TLC: three keys over a cache of two, so that lookups queue
   up and answers are evicted and asked for again. *)
EXTENDS AheadBehind
=============================================================================
