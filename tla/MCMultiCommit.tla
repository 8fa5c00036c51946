---------------------------- MODULE MCMultiCommit ----------------------------
(***************************************************************************)
(* Two branches.  Each scene is one operation of the user, with the user's *)
(* changes in the way or not, or one conflict that Git is brought into by  *)
(* a terminal or by a pull.                                                *)
(***************************************************************************)
EXTENDS MultiCommit

S(kinds, changed, starts, edits, outside, pulls) ==
  [kinds |-> kinds, dirty |-> changed, starts |-> starts, edits |-> edits, outside |-> outside, pulls |-> pulls]

MCScenes ==
  {S({"Squash"}, FALSE, 1, 0, 0, 0),
   S({"Rebase"}, TRUE, 1, 0, 0, 0), S({"CherryPick"}, FALSE, 1, 0, 0, 0),
   S({"Merge"}, TRUE, 1, 0, 0, 0), S({}, FALSE, 0, 0, 1, 0),
   S({}, FALSE, 0, 0, 0, 1), S({}, FALSE, 0, 1, 0, 0)}
=============================================================================
