----------------------------- MODULE ChosenLines -----------------------------
(***************************************************************************)
(* What the user sees of a file in the list of changes: some of its lines  *)
(* are chosen for the next commit.  An operation on lines touches the      *)
(* lines it names and no others, and lines that stay keep their choice.    *)
(***************************************************************************)
EXTENDS Integers

CONSTANT Lines          \* indexes of lines in a diff

VARIABLES lines,        \* those that can be chosen
          chosen        \* those that are

Init == chosen \subseteq lines

\* a line, a hunk or what was dragged over: from one line to another
Choose(from, to) == chosen' = chosen \cup ((from..to) \cap lines) /\ UNCHANGED lines

Unchoose(from, to) == chosen' = chosen \ (from..to) /\ UNCHANGED lines

ChooseAll == chosen' = lines /\ UNCHANGED lines

ChooseNone == chosen' = {} /\ UNCHANGED lines

\* another diff is shown: lines that were there before keep their choice
Renew == chosen' \subseteq lines' /\ chosen' \cap lines = chosen \cap lines'

\* a choice of some lines is given up: nothing is chosen of what may come
Forget == chosen' = {} /\ lines' = Lines

Next ==
  \/ \E from, to \in Lines : Choose(from, to) \/ Unchoose(from, to)
  \/ ChooseAll \/ ChooseNone \/ Renew \/ Forget

Spec == Init /\ [][Next]_<<lines, chosen>>
=============================================================================
