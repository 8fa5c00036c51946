------------------------------ MODULE Questions ------------------------------
(***************************************************************************)
(* What the prompts promise to a Git operation, whatever dialogs, stores   *)
(* and browsers are involved: a question is open until it is answered or   *)
(* refused, an answer stands until the operation asks again, an operation  *)
(* of the background is never put to the user, and what is over is over.   *)
(* One step may concern several operations: a sign-in that begins refuses  *)
(* the one before.                                                         *)
(***************************************************************************)
CONSTANTS Askers, InBackground

VARIABLE question

States == {"quiet", "pending", "given", "refused", "over"}

Init == question = [o \in Askers |-> "quiet"]

MayAsk(o, now) == now \in {"quiet", "given", "refused"} /\ o \notin InBackground

MayBecome(o, now, next) ==
  \/ next = "pending" /\ MayAsk(o, now)
  \/ next \in {"given", "refused"} /\ now = "pending"
  \/ next = "over"

Next == /\ question' \in [Askers -> States]
        /\ \A o \in Askers : \/ question'[o] = question[o]
                             \/ MayBecome(o, question[o], question'[o])

Spec == Init /\ [][Next]_question
=============================================================================
