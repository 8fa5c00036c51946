----------------------------- MODULE PopupStack -----------------------------
(***************************************************************************)
(* The stack of dialogs of the TypeScript application:                     *)
(* src/app/src/lib/popup-manager.ts and the three handlers of the app      *)
(* store that use it.  A popup is a record with a type and the operation   *)
(* that waits for its answer (Nobody for the others); the last element of  *)
(* the stack is the one on top.                                            *)
(***************************************************************************)
EXTENDS Naturals, Sequences, FiniteSets, SequencesExt, Lists

CONSTANTS PopupLimit,   \* defaultPopupStackLimit, 50 in the code
          Nobody        \* the asker of a popup that no operation waits for

ASSUME PopupLimitAssumption == PopupLimit \in Nat \ {0}

VARIABLE popups         \* popupStack

Types == {"GenericGitAuthentication", "SSHKeyPassphrase", "SSHUserPassword",
          "AddSSHHost", "SignIn", "Error", "MultiCommitOperation",
          "LocalChangesOverwritten"}

Popup(type, asker) == [type |-> type, asker |-> asker]

IsError(p) == p.type = "Error"

HasType(stack, type) == \E i \in DOMAIN stack : stack[i].type = type

Shown(stack, p) == \E i \in DOMAIN stack : stack[i] = p

Top(stack) == stack[Len(stack)]

\* (mutant) the stack grows beyond its limit
Untrimmed(stack) == stack

\* checkStackLength: one popup was added, so one is dropped, the oldest
Trimmed(stack) == IF Len(stack) > PopupLimit THEN Tail(stack) ELSE stack

\* (mutant) a popup goes on top of the errors
AddedOnTop(stack, p) ==
  IF HasType(stack, p.type) /\ ~IsError(p) THEN stack ELSE Trimmed(Append(stack, p))

Errors(stack) == {i \in DOMAIN stack : IsError(stack[i])}

\* addPopup: a second popup of a type is dropped, errors stay on top
Added(stack, p) ==
  IF IsError(p) THEN Trimmed(Append(stack, p))
  ELSE IF HasType(stack, p.type) THEN stack
  ELSE IF stack = <<>> \/ ~IsError(Top(stack)) THEN Trimmed(Append(stack, p))
  ELSE LET errors == Kept(stack, Errors(stack))
           others == Kept(stack, DOMAIN stack \ Errors(stack))
       IN  Trimmed(Append(others, p) \o errors)

\* removePopupByType
WithoutType(stack, type) == Kept(stack, {i \in DOMAIN stack : stack[i].type # type})

\* _closePopup(popupType): only when the popup on top has the type
ClosedType(stack, type) ==
  IF stack # <<>> /\ Top(stack).type = type THEN WithoutType(stack, type) ELSE stack

\* _closePopup(): whatever is on top
ClosedTop(stack) == IF stack = <<>> THEN stack ELSE Front(stack)

-----------------------------------------------------------------------------
\* The stack is a sequence of popups no longer than the limit.
StackTypeOK ==
  /\ popups \in Seq([type : Types, asker : {p.asker : p \in ToSet(popups)}])
  /\ Len(popups) <= PopupLimit

(* Whatever order operations, errors and users come in, the errors are     *)
(* above every other popup and no other type is there twice                *)
(* (popup-manager.ts:15-20 promises both).                                 *)
StackShape ==
  /\ \A i, j \in DOMAIN popups :
       i < j /\ IsError(popups[i]) => IsError(popups[j])
  /\ \A i, j \in DOMAIN popups :
       popups[i].type = popups[j].type /\ ~IsError(popups[i]) => i = j
=============================================================================
