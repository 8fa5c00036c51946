----------------------------- MODULE MultiCommit -----------------------------
(***************************************************************************)
(* Rebase, reorder, squash, cherry-pick and merge in the TypeScript        *)
(* application: the flows of ui/dispatcher/dispatcher.ts, the dialogs of   *)
(* ui/multi-commit-operation and the part of lib/stores/app-store.ts that  *)
(* follows Git's conflicts.  Git works in its own process; the application *)
(* knows of it what the last status said, and statuses of several loaders  *)
(* are read and applied at different times.  A commit is a number.         *)
(***************************************************************************)
EXTENDS PopupStack

CONSTANTS Branches,   \* names of local branches
          NoBranch,   \* null, where a branch is expected
          Scenes      \* bound: what may happen together, see Scene

\* the kinds the user starts, with or without changes to files, and how often; edits and commits of the user;
\* changes by the pull of the application or by Git in a terminal
Scene == [kinds : SUBSET {"Rebase", "Reorder", "Squash", "CherryPick", "Merge"},
          dirty : BOOLEAN, starts : Nat, edits : Nat, outside : Nat, pulls : Nat]

ASSUME MultiCommitAssumption ==
  /\ NoBranch \notin Branches /\ Branches # {} /\ IsFiniteSet(Branches)
  /\ \A scene \in Scenes : scene \in Scene

VARIABLES tips,       \* the commit each branch points at
          head,       \* the branch that is checked out
          git,        \* the operation Git has stopped in, on a conflict
          dirty,      \* there are uncommitted changes of the user
          next,       \* the number of the next commit
          rewritten,  \* <<branch, commit>>: tips that do not contain an older tip
          forwarded,  \* <<branch, commit>>: tips a rebase only fast-forwarded to
          seen,       \* changesState and branchesState.tip: the last status
          load,       \* _loadStatus of each loader
          flow,       \* the asynchronous function that runs an operation
          cleanup,    \* the one that aborts or undoes an operation
          mco,        \* multiCommitOperationState
          undo,       \* multiCommitOperationUndoState
          banner,     \* currentBanner
          forcePush,  \* forcePushBranches
          errors,     \* on their way: errors to their handlers, a merge's conflicts to their dialog
          bound       \* what may still happen, of a scene

repoVars == <<tips, head, git, dirty, next, rewritten, forwarded>>
appVars == <<mco, undo, banner, forcePush, errors>>
vars == <<popups, repoVars, appVars, seen, load, flow, cleanup, bound>>

Rewriting == {"Rebase", "Reorder", "Squash"}
Kinds == Rewriting \cup {"CherryPick", "Merge"}
Loaders == {"background", "flow", "cleanup"}
ConflictSteps == {"ShowConflicts", "ConfirmAbort"}

Dialog == Popup("MultiCommitOperation", Nobody)
NoGit == [op |-> "none"]
NoOp == [kind |-> "none"]
Idle == [at |-> "idle"]
NoBanner == [type |-> "none"]
ConflictsFound == [type |-> "ConflictsFound"]

GitOp(kind) == CASE kind \in Rewriting -> "rebase"
                 [] kind = "Merge" -> "merge"
                 [] OTHER -> "cherryPick"

Op(kind, step, orig, target, source) ==
  [kind |-> kind, step |-> step, orig |-> orig, target |-> target, source |-> source]

\* (mutant) a null state becomes a state that has a step
AtStepAnyway(m, step) == [step |-> step] @@ m

\* updateMultiCommitOperationState: a null state stays null
AtStep(m, step) == IF m = NoOp THEN m ELSE [m EXCEPT !.step = step]

OnTop(p) == popups # <<>> /\ Top(popups) = p
UserFree == popups = <<>>
TipValid == seen.on \in Branches

-----------------------------------------------------------------------------
\* Git status, what loadStatus and getConflictState keep of it.  While Git
\* rebases, HEAD is detached even if nothing conflicts.
StatusNow ==
  {[op |-> git.op, on |-> IF git.op = "rebase" THEN NoBranch ELSE head,
    tip |-> tips[head], files |-> dirty \/ git.op # "none"]}
  \cup IF flow.at = "git" /\ flow.kind \in Rewriting /\ git.op = "none"
       THEN {[op |-> "none", on |-> NoBranch, tip |-> tips[head], files |-> FALSE]}
       ELSE {}

\* (mutant) every dialog of an operation, the one about conflicts included
UserIsStartingAny(m) == m # NoOp /\ OnTop(Dialog)

\* userIsStartingMultiCommitOperation
UserIsStarting(m) ==
  /\ m # NoOp /\ OnTop(Dialog)
  /\ m.step \in {"ChooseBranch", "WarnForcePush", "ShowProgress"}

\* clearConflictsFlowVisuals: nothing while the user starts an operation
ClearVisuals(m) ==
  IF UserIsStarting(m) THEN UNCHANGED <<popups, banner>>
  ELSE /\ popups' = ClosedType(popups, "MultiCommitOperation")
       /\ banner' = IF banner = ConflictsFound THEN NoBanner ELSE banner

\* The branch that is merged is asked of Git before the dialog about its
\* conflicts opens; those of a rebase or cherry-pick are shown at once.
Triggered == [type |-> "Triggered"]
ShowTriggered(m, op) ==
  IF op = "merge" THEN mco' = m /\ errors' = errors \cup {Triggered} /\ UNCHANGED <<popups, banner>>
  ELSE /\ mco' = AtStep(m, "ShowConflicts")
       /\ popups' = Added(popups, Dialog)
       /\ UNCHANGED <<banner, errors>>

\* (mutant) what the state says counts, whether the dialog is there or not
TriggerByState(m, op) ==
  IF m = NoOp \/ banner = ConflictsFound \/ m.step \in ConflictSteps
  THEN mco' = m /\ UNCHANGED <<popups, banner, errors>> ELSE ShowTriggered(m, op)

\* _triggerConflictsFlow, when the status has a conflict; nobody awaits it
TriggerConflicts(m, op) ==
  IF \/ m = NoOp \/ banner = ConflictsFound
     \/ HasType(popups, "MultiCommitOperation") /\ m.step \in ConflictSteps
  THEN mco' = m /\ UNCHANGED <<popups, banner, errors>> ELSE ShowTriggered(m, op)

\* _loadStatus begins
Loading(l) == load' = [load EXCEPT ![l] = [at |-> "read"]]
Loaded(l) == load[l].at = "idle"

\* Git answers
Read(l) ==
  /\ load[l].at = "read"
  /\ \E s \in StatusNow :
       /\ load' = [load EXCEPT ![l] = [at |-> "apply", status |-> s]]
       /\ bound' = [bound EXCEPT !.disturbed = @ \/ (s.op = "none" /\ s.on = NoBranch)]
  /\ UNCHANGED <<popups, repoVars, appVars, seen, flow, cleanup>>

\* the rest of _loadStatus, up to the files of a rebase or cherry-pick that
\* initializeMultiCommitOperationIfConflictsFound awaits
Apply(l) ==
  /\ load[l].at = "apply"
  /\ LET s == load[l].status
     IN /\ seen' = s
        /\ IF s.op = "none" THEN ClearVisuals(mco) /\ UNCHANGED <<mco, errors>>
           ELSE IF mco # NoOp THEN TriggerConflicts(mco, s.op)
           ELSE IF s.op = "merge"
           THEN /\ mco' = Op("Merge", "ShowProgress", s.tip, s.on, NoBranch)
                /\ banner' = IF banner = ConflictsFound THEN NoBanner ELSE banner
                /\ popups' = ClosedType(popups, "MultiCommitOperation")
                /\ errors' = errors \cup {Triggered}
           ELSE ClearVisuals(mco) /\ UNCHANGED <<mco, errors>>
        /\ load' = [load EXCEPT ![l] = IF mco = NoOp /\ s.op \in {"rebase", "cherryPick"}
                                       THEN [at |-> "snapshot", op |-> s.op] ELSE Idle]
  /\ UNCHANGED <<repoVars, undo, forcePush, flow, cleanup, bound>>

\* the files of the operation are read.  When it has ended meanwhile a rebase
\* is left alone; for a cherry-pick the read throws, and with the status ends
\* the function that waits for it
Snapshot(l) ==
  /\ load[l].at = "snapshot"
  /\ IF git.op = load[l].op
     THEN /\ load' = [load EXCEPT ![l] = [at |-> "set", git |-> git]]
          /\ UNCHANGED <<popups, appVars, flow, cleanup>>
     ELSE /\ load' = [load EXCEPT ![l] = Idle]
          /\ IF load[l].op = "rebase" /\ seen.op # "none"
             THEN TriggerConflicts(mco, seen.op)
             ELSE UNCHANGED <<mco, errors>>
                  /\ IF load[l].op = "rebase" THEN ClearVisuals(mco) ELSE UNCHANGED <<popups, banner>>
          /\ flow' = IF load[l].op = "cherryPick" /\ l = "flow" THEN Idle ELSE flow
          /\ cleanup' = IF load[l].op = "cherryPick" /\ l = "cleanup" THEN Idle ELSE cleanup
          /\ UNCHANGED <<undo, forcePush>>
  /\ UNCHANGED <<repoVars, seen, bound>>

\* an operation is set up, whatever is there now
SetUp(l) ==
  /\ load[l].at = "set"
  /\ LET was == load[l].git
         m == IF was.op = "rebase" THEN Op("Rebase", "ShowProgress", was.was, was.on, NoBranch)
              ELSE Op("CherryPick", "ShowProgress", 0, seen.on, NoBranch)
     IN /\ IF seen.op = "none" THEN ClearVisuals(m) /\ mco' = m /\ UNCHANGED errors
           ELSE TriggerConflicts(m, seen.op)
        /\ undo' = IF was.op = "cherryPick" THEN [sha |-> was.was, branch |-> NoBranch] ELSE undo
  /\ load' = [load EXCEPT ![l] = Idle]
  /\ UNCHANGED <<repoVars, forcePush, seen, flow, cleanup, bound>>

\* _refreshRepository by the window's focus, a background fetch, another flow
Refresh ==
  /\ Loaded("background") /\ Loading("background")
  /\ UNCHANGED <<popups, repoVars, appVars, seen, flow, cleanup, bound>>

-----------------------------------------------------------------------------
(***************************************************************************)
(* Operations begin.  A flow that waits for an answer of Git or of a       *)
(* status is at that point; what it does in between is one step.           *)
(***************************************************************************)
FlowAt(at, kind, to, from) == [at |-> at, kind |-> kind, to |-> to, from |-> from]

LocalChanges(kind, to, from) == Popup("LocalChangesOverwritten", FlowAt("retry", kind, to, from))

\* showRebaseDialog, startMergeBranchOperation, startCherryPickWithoutBranch
ChooseDialog(kind) ==
  /\ UserFree /\ TipValid /\ flow.at = "idle"
  /\ kind \in bound.kinds \cap {"Rebase", "Merge", "CherryPick"} /\ bound.starts > 0
  /\ bound' = [bound EXCEPT !.starts = @ - 1]
  /\ mco' = IF kind = "CherryPick"
            THEN Op(kind, "ChooseBranch", seen.tip, NoBranch, seen.on)
            ELSE Op(kind, "ChooseBranch", seen.tip, seen.on, NoBranch)
  /\ popups' = Added(popups, Dialog)
  /\ UNCHANGED <<repoVars, undo, banner, forcePush, errors, seen, load, flow, cleanup>>

\* onFlowEnded, when a dialog is dismissed before Git has been called
Cancel ==
  /\ OnTop(Dialog) /\ mco # NoOp /\ mco.step \in {"ChooseBranch", "WarnForcePush"}
  /\ popups' = ClosedType(popups, "MultiCommitOperation") /\ mco' = NoOp
  /\ UNCHANGED <<repoVars, undo, banner, forcePush, errors, seen, load, flow, cleanup, bound>>

\* mergeBranch, and the dialog that called it closes
BeginMerge(b) ==
  /\ flow' = FlowAt("git", "Merge", mco.target, b)
  /\ mco' = [mco EXCEPT !.source = b]
  /\ UNCHANGED <<undo, errors>>

\* startRebase
BeginRebase(base, target, anyway) ==
  /\ mco' = Op("Rebase", "ShowProgress", seen.tip, target, base)
  /\ flow' = FlowAt(IF anyway THEN "git" ELSE "warn", "Rebase", target, base)
  /\ UNCHANGED <<popups, undo>>

\* reorderCommits, squash: _checkForUncommittedChanges, then the dialog
BeginRewrite(kind, anyway, stack) ==
  IF seen.files
  THEN /\ popups' = Added(stack, LocalChanges(kind, NoBranch, NoBranch))
       /\ flow' = Idle
       /\ UNCHANGED <<mco, undo>>
  ELSE IF ~TipValid THEN flow' = Idle /\ popups' = stack /\ UNCHANGED <<mco, undo>>
  ELSE /\ mco' = Op(kind, "ShowProgress", seen.tip, seen.on, NoBranch)
       /\ popups' = Added(stack, Dialog)
       /\ undo' = [sha |-> seen.tip, branch |-> seen.on]
       /\ flow' = FlowAt(IF anyway THEN "git" ELSE "warn", kind, seen.on, NoBranch)

\* where the target branch was before the cherry-pick: its tip in the list of
\* branches, which is taken to be current when the dialog reads it
CherryPickUndo(target, source) == [sha |-> tips[target], branch |-> target]

\* cherryPick, up to the checkout of the target branch
BeginCherryPick(m, target, source, stack) ==
  IF seen.files
  THEN /\ mco' = NoOp
       /\ popups' = Added(stack, LocalChanges("CherryPick", target, source))
       /\ flow' = Idle
       /\ UNCHANGED undo
  ELSE /\ mco' = AtStep(IF m = NoOp THEN Op("CherryPick", "ShowProgress", tips[source],
                                            target, source) ELSE m, "ShowProgress")
       /\ undo' = CherryPickUndo(target, source)
       /\ flow' = FlowAt("checkout", "CherryPick", target, source)
       /\ popups' = stack

\* a branch is chosen in the dialog
Choose(b) ==
  /\ OnTop(Dialog) /\ mco # NoOp /\ mco.step = "ChooseBranch" /\ flow.at = "idle"
  /\ CASE mco.kind = "Merge" ->
            /\ BeginMerge(b) /\ b # mco.target
            /\ popups' = ClosedType(popups, "MultiCommitOperation")
       [] mco.kind = "Rebase" -> b # mco.target /\ BeginRebase(b, mco.target, FALSE)
       [] mco.kind = "CherryPick" ->
            /\ b # mco.source
            /\ BeginCherryPick([mco EXCEPT !.target = b], b, mco.source, popups)
  /\ UNCHANGED <<repoVars, banner, forcePush, errors, seen, load, cleanup, bound>>

\* a reorder or squash is dropped or chosen in the list of commits
StartRewrite(kind) ==
  /\ UserFree /\ flow.at = "idle"
  /\ kind \in bound.kinds \cap {"Reorder", "Squash"} /\ bound.starts > 0
  /\ bound' = [bound EXCEPT !.starts = @ - 1]
  /\ BeginRewrite(kind, FALSE, popups)
  /\ UNCHANGED <<repoVars, banner, forcePush, errors, seen, load, cleanup>>

\* warnAboutRemoteCommits has looked at the upstream branch
Warned ==
  /\ flow.at = "warn"
  /\ \/ mco' = AtStep(mco, "WarnForcePush") /\ flow' = Idle
     \/ flow' = [flow EXCEPT !.at = "git"] /\ UNCHANGED mco
  /\ UNCHANGED <<popups, repoVars, undo, banner, forcePush, errors, seen, load, cleanup, bound>>

\* onBeginOperation of the warning: a state without the branches throws, and
\* a merge or cherry-pick has no such handler
BeginAnyway ==
  /\ OnTop(Dialog) /\ mco # NoOp /\ mco.step = "WarnForcePush" /\ flow.at = "idle"
  /\ \/ /\ mco.kind = "Rebase" /\ NoBranch \notin {mco.source, mco.target}
        /\ BeginRebase(mco.source, mco.target, TRUE)
     \/ mco.kind \in {"Reorder", "Squash"} /\ BeginRewrite(mco.kind, TRUE, popups)
  /\ UNCHANGED <<repoVars, banner, forcePush, errors, seen, load, cleanup, bound>>

\* the dialog about local changes: they are stashed, then performRetry
Stash ==
  /\ popups # <<>> /\ Top(popups).type = "LocalChangesOverwritten"
  /\ flow.at = "idle" /\ Loaded("flow") /\ TipValid
  /\ dirty' = FALSE
  /\ flow' = Top(popups).asker /\ Loading("flow")
  /\ UNCHANGED <<popups, tips, head, git, next, rewritten, forwarded, appVars, seen, cleanup, bound>>

\* the stash is there and the repository refreshed: the dialog closes.  A
\* rebase is retried by rebase, a merge by mergeBranch, which want their state
Retry ==
  /\ flow.at = "retry" /\ Loaded("flow")
  /\ LET under == ClosedType(popups, "LocalChangesOverwritten")
     IN IF flow.kind = "CherryPick" THEN BeginCherryPick(mco, flow.to, flow.from, under)
        ELSE IF flow.kind \in {"Reorder", "Squash"} THEN BeginRewrite(flow.kind, FALSE, under)
        ELSE /\ popups' = under
             /\ flow' = IF mco.kind = flow.kind THEN [flow EXCEPT !.at = "git"] ELSE Idle
             /\ UNCHANGED <<mco, undo>>
  /\ UNCHANGED <<repoVars, banner, forcePush, errors, seen, load, cleanup, bound>>

-----------------------------------------------------------------------------
(***************************************************************************)
(* Git runs.  It refuses while it is in the middle of something else, or   *)
(* when the user's changes are in the way.                                 *)
(***************************************************************************)
GitFails == UNCHANGED repoVars

\* Git moves the branch that is checked out to a new commit
GitMoves(rewrites) ==
  /\ tips' = [tips EXCEPT ![head] = next] /\ next' = next + 1 /\ git' = NoGit
  /\ rewritten' = IF rewrites \/ <<head, tips[head]>> \in rewritten
                  THEN rewritten \cup {<<head, next>>} ELSE rewritten
  /\ UNCHANGED <<head, dirty>>

GitCommits(kind) == GitMoves(kind \in Rewriting) /\ UNCHANGED forwarded

\* a rebase of a branch that has no commit of its own
GitForwards == GitMoves(FALSE) /\ forwarded' = forwarded \cup {<<head, next>>}

GitConflicts(kind) ==
  /\ git' = [op |-> GitOp(kind), on |-> head, was |-> tips[head]]
  /\ UNCHANGED <<tips, head, dirty, next, rewritten, forwarded>>

\* abort of the operation Git is in; what the user resolved is gone
GitAborts == git' = NoGit /\ UNCHANGED <<tips, head, dirty, next, rewritten, forwarded>>

\* performFailableOperation: the error goes to the handlers.  Rebase and merge
\* name a retry, reorder and squash throw nothing
Emitted(kind) ==
  IF kind \in {"Reorder", "Squash"} THEN errors
  ELSE errors \cup {IF dirty /\ kind \in {"Rebase", "Merge"}
                    THEN LocalChanges(kind, flow.to, flow.from) ELSE Popup("Error", Nobody)}

\* where the result is looked at, after the status has been loaded
Result(r) ==
  flow' = [at |-> CASE flow.kind = "Rebase" /\ flow.at = "git" -> "rebased"
                    [] flow.kind = "CherryPick" -> "picked"
                    [] OTHER -> "process",
           kind |-> flow.kind, to |-> flow.to, from |-> flow.from, result |-> r]

\* git rebase, rebase -i, cherry-pick: then _loadStatus
RunGit ==
  /\ flow.at = "git" /\ flow.kind # "Merge" /\ Loaded("flow")
  /\ \/ /\ git.op = "none" /\ ~dirty
        /\ GitCommits(flow.kind) \/ (flow.kind = "Rebase" /\ GitForwards)
        /\ Result("Completed") /\ UNCHANGED errors
     \/ /\ git.op = "none" /\ ~dirty /\ GitConflicts(flow.kind)
        /\ Result("Conflicts") /\ UNCHANGED errors
     \/ /\ flow.kind = "Rebase" /\ git.op = "none" /\ ~dirty /\ GitFails
        /\ Result("UpToDate") /\ UNCHANGED errors
     \/ GitFails /\ Result("Error") /\ errors' = Emitted(flow.kind)
  /\ Loading("flow")
  /\ UNCHANGED <<popups, mco, undo, banner, forcePush, seen, cleanup, bound>>

\* _mergeBranch: the state ends only when there is nothing left to do
RunMerge ==
  /\ flow.at = "git" /\ flow.kind = "Merge" /\ Loaded("flow")
  /\ \/ /\ git.op = "none" /\ (GitCommits("Merge") \/ GitFails)
        /\ IF TipValid THEN mco' = NoOp /\ banner' = [type |-> "Success", kind |-> "Merge"]
           ELSE UNCHANGED <<mco, banner>>
        /\ UNCHANGED errors
     \/ /\ git.op = "none" /\ GitConflicts("Merge")
        /\ UNCHANGED <<mco, banner, errors>>
     \/ GitFails /\ errors' = Emitted("Merge") /\ UNCHANGED <<mco, banner>>
  /\ flow' = Idle /\ Loading("flow")
  /\ UNCHANGED <<popups, undo, forcePush, seen, cleanup, bound>>

\* (mutant) the operation does not end with the checkout that failed
CheckoutFailsKept ==
  flow' = Idle /\ errors' = errors \cup {Popup("Error", Nobody)} /\ UNCHANGED mco

CheckoutFails ==
  flow' = Idle /\ errors' = errors \cup {Popup("Error", Nobody)} /\ mco' = NoOp

\* _checkoutBranchReturnName; _cherryPick refreshes before Git picks
RunCheckout ==
  /\ flow.at = "checkout" /\ Loaded("flow")
  /\ \/ /\ git.op = "none" /\ head' = flow.to
        /\ flow' = [flow EXCEPT !.at = "git"] /\ Loading("flow")
        /\ UNCHANGED <<mco, errors>>
     \/ CheckoutFails /\ UNCHANGED <<head, load>>
  /\ UNCHANGED <<popups, tips, git, dirty, next, rewritten, forwarded, undo, banner, forcePush, seen,
                 cleanup, bound>>

-----------------------------------------------------------------------------
(***************************************************************************)
(* The result of Git, seen together with the status loaded after it.       *)
(***************************************************************************)
\* startMultiCommitOperationConflictFlow
ConflictFlow ==
  IF seen.op = "none" THEN mco' = NoOp /\ UNCHANGED popups
  ELSE mco' = AtStep(mco, "ShowConflicts") /\ popups' = Added(popups, Dialog)

\* (mutant) every completed operation is listed, whatever its kind
ForcePushAny(m) ==
  IF TipValid /\ m.orig # 0 /\ seen.tip # m.orig
  THEN [forcePush EXCEPT ![seen.on] = seen.tip] ELSE forcePush

\* _addBranchToForcePushList, for what completeMultiCommitOperation lets through
ForcePushList(m) ==
  IF TipValid /\ m.orig # 0 /\ m.kind # "CherryPick" /\ seen.tip # m.orig
  THEN [forcePush EXCEPT ![seen.on] = seen.tip] ELSE forcePush

\* completeMultiCommitOperation: the popup on top closes, whichever it is; a
\* merge throws, it has no banner
Complete ==
  /\ popups' = ClosedTop(popups)
  /\ IF mco = NoOp \/ mco.kind = "Merge" THEN UNCHANGED <<mco, banner, forcePush, load>>
     ELSE /\ banner' = [type |-> "Success", kind |-> mco.kind, source |-> mco.source]
          /\ forcePush' = ForcePushList(mco)
          /\ mco' = NoOp
          /\ Loading("flow")

\* the popup that closes is another one than the dialog of the operation
NoteCovered ==
  bound' = [bound EXCEPT !.disturbed = @ \/ (popups # <<>> /\ Top(popups) # Dialog)]

\* the rest of rebase
Rebased ==
  /\ flow.at = "rebased" /\ Loaded("flow")
  /\ CASE flow.result = "Conflicts" ->
            /\ IF seen.op = "rebase" THEN ConflictFlow ELSE UNCHANGED <<popups, mco>>
            /\ UNCHANGED <<banner, forcePush, load>>
       [] flow.result = "Completed" ->
            IF TipValid THEN Complete
            ELSE UNCHANGED <<popups, mco, banner, forcePush, load>>
       [] flow.result = "UpToDate" ->
            /\ IF TipValid
               THEN /\ banner' = [type |-> "Success", kind |-> "UpToDate"]
                    /\ mco' = NoOp /\ Loading("flow")
               ELSE UNCHANGED <<mco, banner, load>>
            /\ UNCHANGED <<popups, forcePush>>
       [] flow.result = "Error" -> mco' = NoOp /\ UNCHANGED <<popups, banner, forcePush, load>>
  /\ flow' = Idle
  /\ NoteCovered
  /\ UNCHANGED <<repoVars, undo, errors, seen, cleanup>>

\* processMultiCommitOperationRebaseResult; a conflict refreshes first
Process ==
  /\ flow.at = "process" /\ Loaded("flow")
  /\ CASE flow.result = "Completed" -> Complete /\ flow' = Idle
       [] flow.result = "Conflicts" ->
            /\ flow' = [flow EXCEPT !.at = "conflicts"] /\ Loading("flow")
            /\ UNCHANGED <<popups, mco, banner, forcePush>>
       [] OTHER ->
            /\ popups' = ClosedTop(popups) /\ flow' = Idle
            /\ UNCHANGED <<mco, banner, forcePush, load>>
  /\ NoteCovered
  /\ UNCHANGED <<repoVars, undo, errors, seen, cleanup>>

Conflicts ==
  /\ flow.at = "conflicts" /\ Loaded("flow")
  /\ ConflictFlow /\ flow' = Idle
  /\ UNCHANGED <<repoVars, undo, banner, forcePush, errors, seen, load, cleanup, bound>>

\* processCherryPickResult, startConflictCherryPickFlow; an error is cleaned
\* up by _clearCherryPickingHead, which nobody awaits
Picked ==
  /\ flow.at = "picked" /\ Loaded("flow")
  /\ CASE flow.result = "Completed" -> Complete /\ UNCHANGED cleanup
       [] flow.result = "Conflicts" ->
            /\ mco' = IF seen.op = "cherryPick" /\ mco.kind = "CherryPick"
                      THEN AtStep(mco, "ShowConflicts") ELSE NoOp
            /\ UNCHANGED <<popups, banner, forcePush, load, cleanup>>
       [] flow.result = "UnableToStart" ->
            mco' = NoOp /\ UNCHANGED <<popups, banner, forcePush, load, cleanup>>
       [] flow.result = "Error" ->
            /\ cleanup.at = "idle"
            /\ cleanup' = [at |-> "abort", kind |-> "ClearHead", source |-> flow.from]
            /\ mco' = NoOp
            /\ popups' = ClosedTop(popups)
            /\ UNCHANGED <<banner, forcePush, load>>
  /\ flow' = Idle
  /\ NoteCovered
  /\ UNCHANGED <<repoVars, undo, errors, seen>>

-----------------------------------------------------------------------------
(***************************************************************************)
(* The dialog about conflicts.                                             *)
(***************************************************************************)
InDialog(step) == OnTop(Dialog) /\ mco # NoOp /\ mco.step = step

\* onContinueAfterConflicts: a state that does not fit the conflict throws
Continue ==
  /\ InDialog("ShowConflicts") /\ flow.at = "idle" /\ Loaded("flow")
  /\ \/ /\ mco.kind \in Rewriting /\ seen.op = "rebase" /\ mco.orig # 0
        /\ mco' = AtStep(mco, "ShowProgress")
     \/ /\ mco.kind = "CherryPick" /\ seen.op # "none" /\ mco.target # NoBranch
        /\ mco' = AtStep(mco, "ShowProgress")
     \/ /\ mco.kind = "Merge" /\ seen.op = "merge"
        /\ UNCHANGED mco
  /\ flow' = FlowAt("continue", mco.kind, mco.target, mco.source)
  /\ UNCHANGED <<popups, repoVars, undo, banner, forcePush, errors, seen, load, cleanup, bound>>

\* continueRebase, continueCherryPick: Git gives no status, or has gone on
\* elsewhere, which a cherry-pick finds out by an exception (its check of
\* CHERRY_PICK_HEAD negates a promise)
RunContinue ==
  /\ flow.at = "continue" /\ flow.kind # "Merge"
  /\ \/ /\ git.op = GitOp(flow.kind) /\ GitCommits(flow.kind)
        /\ Result("Completed") /\ UNCHANGED <<errors, bound>>
     \/ /\ git.op = GitOp(flow.kind) /\ UNCHANGED repoVars
        /\ Result("Conflicts") /\ UNCHANGED <<errors, bound>>
     \/ /\ git.op = GitOp(flow.kind) \/ flow.kind = "CherryPick"
        /\ UNCHANGED repoVars
        /\ Result("Error") /\ errors' = errors \cup {Popup("Error", Nobody)} /\ UNCHANGED bound
     \/ /\ UNCHANGED <<repoVars, errors>>
        /\ Result(IF flow.kind = "CherryPick" THEN "UnableToStart" ELSE "Aborted")
        /\ bound' = [bound EXCEPT !.disturbed = @ \/ git.op = "rebase" \/ flow.kind = "CherryPick"]
  /\ Loading("flow")
  /\ UNCHANGED <<popups, mco, undo, banner, forcePush, seen, cleanup>>

\* finishConflictedMerge, then the section of the changes is loaded
FinishMerge ==
  /\ flow.at = "continue" /\ flow.kind = "Merge"
  /\ \/ /\ seen.op # "none" /\ git.op = "merge" /\ GitCommits("Merge")
        /\ banner' = [type |-> "Success", kind |-> "Merge"] /\ UNCHANGED errors
     \/ /\ seen.op # "none" /\ UNCHANGED <<repoVars, banner>>
        /\ errors' = errors \cup {Popup("Error", Nobody)}
     \/ /\ seen.op = "none" /\ UNCHANGED <<repoVars, banner, errors>>
  /\ flow' = [flow EXCEPT !.at = "merged"] /\ Loading("flow")
  /\ UNCHANGED <<popups, mco, undo, forcePush, seen, cleanup, bound>>

\* onFlowEnded
Merged ==
  /\ flow.at = "merged" /\ Loaded("flow")
  /\ popups' = ClosedType(popups, "MultiCommitOperation") /\ mco' = NoOp /\ flow' = Idle
  /\ UNCHANGED <<repoVars, undo, banner, forcePush, errors, seen, load, cleanup, bound>>

\* onConflictsDialogDismissed: from now on there is a banner; a merge that is
\* not one any more just ends
Dismiss ==
  /\ InDialog("ShowConflicts") /\ flow.at = "idle"
  /\ popups' = ClosedType(popups, "MultiCommitOperation")
  /\ IF mco.kind = "Merge" /\ seen.op # "merge" THEN mco' = NoOp /\ UNCHANGED banner
     ELSE mco' = AtStep(mco, "HideConflicts") /\ banner' = ConflictsFound
  /\ UNCHANGED <<repoVars, undo, forcePush, errors, seen, load, flow, cleanup, bound>>

\* onOpenConflictsDialog of the banner, which is dismissed by the click
OpenConflicts ==
  /\ banner = ConflictsFound /\ UserFree
  /\ banner' = NoBanner
  /\ IF seen.op = "none" THEN UNCHANGED <<popups, mco>>
     ELSE mco' = AtStep(mco, "ShowConflicts") /\ popups' = Added(popups, Dialog)
  /\ UNCHANGED <<repoVars, undo, forcePush, errors, seen, load, flow, cleanup, bound>>

\* onConfirmingAbort, when something has been resolved already
AskAbort ==
  /\ InDialog("ShowConflicts") /\ flow.at = "idle"
  /\ mco' = AtStep(mco, "ConfirmAbort")
  /\ UNCHANGED <<popups, repoVars, undo, banner, forcePush, errors, seen, load, flow, cleanup, bound>>

\* moveToConflictState
ReturnToConflicts ==
  /\ InDialog("ConfirmAbort")
  /\ mco' = AtStep(mco, "ShowConflicts")
  /\ UNCHANGED <<popups, repoVars, undo, banner, forcePush, errors, seen, load, flow, cleanup, bound>>

\* onAbort: the flow ends, and only then Git is told
Abort ==
  /\ InDialog("ShowConflicts") \/ InDialog("ConfirmAbort")
  /\ flow.at = "idle" /\ cleanup.at = "idle"
  /\ popups' = ClosedType(popups, "MultiCommitOperation") /\ mco' = NoOp
  /\ cleanup' = [at |-> "abort", kind |-> mco.kind, source |-> mco.source]
  /\ UNCHANGED <<repoVars, undo, banner, forcePush, errors, seen, load, flow, bound>>

-----------------------------------------------------------------------------
(***************************************************************************)
(* Abort, the clean-up after a failed cherry-pick, and undo.               *)
(***************************************************************************)
AbortOf(kind) == IF kind = "ClearHead" THEN "cherryPick" ELSE GitOp(kind)

\* abortRebase, abortMerge, abortCherryPick of Git
RunAbort ==
  /\ cleanup.at = "abort" /\ Loaded("cleanup")
  /\ \/ git.op = AbortOf(cleanup.kind) /\ GitAborts /\ UNCHANGED errors
     \/ /\ UNCHANGED repoVars /\ errors' = errors \cup {Popup("Error", Nobody)}
        /\ git.op # AbortOf(cleanup.kind) \/ cleanup.kind = "ClearHead"
  /\ IF AbortOf(cleanup.kind) = "cherryPick" /\ cleanup.source # NoBranch
     THEN cleanup' = [cleanup EXCEPT !.at = "checkout"] /\ UNCHANGED load
     ELSE cleanup' = [cleanup EXCEPT !.at = "aborted"] /\ Loading("cleanup")
  /\ UNCHANGED <<popups, mco, undo, banner, forcePush, seen, flow, bound>>

\* checkoutBranchIfNotNull, for an abort and for an undo
BackToSource ==
  /\ cleanup.at = "checkout" /\ Loaded("cleanup")
  /\ \/ git.op = "none" /\ head' = cleanup.source /\ UNCHANGED errors
     \/ errors' = errors \cup {Popup("Error", Nobody)} /\ UNCHANGED head
  /\ cleanup' = [cleanup EXCEPT !.at = IF cleanup.kind = "Undo" THEN "undone" ELSE "aborted"]
  /\ IF cleanup.kind = "Undo" THEN banner' = [type |-> "Undone"] ELSE UNCHANGED banner
  /\ Loading("cleanup")
  /\ UNCHANGED <<popups, tips, git, dirty, next, rewritten, forwarded, mco, undo, forcePush, seen,
                 flow, bound>>

\* the status is loaded; the abort of a cherry-pick ends the operation once
\* more, the one there is now
Aborted ==
  /\ cleanup.at = "aborted" /\ Loaded("cleanup")
  /\ mco' = IF cleanup.kind = "CherryPick" THEN NoOp ELSE mco
  /\ cleanup' = Idle
  /\ UNCHANGED <<popups, repoVars, undo, banner, forcePush, errors, seen, load, flow, bound>>

\* onUndo: SuccessBanner dismisses itself, _undoMultiCommitOperation asks the
\* last status whether it may
Undo ==
  /\ UserFree /\ cleanup.at = "idle"
  /\ banner.type = "Success" /\ banner.kind \in {"Squash", "Reorder", "CherryPick"}
  /\ banner' = NoBanner
  /\ cleanup' = IF undo.branch # NoBranch /\ ~seen.files /\ seen.on = undo.branch
                THEN [at |-> "reset", kind |-> "Undo", of |-> banner.kind, sha |-> undo.sha,
                      was |-> seen.tip, source |-> banner.source]
                ELSE Idle
  /\ UNCHANGED <<popups, repoVars, mco, undo, forcePush, errors, seen, load, flow, bound>>

\* git reset --hard of whatever branch is checked out by now
RunReset ==
  /\ cleanup.at = "reset" /\ Loaded("cleanup")
  /\ \/ /\ git.op = "none"
        /\ tips' = [tips EXCEPT ![head] = cleanup.sha]
        /\ UNCHANGED forwarded
        /\ rewritten' = rewritten \cup {<<head, cleanup.sha>>}
        /\ dirty' = FALSE /\ UNCHANGED errors
        /\ IF cleanup.of = "CherryPick" /\ cleanup.source # NoBranch
           THEN cleanup' = [cleanup EXCEPT !.at = "checkout"] /\ UNCHANGED <<banner, load>>
           ELSE /\ banner' = [type |-> "Undone"]
                /\ cleanup' = [cleanup EXCEPT !.at = "undone"] /\ Loading("cleanup")
     \/ /\ cleanup' = Idle /\ errors' = errors \cup {Popup("Error", Nobody)}
        /\ UNCHANGED <<tips, rewritten, forwarded, dirty, banner, load>>
  /\ UNCHANGED <<popups, head, git, next, mco, undo, forcePush, seen, flow, bound>>

\* the rest of _undoMultiCommitOperation
Undone ==
  /\ cleanup.at = "undone" /\ Loaded("cleanup")
  /\ forcePush' = IF TipValid /\ cleanup.of # "CherryPick" /\ seen.tip # cleanup.was
                  THEN [forcePush EXCEPT ![seen.on] = seen.tip] ELSE forcePush
  /\ cleanup' = Idle /\ Loading("cleanup")
  /\ UNCHANGED <<popups, repoVars, mco, undo, banner, errors, seen, flow, bound>>

-----------------------------------------------------------------------------
(***************************************************************************)
(* Errors, and what happens around the flows.                              *)
(***************************************************************************)
\* Git has named the branch that is merged, or the error handlers are through:
\* a dialog of conflicts for a pull that met some
\* (_handleConflictsDetectedOnError), else a dialog about the error
PresentError(e) ==
  /\ e \in errors
  /\ errors' = errors \ {e}
  /\ IF e = Triggered
     THEN mco' = AtStep(mco, "ShowConflicts") /\ popups' = Added(popups, Dialog)
     ELSE IF e.type = "MultiCommitOperation"
     THEN /\ mco' = AtStep(IF mco = NoOp THEN Op("Merge", "ShowProgress", tips[head], head, NoBranch)
                           ELSE mco, "ShowConflicts")
          /\ popups' = Added(popups, Dialog)
     ELSE popups' = Added(popups, e) /\ UNCHANGED mco
  /\ UNCHANGED <<repoVars, undo, banner, forcePush, seen, load, flow, cleanup, bound>>

\* a dialog about an error, or about local changes, is closed
DismissPopup ==
  /\ popups # <<>> /\ Top(popups).type \in {"Error", "LocalChangesOverwritten"}
  /\ flow.at # "retry"
  /\ popups' = ClosedTop(popups)
  /\ UNCHANGED <<repoVars, appVars, seen, load, flow, cleanup, bound>>

\* the user works on files
Edit ==
  /\ ~dirty /\ bound.edits > 0 /\ bound' = [bound EXCEPT !.edits = @ - 1]
  /\ dirty' = TRUE
  /\ UNCHANGED <<popups, tips, head, git, next, rewritten, forwarded, appVars, seen, load, flow, cleanup>>

\* the user commits, which clears the banner
Commit ==
  /\ UserFree /\ dirty /\ git.op = "none" /\ flow.at = "idle"
  /\ tips' = [tips EXCEPT ![head] = next] /\ next' = next + 1 /\ dirty' = FALSE
  /\ rewritten' = IF <<head, tips[head]>> \in rewritten
                  THEN rewritten \cup {<<head, next>>} ELSE rewritten
  /\ banner' = NoBanner
  /\ UNCHANGED <<popups, head, git, forwarded, mco, undo, forcePush, errors, seen, load, flow, cleanup, bound>>

\* _pull merges and meets a conflict
Pull ==
  /\ UserFree /\ flow.at = "idle" /\ git.op = "none"
  /\ bound.pulls > 0 /\ bound' = [bound EXCEPT !.pulls = @ - 1]
  /\ GitConflicts("Merge") /\ errors' = errors \cup {Dialog}
  /\ UNCHANGED <<popups, mco, undo, banner, forcePush, seen, load, flow, cleanup>>

\* Git in a terminal: something stops on a conflict, is finished or aborted
Terminal ==
  /\ bound.outside > 0 /\ bound' = [bound EXCEPT !.outside = @ - 1, !.disturbed = TRUE]
  /\ \/ git.op = "none" /\ \E kind \in Kinds \ {"Reorder", "Squash"} : GitConflicts(kind)
     \/ git.op = "rebase" /\ GitCommits("Rebase")
     \/ git.op \in {"merge", "cherryPick"} /\ GitCommits("Merge")
     \/ git.op # "none" /\ GitAborts
  /\ UNCHANGED <<popups, appVars, seen, load, flow, cleanup>>

\* branches differ in nothing but their name: one choice stands for all
Init ==
  /\ popups = <<>>
  /\ tips = CHOOSE t \in [Branches -> 1..Cardinality(Branches)] : IsInjective(t)
  /\ head = CHOOSE b \in Branches : TRUE
  /\ git = NoGit /\ next = Cardinality(Branches) + 1 /\ rewritten = {} /\ forwarded = {}
  /\ \E scene \in Scenes :
       /\ dirty = scene.dirty
       /\ bound = [kinds |-> scene.kinds, dirty |-> scene.dirty, starts |-> scene.starts,
                   edits |-> scene.edits, outside |-> scene.outside, pulls |-> scene.pulls,
                   disturbed |-> FALSE]
  /\ seen = [op |-> "none", on |-> head, tip |-> tips[head], files |-> dirty]
  /\ load = [l \in Loaders |-> Idle] /\ flow = Idle /\ cleanup = Idle
  /\ mco = NoOp /\ undo = [sha |-> 0, branch |-> NoBranch] /\ banner = NoBanner
  /\ forcePush = [b \in Branches |-> 0] /\ errors = {}

LoaderStep(l) == Read(l) \/ Apply(l) \/ Snapshot(l) \/ SetUp(l)
FlowStep == \/ Warned \/ Retry \/ RunGit \/ RunMerge \/ RunCheckout \/ Rebased
            \/ Process \/ Conflicts \/ Picked \/ RunContinue \/ FinishMerge \/ Merged
CleanupStep == RunAbort \/ BackToSource \/ Aborted \/ RunReset \/ Undone
ErrorStep == \E e \in errors : PresentError(e)
UserStep ==
  \/ \E kind \in Kinds : ChooseDialog(kind) \/ StartRewrite(kind)
  \/ \E b \in Branches : Choose(b)
  \/ Cancel \/ BeginAnyway \/ Stash \/ Continue \/ Dismiss \/ OpenConflicts \/ AskAbort
  \/ ReturnToConflicts \/ Abort \/ Undo \/ DismissPopup \/ Edit \/ Commit \/ Pull \/ Terminal

Next == \/ \E l \in Loaders : LoaderStep(l)
        \/ FlowStep \/ CleanupStep \/ ErrorStep \/ Refresh \/ UserStep

\* callbacks of Git and of the event loop come; a window gets its focus back
Fairness ==
  /\ \A l \in Loaders : WF_vars(LoaderStep(l))
  /\ WF_vars(FlowStep) /\ WF_vars(CleanupStep) /\ WF_vars(ErrorStep) /\ WF_vars(Refresh)

Spec == Init /\ [][Next]_vars /\ Fairness
-----------------------------------------------------------------------------
Step == {"ChooseBranch", "WarnForcePush", "ShowProgress", "ShowConflicts", "ConfirmAbort",
         "HideConflicts"}

\* Every variable has the type the application or Git gives it.
TypeOK ==
  /\ StackTypeOK
  /\ tips \in [Branches -> 1..(next - 1)] /\ head \in Branches /\ dirty \in BOOLEAN
  /\ git = NoGit \/ git \in [op : {"rebase", "cherryPick", "merge"}, on : Branches, was : Nat]
  /\ seen.on \in Branches \cup {NoBranch} /\ seen.files \in BOOLEAN
  /\ mco = NoOp \/ mco \in [kind : Kinds, step : Step, orig : Nat,
                            target : Branches \cup {NoBranch}, source : Branches \cup {NoBranch}]
  /\ forcePush \in [Branches -> Nat]
  /\ undo \in [sha : Nat, branch : Branches \cup {NoBranch}]

(* A branch that is listed at its tip was rewritten to that tip by Git, or  *)
(* a rebase fast-forwarded it, which the application does not tell apart:  *)
(* never a merge, a pull, a cherry-pick, a commit or another branch's      *)
(* status, whatever order statuses, retries and undos came in; an old      *)
(* entry no longer is the tip (lib/rebase.ts:38-68).                       *)
ForcePushRewritten ==
  \A b \in Branches : forcePush[b] = tips[b] => <<b, tips[b]>> \in rewritten \cup forwarded

ConflictsShown ==
  \/ banner = ConflictsFound
  \/ mco # NoOp /\ mco.step \in ConflictSteps /\ HasType(popups, "MultiCommitOperation")

(* A conflict Git stops in, be it of an operation of the application or of *)
(* a terminal, comes to the user's notice or is over                       *)
(* (app-store.ts:2637-2671).                                               *)
ConflictsReachUser == git.op # "none" ~> (git.op = "none" \/ ConflictsShown)

(* The dialog and the banner about conflicts go once Git has none, unless  *)
(* another dialog covers them (clearConflictsFlowVisuals).                 *)
ConflictsGo ==
  git.op = "none" ~> \/ git.op # "none" \/ ~ConflictsShown
                     \/ popups # <<>> /\ Top(popups) # Dialog

(* The dialog that shows progress cannot be dismissed: it goes away, or an *)
(* error covers it, unless a status was read while HEAD was detached, or   *)
(* Git gave none when an operation went on, or a terminal worked at the    *)
(* same time, or the result of Git closed another popup in its place       *)
(* (_closePopup and _endMultiCommitOperation of every result,              *)
(* dispatcher.ts:3519-3570).                                               *)
ProgressEnds ==
  InDialog("ShowProgress") ~> (~InDialog("ShowProgress") \/ bound.disturbed)

=============================================================================
