---------------------------- MODULE StashCheckout ----------------------------
(***************************************************************************)
(* Switching branches and stashing in AppStore (native/github_desktop/     *)
(* store.py) over the git commands of git/ops.py.                          *)
(*                                                                         *)
(* An operation is a job: store.py hands work() to a pool worker, work()   *)
(* issues git commands one after the other, and done() runs on the GTK     *)
(* thread and, for most outcomes, starts refresh_repository, which is      *)
(* again a read on a worker followed by an update of the state the user    *)
(* interface shows.  Between any two of these steps other jobs, the user   *)
(* and the user's editor may run.                                          *)
(*                                                                         *)
(* What git does with a command (succeed, refuse because local changes     *)
(* would be overwritten, fail for another reason) is a choice here.  A     *)
(* file change is an Edit; untracked files are not told apart from others. *)
(***************************************************************************)
EXTENDS Integers, Sequences, FiniteSets, SequencesExt

CONSTANTS
    Branches,
    Edits,      \* the changes the user makes in the work tree
    Slots,      \* where an operation runs: at most this many overlap
    Refreshers, \* where only a refresh runs
    MaxSha,     \* bound: stash entries ever created
    MaxDialogs  \* bound: the user starts nothing new with this many dialogs open

ASSUME BoundAssumption == MaxSha \in Nat \ {0} /\ MaxDialogs \in Nat

Strategies == {"ask", "move", "stash"}   \* UncommittedChangesStrategy
Kinds == {"checkout", "stashCheckout", "bring", "stashAll", "stashRetry",
          "restore", "discard", "refresh"}
Steps == {"try", "list", "push", "find", "drop", "checkout", "lookup", "pop",
          "done", "status", "stashes", "apply"}
Results == {"ok", "error", "overwritten"}

VARIABLES
    head,       \* git: the branch HEAD is on
    tree,       \* git: the uncommitted changes in the work tree
    stash,      \* git: refs/stash, stash@{0} first
    lastSha,    \* the entries created so far
    made,       \* the edits made so far
    shown,      \* the RepositoryViewState: branch, dirty?, stashes
    popups,     \* the questions on screen
    job         \* the running job of each slot, or Idle

vars == <<head, tree, stash, lastSha, made, shown, popups, job>>
git == <<head, tree, stash, lastSha>>

Idle == [kind |-> "none"]
Unread == [head |-> "none"]

\* label is the branch in the Desktop marker.
Entries == [sha : 1..MaxSha, label : Branches, edits : SUBSET Edits]

Views == [head : Branches, dirty : BOOLEAN, stash : Seq(Entries)]

Works(j) == j.kind \notin {"none", "refresh"}
NothingElseWorks(s) == \A t \in Slots \ {s} : ~ Works(job[t])

NewJob(s, kind, todo, target) ==
    [kind |-> kind, todo |-> todo, target |-> target, result |-> "ok",
     current |-> shown.head,     \* state.status.current_branch, read on the GTK thread
     prev |-> 0,                 \* the sha stash_and_drop_previous is to drop
     at |-> 1,                   \* the n of stash@{n}, plus 1
     \* history: no other operation ran meanwhile; the changes to bring along; the
     \* stash entry on screen
     alone |-> NothingElseWorks(s),
     carried |-> IF kind = "bring" THEN tree ELSE {},
     meant |-> IF kind = "discard" THEN Head(shown.stash).sha ELSE 0]

\* refresh_repository: snapshot is what it has read.
RefreshJob == [kind |-> "refresh", todo |-> <<"status", "stashes", "apply">>, snapshot |-> Unread]

\* get_last_desktop_stash_entry_for_branch: the newest entry of b, 0 if none.
IndexFor(entries, b) == SelectInSeq(entries, LAMBDA e : e.label = b)

\* Bug variant of IndexOf: the entry after the one that was meant.
IndexOfNext(entries, sha) == SelectInSeq(entries, LAMBDA e : e.sha = sha) + 1

IndexOf(entries, sha) == SelectInSeq(entries, LAMBDA e : e.sha = sha)

\* Bug variant of StashAndDropPrevious: the previous entry is looked up late.
StashAndDropLatest == <<"push", "list", "find", "drop">>

\* stash_and_drop_previous; find and drop are drop_desktop_stash_entry.
StashAndDropPrevious == <<"list", "push", "find", "drop">>

-----------------------------------------------------------------------------
Init ==
    /\ head \in Branches
    /\ tree = {}
    /\ stash = <<>>
    /\ lastSha = 0
    /\ made = {}
    /\ shown = [head |-> head, dirty |-> FALSE, stash |-> <<>>]
    /\ popups = {}
    /\ job = [s \in Slots \cup Refreshers |-> Idle]

Start(s, kind, todo, target) ==
    job' = [t \in DOMAIN job |->
              CASE t = s -> NewJob(s, kind, todo, target)
                [] t # s /\ Works(job[t]) -> [job[t] EXCEPT !.alone = FALSE]
                [] OTHER -> job[t]]
StartRefresh(s) == job' = [job EXCEPT ![s] = RefreshJob]
NoJob(s) == job' = [job EXCEPT ![s] = Idle]

Continue(s, todo) == job' = [job EXCEPT ![s].todo = todo]
Finish(s, result) == job' = [job EXCEPT ![s].todo = <<"done">>, ![s].result = result]
AtStep(s, step) == job[s] # Idle /\ Head(job[s].todo) = step
Rest(s) == Tail(job[s].todo)

\* show_popup: the window presents the popup at once, over the ones on screen.
Present(popup) == popups' = popups \cup {popup}

-----------------------------------------------------------------------------
(* The user. *)

Edit(e) ==
    /\ e \notin made
    /\ tree' = tree \cup {e}
    /\ made' = made \cup {e}
    /\ UNCHANGED <<head, stash, lastSha, shown, popups, job>>

ShownStashFor(b) == IndexFor(shown.stash, b) # 0

StartBring(s, b) ==
    Start(s, "bring", <<"try">> \o StashAndDropPrevious \o <<"checkout", "lookup", "pop", "done">>, b)

StartStashCheckout(s, b) ==
    Start(s, "stashCheckout", StashAndDropPrevious \o <<"checkout", "done">>, b)

\* checkout(): what becomes of the changes is decided on the state shown, on the
\* strategy in the settings, and on whether GitHub protects the current branch.
CheckoutBy(s, b, strategy, protected) ==
    LET leave == shown.dirty /\ strategy = "stash"
        ask(popup) == Present(popup) /\ NoJob(s)
    IN
    IF leave /\ ShownStashFor(shown.head)
    THEN ask([type |-> "overwriteStash", target |-> b])
    ELSE IF shown.dirty /\ (protected \/ strategy = "move")
    THEN StartBring(s, b) /\ UNCHANGED popups
    ELSE IF shown.dirty /\ strategy = "ask"
    THEN ask([type |-> "switch", target |-> b, hasStash |-> ShownStashFor(shown.head)])
    ELSE /\ Start(s, "checkout",
                  (IF leave THEN StashAndDropPrevious ELSE <<>>) \o <<"checkout", "done">>, b)
         /\ UNCHANGED popups

\* The settings may be changed at any time.
Checkout(s, b) ==
    \E strategy \in Strategies, protected \in BOOLEAN : CheckoutBy(s, b, strategy, protected)

\* The user is free to start an operation in slot s.
Free(s) == job[s] = Idle /\ Cardinality(popups) < MaxDialogs

UserChecksOut(s, b) ==
    /\ Free(s)
    /\ b # shown.head
    /\ Checkout(s, b)
    /\ UNCHANGED <<git, made, shown>>

\* show_stash_switch: leave the changes behind, or bring them along.
AnswerSwitch(s, p) ==
    /\ job[s] = Idle
    /\ p \in popups /\ p.type = "switch"
    /\ \/ /\ p.hasStash
          /\ popups' = (popups \ {p}) \cup {[type |-> "overwriteStash", target |-> p.target]}
          /\ NoJob(s)
       \/ /\ ~ p.hasStash
          /\ popups' = popups \ {p}
          /\ StartStashCheckout(s, p.target)
       \/ /\ popups' = popups \ {p}
          /\ StartBring(s, p.target)
    /\ UNCHANGED <<git, made, shown>>

AnswerOverwrite(s, p) ==
    /\ job[s] = Idle
    /\ p \in popups /\ p.type = "overwriteStash"
    /\ popups' = popups \ {p}
    /\ StartStashCheckout(s, p.target)
    /\ UNCHANGED <<git, made, shown>>

\* "Stash changes and continue" of the local-changes-overwritten dialog,
\* offered only when no stash was there: stash_and_retry.
AnswerRetry(s, p) ==
    /\ job[s] = Idle
    /\ p \in popups /\ p.type = "localChanges" /\ ~ p.hasStash
    /\ popups' = popups \ {p}
    /\ Start(s, "stashRetry", <<"push", "done">>, p.target)
    /\ UNCHANGED <<git, made, shown>>

ClosePopup(p) ==
    /\ p \in popups
    /\ popups' = popups \ {p}
    /\ UNCHANGED <<git, made, shown, job>>

StashAll(s) ==
    /\ Free(s)
    /\ shown.dirty
    /\ Start(s, "stashAll", StashAndDropPrevious \o <<"done">>, shown.head)
    /\ UNCHANGED <<git, made, shown, popups>>

\* restore_stash and discard_stash name the first stash shown: stash@{0},
\* unless an entry that is not Desktop's is above it (none is here).
RestoreOrDiscard(s) ==
    /\ Free(s)
    /\ shown.stash # <<>>
    /\ \/ Start(s, "restore", <<"pop", "done">>, shown.head)
       \/ Start(s, "discard", <<"drop", "done">>, shown.head)
    /\ UNCHANGED <<git, made, shown, popups>>

\* refresh_repository, on focus or from the timers.
Refresh(s) ==
    /\ job[s] = Idle
    /\ StartRefresh(s)
    /\ UNCHANGED <<git, made, shown, popups>>

User ==
    \/ \E e \in Edits : Edit(e)
    \/ \E p \in popups : ClosePopup(p)
    \/ \E s \in Slots :
        \/ \E b \in Branches : UserChecksOut(s, b)
        \/ \E p \in popups : AnswerSwitch(s, p) \/ AnswerOverwrite(s, p) \/ AnswerRetry(s, p)
        \/ StashAll(s)
        \/ RestoreOrDiscard(s)
    \/ \E s \in Slots \cup Refreshers : Refresh(s)

-----------------------------------------------------------------------------
(* The worker: one git command a step. *)

\* checkout_branch, the first attempt of checkout_and_bring_changes included.
GitCheckout(s) ==
    /\ AtStep(s, "try") \/ AtStep(s, "checkout")
    /\ \/ /\ head' = job[s].target
          /\ IF AtStep(s, "try") THEN Finish(s, "ok") ELSE Continue(s, Rest(s))
       \/ /\ tree # {}
          /\ UNCHANGED head
          /\ IF AtStep(s, "try") THEN Continue(s, Rest(s))
             ELSE Finish(s, IF job[s].kind = "bring" THEN "error" ELSE "overwritten")
       \/ /\ UNCHANGED head
          /\ Finish(s, "error")
    /\ UNCHANGED <<tree, stash, lastSha, made, shown, popups>>

GitList(s) ==
    /\ AtStep(s, "list")
    /\ LET i == IndexFor(stash, job[s].current)
       IN  job' = [job EXCEPT ![s].todo = Rest(s),
                              ![s].prev = IF i = 0 THEN 0 ELSE stash[i].sha]
    /\ UNCHANGED <<git, made, shown, popups>>

\* Bug variant of AfterNoStash: the result of create_desktop_stash_entry is
\* not looked at, and the previous entry is dropped for nothing.
DropsAnyway(s) == Rest(s)

\* What is left when there was nothing to stash: skip find and drop.
AfterNoStash(s) ==
    IF Head(Rest(s)) = "find" THEN Tail(Tail(Rest(s))) ELSE Rest(s)

\* create_desktop_stash_entry
GitStashPush(s) ==
    /\ AtStep(s, "push")
    /\ \/ /\ tree # {}
          /\ lastSha < MaxSha
          /\ lastSha' = lastSha + 1
          /\ stash' = <<[sha |-> lastSha', label |-> job[s].current, edits |-> tree]>> \o stash
          /\ tree' = {}
          /\ Continue(s, Rest(s))
       \/ /\ tree = {}
          /\ IF job[s].kind = "bring" THEN Finish(s, "overwritten") ELSE Continue(s, AfterNoStash(s))
          /\ UNCHANGED <<tree, stash, lastSha>>
       \/ /\ Finish(s, "error")
          /\ UNCHANGED <<tree, stash, lastSha>>
    /\ UNCHANGED <<head, made, shown, popups>>

GitFind(s) ==
    /\ AtStep(s, "find")
    /\ LET i == IndexOf(stash, job[s].prev)
       IN  job' = [job EXCEPT ![s].todo = IF i = 0 THEN Tail(Rest(s)) ELSE Rest(s),
                              ![s].at = IF i = 0 THEN @ ELSE i]
    /\ UNCHANGED <<git, made, shown, popups>>

\* git stash drop stash@{n}
GitStashDrop(s) ==
    /\ AtStep(s, "drop")
    /\ \/ /\ job[s].at <= Len(stash)
          /\ stash' = RemoveAt(stash, job[s].at)
          /\ Continue(s, Rest(s))
       \/ /\ Finish(s, "error")
          /\ UNCHANGED stash
    /\ UNCHANGED <<head, tree, lastSha, made, shown, popups>>

\* bring: the entry to pop is looked up under the target's name.
GitLookup(s) ==
    /\ AtStep(s, "lookup")
    /\ LET i == IndexFor(stash, job[s].target)
       IN  job' = [job EXCEPT ![s].todo = IF i = 0 THEN Tail(Rest(s)) ELSE Rest(s),
                              ![s].at = IF i = 0 THEN @ ELSE i]
    /\ UNCHANGED <<git, made, shown, popups>>

\* stash_pop: popped; kept because of a conflict; not there; or refused.
GitStashPop(s) ==
    LET i == job[s].at IN
    /\ AtStep(s, "pop")
    /\ \/ /\ i <= Len(stash)
          /\ tree' = tree \cup stash[i].edits
          /\ stash' = RemoveAt(stash, i) \/ stash' = stash
          /\ Continue(s, Rest(s))
       \/ /\ i > Len(stash)
          /\ Continue(s, Rest(s))
          /\ UNCHANGED <<tree, stash>>
       \/ /\ Finish(s, "error")
          /\ UNCHANGED <<tree, stash>>
    /\ UNCHANGED <<head, lastSha, made, shown, popups>>

\* refresh_repository: work() reads the status, later the stashes; done() replaces
\* what is shown, or leaves it when one of the commands failed.
RefreshStatus(s) ==
    /\ AtStep(s, "status")
    /\ job' = [job EXCEPT ![s].todo = Rest(s),
                          ![s].snapshot = [head |-> head, dirty |-> tree # {}, stash |-> <<>>]]
    /\ UNCHANGED <<git, made, shown, popups>>

RefreshStashes(s) ==
    /\ AtStep(s, "stashes")
    /\ job' = [job EXCEPT ![s].todo = Rest(s), ![s].snapshot.stash = stash]
    /\ UNCHANGED <<git, made, shown, popups>>

RefreshApply(s) ==
    /\ AtStep(s, "apply")
    /\ shown' \in {job[s].snapshot, shown}
    /\ NoJob(s)
    /\ UNCHANGED <<git, made, popups>>

-----------------------------------------------------------------------------
(* done(), on the GTK thread. *)

RefreshesAfter(kind, result) ==
    result = "ok" \/ kind \in {"checkout", "stashCheckout", "bring"}

Done(s) ==
    LET j == job[s] IN
    /\ AtStep(s, "done")
    /\ IF j.kind = "stashRetry" /\ j.result = "ok"
       THEN Checkout(s, j.target)      \* perform_retry
       ELSE /\ IF RefreshesAfter(j.kind, j.result)
               THEN StartRefresh(s)
               ELSE NoJob(s)
            /\ IF j.result = "overwritten"
               THEN Present([type |-> "localChanges", target |-> j.target,
                             hasStash |-> ShownStashFor(shown.head)])
               ELSE UNCHANGED popups
    /\ UNCHANGED <<git, made, shown>>

JobStep(s) ==
    \/ GitCheckout(s) \/ GitList(s) \/ GitStashPush(s) \/ GitFind(s) \/ GitStashDrop(s)
    \/ GitLookup(s) \/ GitStashPop(s) \/ Done(s)
    \/ RefreshStatus(s) \/ RefreshStashes(s) \/ RefreshApply(s)

Next == User \/ \E s \in DOMAIN job : JobStep(s)

Spec == Init /\ [][Next]_vars

-----------------------------------------------------------------------------
(* Properties. *)

StashedEdits == UNION {stash[i].edits : i \in DOMAIN stash}
Running == Range(job) \ {Idle}

Popups ==
    [type : {"overwriteStash"}, target : Branches]
    \cup [type : {"switch", "localChanges"}, target : Branches, hasStash : BOOLEAN]

\* Everything has its type, and refs/stash holds no entry twice.
TypeOK ==
    /\ head \in Branches /\ tree \subseteq made /\ made \subseteq Edits
    /\ stash \in Seq(Entries) /\ lastSha \in 0..MaxSha
    /\ \A i, k \in DOMAIN stash : stash[i].sha = stash[k].sha => i = k
    /\ shown \in Views
    /\ popups \subseteq Popups
    /\ \A j \in Running :
          /\ j.kind \in Kinds /\ Len(j.todo) > 0 /\ Range(j.todo) \subseteq Steps
          /\ IF j.kind = "refresh" THEN j.snapshot \in Views \cup {Unread}
             ELSE /\ j.result \in Results /\ {j.target, j.current} \subseteq Branches
                  /\ {j.prev, j.meant} \subseteq 0..MaxSha /\ j.at \in 1..MaxSha
                  /\ j.carried \subseteq made /\ j.alone \in BOOLEAN

\* No other operation has run since the one in slot s began.
Alone(s) == Works(job[s]) /\ job[s].alone

\* Entry e made way for a newer one of its branch.
MadeWay(e) == \E n \in Range(stash') : n.label = e.label /\ n.sha > e.sha

\* Whatever git refuses, wherever it stops and whatever refreshes and edits come
\* between, an operation that no other one overlaps loses no change of the user,
\* unless it is to discard an entry: what leaves the work tree is in the stash, and
\* an entry leaves the stash for the work tree or for a newer one of its branch.
WorkSurvives ==
    [][(\E s \in Slots : Alone(s) /\ job[s].kind # "discard") =>
        /\ tree \ tree' \subseteq StashedEdits'
        /\ \A e \in Range(stash) \ Range(stash') : e.edits \subseteq tree' \/ MadeWay(e)]_vars

\* stash_and_drop_previous finds the old entry by its sha and drops it by its
\* position: what an operation on its own drops is the entry it found before, and
\* only when the new one is there ("created and previous", store.py:5945).
DroppedOnlyWhenReplaced ==
    [][\A s \in Slots : Alone(s) /\ job[s].kind \notin {"discard", "restore"}
          /\ AtStep(s, "drop") /\ Len(stash') < Len(stash)
          => /\ stash[job[s].at].sha = job[s].prev
             /\ \E n \in Range(stash') : n.label = job[s].current /\ n.sha > job[s].prev]_vars

\* The user finds a stash again under the branch it was made on.
StashLabelTrue ==
    [][Len(stash') > Len(stash) => Head(stash').label = head]_vars

\* "Your in-progress work will follow you to the new branch".
ChangesFollow ==
    [][\A s \in Slots : AtStep(s, "done") /\ job[s].kind = "bring" /\ job[s].result = "ok"
          => job[s].carried \subseteq tree]_vars

\* The entry "Discard" deletes is the one whose files were on screen.
DiscardsWhatWasShown ==
    [][\A s \in Slots : job[s] # Idle /\ job[s].kind = "discard" /\ Len(stash') < Len(stash)
          => stash[job[s].at].sha = job[s].meant]_vars
=============================================================================
