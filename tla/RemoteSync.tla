------------------------------ MODULE RemoteSync ------------------------------
(***************************************************************************)
(* Push, pull and fetch of the selected branch, the background fetch, the  *)
(* tags still to be pushed and the force-push list of AppStore             *)
(* (native/github_desktop/store.py).                                       *)
(*                                                                         *)
(* A history is the set of its commits.  There is one branch.  Between any *)
(* two steps it may be renamed in a terminal, and HEAD detached from it or *)
(* attached again: a step that looks at HEAD finds any name or none.       *)
(* A detached HEAD is not committed to or rewritten.  An operation is a    *)
(* job: git commands on a pool worker, then done() on the GTK thread, then *)
(* for most outcomes refresh_repository.  The network may fail any command.*)
(***************************************************************************)
EXTENDS Integers

CONSTANTS
    MaxCommit,  \* bound: commits ever made, by the user or by a teammate
    Tags,
    Slots,      \* at most this many jobs overlap
    Names,      \* names the branch may have
    NoBranch    \* a detached HEAD, which current_branch is None for

ASSUME CommitAssumption == MaxCommit \in Nat \ {0}
ASSUME NamesAssumption == NoBranch \notin Names

Commits == 1..MaxCommit
NoTip == {}     \* no history: the value of an empty slot
Heads == Names \cup {NoBranch}

VARIABLES
    local,      \* git: the branch
    tracking,   \* git: its remote-tracking branch
    remote,     \* the branch on the server
    lastCommit, \* commits made so far
    tagAt,      \* git: the commit of each tag, 0 when there is none
    remoteTags, \* the tags on the server
    tagsToPush, \* local_tags_to_push, and its saved copy in the settings
    shown,      \* state.status as last refreshed: the branch and its upstream
    leaseOn,    \* force_push_with_lease_on, by name
    pending,    \* pending_force_push_before
    progress,   \* progress_kind is not None
    inFlight,   \* _background_fetch_in_flight
    confirming, \* CONFIRM_FORCE_PUSH is on screen
    job

git == <<local, tracking, remote, lastCommit, tagAt, remoteTags>>
store == <<tagsToPush, shown, leaseOn, pending, progress, inFlight, confirming>>
vars == <<git, store, job>>

Operations == {"push", "pull", "fetch", "background", "tag", "untag", "rewrite"}
Steps == {"push", "pull", "fetch", "refetch", "tags", "tag", "untag", "rewrite",
          "done", "read", "apply"}

\* The step after one that did not end the work.
After == [refetch |-> "done", pull |-> "tags", fetch |-> "tags", tag |-> "done",
          untag |-> "done", rewrite |-> "done"]

Results == {"ok", "error", "rejected", "refused"}
Views == [head : Heads, local : SUBSET Commits, tracking : SUBSET Commits]
NoView == [head |-> NoBranch, local |-> {}, tracking |-> {}]
NoLease == [n \in Names |-> NoTip]

\* A slot in which nothing runs.
Idle ==
    [kind |-> "none", at |-> "idle", result |-> "ok", force |-> FALSE,
     tags |-> {},           \* push: the list when it starts; fetch: what it read
     snapshot |-> NoView,   \* a refresh: what it read; else what it keeps of the status
     clears |-> FALSE,      \* a refresh that ends by clearing the progress
     alone |-> FALSE,       \* history: no other operation ran meanwhile
     named |-> TRUE]        \* history: its dry run was of the branch

Exists(t) == tagAt[t] # 0
Behind(view) == view.head # NoBranch /\ view.tracking \ view.local # {}
Ahead(view) == view.head # NoBranch /\ view.local \ view.tracking # {}

\* current_branch_force_push_state
ForcePushAvailable == Behind(shown) /\ Ahead(shown)
ForcePushRecommended == ForcePushAvailable /\ leaseOn[shown.head] = shown.local

-----------------------------------------------------------------------------
\* What refresh_repository may read; a detached HEAD has no upstream.
ReadView == {NoView} \cup [head : Names, local : {local}, tracking : {tracking}]

Init ==
    /\ local = {1} /\ tracking = {1} /\ remote = {1}
    /\ lastCommit = 1
    /\ tagAt = [t \in Tags |-> 0]
    /\ remoteTags = {} /\ tagsToPush = {}
    /\ shown \in ReadView \ {NoView}
    /\ leaseOn = NoLease /\ pending = NoTip
    /\ progress = FALSE
    /\ inFlight = FALSE
    /\ confirming = FALSE
    /\ job = [s \in Slots |-> Idle]

Runs(s) == job[s].kind \in Operations
NothingRuns == \A s \in Slots : ~ Runs(s)

\* Bug variant of FirstStep: the step is named after the type of the fetch.
FirstStepOfType(kind) == kind

FirstStep(kind) == IF kind = "background" THEN "fetch" ELSE kind

\* A push is refused on the cached status: without a branch, and when it is behind.
Refused(force) == shown.head = NoBranch \/ (Behind(shown) /\ ~ force)

\* What an operation keeps of the status it begins with.
Cached(kind) ==
    CASE kind = "rewrite" -> shown
      [] kind = "push" -> [NoView EXCEPT !.head = shown.head]
      [] OTHER -> NoView

NewJob(kind, tags, force) ==
    [kind |-> kind, at |-> FirstStep(kind),
     result |-> IF kind = "push" /\ Refused(force) THEN "refused" ELSE "ok",
     force |-> force, tags |-> tags, snapshot |-> Cached(kind),
     clears |-> FALSE, alone |-> NothingRuns, named |-> TRUE]

Begin(s, kind, tags, force) ==
    /\ job[s] = Idle
    /\ job' = [u \in Slots |-> IF u = s THEN NewJob(kind, tags, force)
                               ELSE [job[u] EXCEPT !.alone = FALSE]]

BeginPush(s, force) == Begin(s, "push", tagsToPush, force)

\* refresh_repository, and _refresh_after_push_pull_fetch when it clears.
RefreshJob(clears) == [Idle EXCEPT !.kind = "refresh", !.at = "read", !.clears = clears]

AtStep(s, step) == job[s].at = step
Continue(s) == job' = [job EXCEPT ![s].at = After[@]]
\* An operation that ends here has no use for what it began with.
Finish(s, result) ==
    job' = [job EXCEPT ![s] = [@ EXCEPT !.at = "done", !.result = result,
                                        !.force = FALSE, !.tags = {}, !.snapshot = NoView]]

-----------------------------------------------------------------------------
(* The user, a teammate, the timers. *)

\* A new commit, made in the application or in a terminal.
Commit ==
    /\ lastCommit < MaxCommit
    /\ lastCommit' = lastCommit + 1
    /\ local' = local \cup {lastCommit'}
    /\ UNCHANGED <<tracking, remote, tagAt, remoteTags, store, job>>

TeammatePushes ==
    /\ lastCommit < MaxCommit
    /\ lastCommit' = lastCommit + 1
    /\ remote' = remote \cup {lastCommit'}
    /\ UNCHANGED <<local, tracking, tagAt, remoteTags, store, job>>

\* confirm_or_force_push: the confirmation may be turned off.
ConfirmOrForcePush(s) ==
    \/ confirming' = TRUE /\ UNCHANGED job
    \/ BeginPush(s, TRUE) /\ UNCHANGED confirming

\* The menu and the toolbar offer push and pull while no progress is shown.
UserPushes(s) ==
    /\ ~ progress
    /\ IF ForcePushRecommended THEN ConfirmOrForcePush(s)
       ELSE BeginPush(s, FALSE) /\ UNCHANGED confirming
    /\ UNCHANGED <<git, tagsToPush, shown, leaseOn, pending, progress, inFlight>>

UserForcePushes(s) ==
    /\ ~ progress /\ ForcePushAvailable
    /\ ConfirmOrForcePush(s)
    /\ UNCHANGED <<git, tagsToPush, shown, leaseOn, pending, progress, inFlight>>

UserPulls(s) ==
    /\ ~ progress
    /\ Begin(s, "pull", {}, FALSE)
    /\ UNCHANGED <<git, store>>

\* The Repository menu and the "needs pull" dialog offer it at any time.
UserFetches(s) ==
    /\ Begin(s, "fetch", {}, FALSE)
    /\ UNCHANGED <<git, store>>

\* The dialog does not look at the progress.
AnswerForcePush(s) ==
    /\ confirming
    /\ confirming' = FALSE
    /\ BeginPush(s, TRUE)
    /\ UNCHANGED <<git, tagsToPush, shown, leaseOn, pending, progress, inFlight>>

CloseForcePush ==
    /\ confirming
    /\ confirming' = FALSE
    /\ UNCHANGED <<git, tagsToPush, shown, leaseOn, pending, progress, inFlight, job>>

\* fetch_repo(BACKGROUND_TASK)
BackgroundFetch(s) ==
    /\ ~ inFlight /\ ~ progress
    /\ inFlight' = TRUE
    /\ Begin(s, "background", {}, FALSE)
    /\ UNCHANGED <<git, tagsToPush, shown, leaseOn, pending, progress, confirming>>

\* create_tag and delete_tag; a tag of the server is neither made nor deleted.
UserTags(s, t) ==
    /\ t \notin remoteTags
    /\ \/ ~ Exists(t) /\ Begin(s, "tag", {t}, FALSE)
       \/ t \in tagsToPush /\ Begin(s, "untag", {t}, FALSE)
    /\ UNCHANGED <<git, store>>

\* Amend, reword, squash, reorder, rebase: one commit is replaced.
UserRewrites(s) ==
    /\ shown.head # NoBranch
    /\ Begin(s, "rewrite", {}, FALSE)
    /\ UNCHANGED <<git, store>>

UserRefreshes(s) ==
    /\ job[s] = Idle
    /\ job' = [job EXCEPT ![s] = RefreshJob(FALSE)]
    /\ UNCHANGED <<git, store>>

\* The application ends and starts again; the tags to push are in the settings.
Restart ==
    /\ \E s \in Slots : job[s] # Idle
    /\ job' = [s \in Slots |-> Idle]
    /\ shown' \in ReadView
    /\ leaseOn' = NoLease /\ pending' = NoTip
    /\ progress' = FALSE /\ inFlight' = FALSE /\ confirming' = FALSE
    /\ UNCHANGED <<git, tagsToPush>>

Environment ==
    \/ Commit \/ TeammatePushes \/ CloseForcePush \/ Restart
    \/ \E s \in Slots :
        \/ UserPushes(s) \/ UserForcePushes(s) \/ UserPulls(s) \/ UserFetches(s)
        \/ AnswerForcePush(s) \/ BackgroundFetch(s)
        \/ \E t \in Tags : UserTags(s, t)
        \/ UserRewrites(s) \/ UserRefreshes(s)

-----------------------------------------------------------------------------
(* The worker. *)

\* A background fetch shows no progress.
Shows(kind) == progress' = (progress \/ kind # "background")

\* Bug variant of Accepts: --force instead of --force-with-lease.
AcceptsAnything(force) == force \/ remote \subseteq local

\* --force-with-lease compares the server with the remote-tracking branch.
Accepts(force) == IF force THEN remote = tracking ELSE remote \subseteq local

\* Whether Git knows the branch by this name: it may have got another one.
Present(name) == IF name \in Names THEN {TRUE, Names = {name}} ELSE {FALSE}

\* push: the branch and the tags are separate refs, so the tags may arrive although
\* the branch is rejected.
GitPush(s) ==
    LET j == job[s] IN
    /\ AtStep(s, "push")
    /\ IF j.result = "refused"
       THEN Finish(s, "refused") /\ UNCHANGED <<git, progress>>
       ELSE /\ Shows("push")
            /\ \E present \in Present(j.snapshot.head) :
                 LET known == present /\ \A t \in j.tags : Exists(t) IN
                 \/ /\ known /\ Accepts(j.force)
                    /\ remote' = local /\ tracking' = local
                    /\ remoteTags' = remoteTags \cup j.tags
                    /\ job' = [job EXCEPT ![s] = [@ EXCEPT !.at = "refetch", !.snapshot = NoView]]
                 \/ /\ ~ known \/ ~ Accepts(j.force)
                    /\ \/ remoteTags' = remoteTags
                       \/ known /\ remoteTags' = remoteTags \cup j.tags
                    /\ Finish(s, "rejected")
                    /\ UNCHANGED <<remote, tracking>>
                 \/ /\ Finish(s, "error")
                    /\ UNCHANGED <<remote, tracking, remoteTags>>
            /\ UNCHANGED <<local, lastCommit, tagAt>>
    /\ UNCHANGED <<tagsToPush, shown, leaseOn, pending, inFlight, confirming>>

\* fetch of the remotes after the push; its failure is only logged.
GitRefetch(s) ==
    /\ AtStep(s, "refetch")
    /\ Shows("push")
    /\ tracking' = remote \/ tracking' = tracking
    /\ Continue(s)
    /\ UNCHANGED <<local, remote, lastCommit, tagAt, remoteTags>>
    /\ UNCHANGED <<tagsToPush, shown, leaseOn, pending, inFlight, confirming>>

\* fetch, for the user and in the background.
GitFetch(s) ==
    /\ AtStep(s, "fetch")
    /\ Shows(job[s].kind)
    /\ \/ tracking' = remote /\ Continue(s)
       \/ Finish(s, "error") /\ UNCHANGED tracking
    /\ UNCHANGED <<local, remote, lastCommit, tagAt, remoteTags>>
    /\ UNCHANGED <<tagsToPush, shown, leaseOn, pending, inFlight, confirming>>

\* pull: fetched and integrated, or stopped before, after the fetch, or when the
\* commits are read that have arrived; Git pulls nothing into a detached HEAD.
GitPull(s) ==
    /\ AtStep(s, "pull")
    /\ Shows("pull")
    /\ \/ /\ tracking' = remote /\ local' = local \cup remote
          /\ Continue(s) \/ Finish(s, "error")
       \/ tracking' \in {tracking, remote} /\ Finish(s, "error") /\ UNCHANGED local
    /\ UNCHANGED <<remote, lastCommit, tagAt, remoteTags>>
    /\ UNCHANGED <<tagsToPush, shown, leaseOn, pending, inFlight, confirming>>

Unpushed == {t \in Tags : tagAt[t] \in local /\ t \notin remoteTags}

\* Bug variant of TagsRead: the failure of the dry run is an empty list.
TagsReadOrNone(named) == {Unpushed, {}}

\* _tags_to_push: nothing without a branch in the status; else a dry run of push
\* --follow-tags, which for a name that is gone exits with 1, as for nothing to
\* push; the old list if it fails.
TagsRead(named) ==
    IF shown.head = NoBranch THEN {{}} ELSE {tagsToPush, IF named THEN Unpushed ELSE {}}

ReadTags(s) ==
    /\ AtStep(s, "tags")
    /\ \E named \in Present(shown.head) : \E found \in TagsRead(named) :
          job' = [job EXCEPT ![s] = [@ EXCEPT !.at = "done", !.tags = found, !.named = named]]
    /\ UNCHANGED <<git, store>>

GitTag(s) ==
    /\ AtStep(s, "tag") \/ AtStep(s, "untag")
    /\ \/ \E t \in job[s].tags :
             /\ IF AtStep(s, "tag") THEN ~ Exists(t) /\ \E c \in local : tagAt' = [tagAt EXCEPT ![t] = c]
                ELSE Exists(t) /\ tagAt' = [tagAt EXCEPT ![t] = 0]
             /\ Continue(s)
       \/ Finish(s, "error") /\ UNCHANGED tagAt
    /\ UNCHANGED <<local, tracking, remote, lastCommit, remoteTags, store>>

GitRewrite(s) ==
    /\ AtStep(s, "rewrite")
    /\ \/ /\ lastCommit < MaxCommit
          /\ lastCommit' = lastCommit + 1
          /\ \E c \in local : local' = (local \ {c}) \cup {lastCommit'}
          /\ Continue(s)
       \/ Finish(s, "error") /\ UNCHANGED <<local, lastCommit>>
    /\ UNCHANGED <<tracking, remote, tagAt, remoteTags, store>>

RefreshRead(s) ==
    /\ AtStep(s, "read")
    /\ \E view \in ReadView :
          job' = [job EXCEPT ![s] = [@ EXCEPT !.at = "apply", !.snapshot = view]]
    /\ UNCHANGED <<git, store>>

-----------------------------------------------------------------------------
(* done(), on the GTK thread. *)

\* add_branch_to_force_push_list, for the rewrite done() has left pending.
RefreshApply(s) ==
    /\ AtStep(s, "apply")
    /\ \/ /\ shown' = job[s].snapshot
          /\ leaseOn' = IF pending # NoTip /\ shown'.local # pending
                        THEN [leaseOn EXCEPT ![shown'.head] = shown'.local] ELSE leaseOn
          /\ pending' = NoTip
       \/ UNCHANGED <<shown, leaseOn, pending>>       \* the read failed
    /\ progress' = (progress /\ ~ job[s].clears)
    /\ job' = [job EXCEPT ![s] = Idle]
    /\ UNCHANGED <<git, tagsToPush, inFlight, confirming>>

\* What done() makes of the tags to push.
TagsAfter(j) ==
    IF j.result # "ok" THEN tagsToPush
    ELSE CASE j.kind = "push" -> {}
           [] j.kind \in {"pull", "fetch", "background"} -> j.tags
           [] j.kind = "tag" -> tagsToPush \cup j.tags
           [] j.kind = "untag" -> tagsToPush \ j.tags
           [] j.kind = "rewrite" -> tagsToPush

\* Bug variant of ProgressAfter: the early return on an error clears nothing.
ProgressAfterSuccess(j) ==
    progress \/ (j.kind \in {"push", "pull", "fetch"} /\ j.result = "ok")

ProgressAfter(j) ==
    IF j.kind \in {"push", "pull", "fetch"} THEN j.result = "ok" ELSE progress

\* Bug variant of InFlightAfter: the flag stays up when the fetch fails.
InFlightAfterSuccess(j) == inFlight /\ ~ (j.kind = "background" /\ j.result = "ok")

InFlightAfter(j) == inFlight /\ j.kind # "background"

Done(s) ==
    LET j == job[s] IN
    /\ AtStep(s, "done")
    /\ tagsToPush' = TagsAfter(j)
    /\ progress' = ProgressAfter(j)
    /\ inFlight' = InFlightAfter(j)
    /\ leaseOn' = IF j.kind = "push" /\ j.force /\ j.result = "ok"
                  THEN [leaseOn EXCEPT ![shown.head] = NoTip] ELSE leaseOn
    /\ pending' = IF j.kind = "rewrite" /\ j.result = "ok" THEN j.snapshot.local ELSE pending
    /\ confirming' = (confirming \/ j.result = "rejected")
    /\ job' = [job EXCEPT ![s] = IF j.result = "ok"
                                 THEN RefreshJob(j.kind \in {"push", "pull", "fetch"})
                                 ELSE Idle]
    /\ UNCHANGED <<git, shown>>

JobStep(s) ==
    \/ GitPush(s) \/ GitRefetch(s) \/ GitFetch(s) \/ GitPull(s) \/ ReadTags(s)
    \/ GitTag(s) \/ GitRewrite(s) \/ RefreshRead(s) \/ RefreshApply(s) \/ Done(s)

Next == Environment \/ \E s \in Slots : JobStep(s)

Spec == Init /\ [][Next]_vars

-----------------------------------------------------------------------------
(* Properties. *)

Jobs ==
    [kind : Operations \cup {"refresh", "none"}, at : Steps \cup {"idle"},
     result : Results, force : BOOLEAN, tags : SUBSET Tags,
     snapshot : Views, clears : BOOLEAN, alone : BOOLEAN, named : BOOLEAN]

Made == 1..lastCommit

\* Everything has its type, and git names only commits that were made.
TypeOK ==
    /\ lastCommit \in Commits
    /\ local \subseteq Made /\ tracking \subseteq Made /\ remote \subseteq Made
    /\ tagAt \in [Tags -> Made \cup {0}]
    /\ remoteTags \subseteq Tags /\ tagsToPush \subseteq Tags
    /\ shown \in Views /\ leaseOn \in [Names -> SUBSET Commits] /\ pending \subseteq Commits
    /\ progress \in BOOLEAN /\ inFlight \in BOOLEAN /\ confirming \in BOOLEAN
    /\ job \in [Slots -> Jobs]

\* Whatever overlaps and whatever fails, the progress that disables push, pull,
\* fetch and the background fetch goes away: it is shown only while a push, a
\* pull or a fetch, or the refresh that ends one, is still to come to an end.
ProgressEnds ==
    progress =>
        \E s \in Slots : \/ job[s].kind \in {"push", "pull", "fetch"}
                        \/ (job[s].kind = "refresh" /\ job[s].clears)

\* _background_fetch_in_flight is up exactly while a background fetch runs, and
\* so two of them never run at once and the next one is never held up for good.
OneBackgroundFetch ==
    /\ inFlight <=> \E s \in Slots : job[s].kind = "background"
    /\ \A s, u \in Slots : job[s].kind = "background" /\ job[u].kind = "background" => s = u

\* The step of operation s's done().
Ends(s) == AtStep(s, "done") /\ Done(s)

\* A tag leaves the tags to push when it is on the server, when it no longer
\* exists, or when the branch no longer reaches it.
LeavesRightly(t) == t \in remoteTags \/ ~ Exists(t) \/ tagAt[t] \notin local

\* The tags still to be pushed are not forgotten by an operation that nothing
\* overlapped, whatever fails in it and whatever the application crashed in before;
\* unless it listed the tags while the status had no branch, or one renamed since,
\* for then store.py:5743 and git/ops.py:1830 take them for pushed.
TagLeavesWhenPushed ==
    [][\A s \in Slots : Ends(s) /\ job[s].alone /\ job[s].named
          => \A t \in tagsToPush \ tagsToPush' : LeavesRightly(t)]_vars

\* "Persist unpushed tags": no operation forgets a tag that is still to be pushed.
TagKeptUntilPushed ==
    [][\A t \in tagsToPush \ tagsToPush' : LeavesRightly(t)]_vars

\* A push, forced or not, never drops a commit of the server that this clone
\* has not fetched.
UnfetchedSurvives == [][remote \ remote' \subseteq tracking]_vars

\* The lease "guards against the tracking branch being updated without the user
\* knowing": while the branch is shown, a push drops only commits the user has seen.
UnseenSurvives ==
    [][shown.head # NoBranch => remote \ remote' \subseteq shown.tracking]_vars

-----------------------------------------------------------------------------
(* What the proofs of TypeOK, ProgressEnds, OneBackgroundFetch and           *)
(* TagLeavesWhenPushed need besides themselves.                              *)

\* Where a job of each kind can be, and with what result.
JobsInOrder ==
    \A s \in Slots :
        /\ job[s].kind = "none" <=> job[s].at = "idle"
        /\ job[s].kind = "refresh" <=> job[s].at \in {"read", "apply"}
        /\ job[s].at \in Steps \ {"push", "done"} => job[s].result = "ok"
        /\ job[s].at = "push" => job[s].result \in {"ok", "refused"}
        /\ job[s].at \in {"push", "refetch"} => job[s].kind = "push"
        /\ job[s].at = "fetch" => job[s].kind \in {"fetch", "background"}
        /\ job[s].at = "pull" => job[s].kind = "pull"
        /\ job[s].at = "tags" => job[s].kind \in {"pull", "fetch", "background"}
        /\ job[s].at \in {"tag", "untag", "rewrite"} => job[s].kind = job[s].at

\* An operation that ran alone still does.
AloneIsAlone ==
    \A s, u \in Slots : job[s].alone /\ u # s => ~ Runs(u)

\* What an operation that ran alone knows of the tags at each of its steps.
TagsKnown(s) ==
    LET j == job[s] IN
    /\ j.kind = "push" /\ j.result = "ok" => j.tags = tagsToPush
    /\ j.kind = "untag" /\ j.result = "ok" => \E t \in Tags : j.tags = {t}
    /\ j.kind = "push" /\ (j.at = "refetch" \/ (j.at = "done" /\ j.result = "ok"))
         => j.tags \subseteq remoteTags
    /\ j.kind \in {"pull", "fetch", "background"} /\ j.at = "done" /\ j.result = "ok" /\ j.named
         => \A t \in tagsToPush \ j.tags : LeavesRightly(t)
    /\ j.kind = "untag" /\ j.at = "done" /\ j.result = "ok"
         => \A t \in j.tags : ~ Exists(t)

AloneKnows == \A s \in Slots : job[s].alone => Runs(s) /\ TagsKnown(s)

Inv ==
    /\ TypeOK /\ JobsInOrder /\ ProgressEnds /\ OneBackgroundFetch
    /\ AloneIsAlone /\ AloneKnows
=============================================================================
