# TLA+ models of GitHub Desktop for Linux

This directory holds TLA+ models of GitHub Desktop for Linux, the configurations
that model-check them and machine-checked proofs of what matters most about them.

The repository has the application twice. `app/src/` is the TypeScript
application (Electron, React) in which most of the logic was written first and
which is the larger body of code. `native/github_desktop/` is the native
application (Python, GTK 4), for which `docs/technical/architecture.md` calls the
TypeScript tree the behavioural reference. Both are modelled, by modules of
their own: three modules translate Python, twelve translate TypeScript. No module
mixes the two, and nothing is claimed of one from a model of the other. Where the
native code is held against a promise written in the TypeScript tree, the finding
quotes it.

Paths below are relative to `native/github_desktop/` when they end in `.py` and to
`app/src/` when they end in `.ts` or `.tsx`, unless they start with `docs/`.

## The systems

### The native application

There is one process. The GTK main loop runs the user interface, the timers and
everything that changes the state on screen. `AppStore` (`store.py`) owns the
state. Its operations have one shape (`_run`, `store.py:7775`):

    def operation(...):            # GTK thread: read self.state, decide, maybe ask
        def work(): ...            # pool worker (6 of them): git commands, network
        def done(err, result): ... # GTK thread again: change state, popup, refresh
        self._run(work, done)

Between the three parts anything else may happen: another operation, a timer, an
answer to a dialog, a commit made in a terminal. What the first part read may be
stale in the second and wrong in the third. Nothing in `_run` serialises two
operations on one repository; `repo_state` is the only thing they share besides
the repository itself. Most operations end with `refresh_repository`
(`store.py:2245`), itself a read on a worker followed by an update of the state.

| component | state it keeps | operations | interacts with | what makes it correct |
|---|---|---|---|---|
| Ahead/behind queue (`store.py:3902-4026`) | LRU cache, queue of pairs, waiters per pair, count of lookups in flight | `request_ahead_behind`, its `cancel`, `try_get_ahead_behind`, `_pump_ahead_behind` | branch list and compare list of the window (requests and callbacks), pool | one lookup at a time, each uncancelled request answered once, a cancelled one never |
| Branch switching and stashing (`store.py:4227-4264`, `5860-6096`) | view of status and stashes, popups, `uncommitted_changes_strategy` | `checkout`, `checkout_and_bring_changes`, `stash_then_checkout`, `stash_all_changes`, `stash_and_retry`, `restore_stash`, `discard_stash` | git, dialogs, refresh | no work is lost, stashes are found under their branch, changes follow when told to |
| Push, pull, fetch (`store.py:5413-5771`) | `local_tags_to_push` (and saved copy), `force_push_with_lease_on`, `pending_force_push_before`, `progress_kind`, `_background_fetch_in_flight` | `push_repo`, `pull_repo`, `fetch_repo`, tag operations, `confirm_or_force_push` | git, server, toolbar, timers, settings, refresh | no blind overwrite of the server, no tag forgotten, buttons come back |
| Refresh and selection (`store.py:2245-2648`) | the whole `RepositoryViewState` | `refresh_repository` | every operation | the newest read wins, the user's selection survives |
| Commit (`store.py:3210-3425`) | `is_committing`, draft, amend | `commit`, `_commit_now`, undo | hooks, rules, refresh | one commit at a time, exactly the selected lines |
| Multi-commit operations (`store.py:4540-4760`, `6363-6560`) | undo sha, conflict state, retry | rebase, squash, reorder, cherry-pick, merge | stash, force-push list | abort and undo restore the branch |
| History and compare (`store.py:3825-4116`) | batches, request tokens | `compare_to_branch`, `load_next_commit_batch`, `set_history_filter` | refresh | only the newest answer is shown |
| Credential prompts (`store.py:3036-3208`, `git/askpass.py`, `git/credential_helper.py`) | waiters, most recent SSH host | `_marshal_prompt`, `handle_askpass`, `_finish_credential_sign_in` | git's helper processes, popups, sign-in | every blocked worker wakes up, with the answer to its own question |
| Popup stack (`popup_manager.py`) | at most 50 popups | add, replace by type, remove | window | a question whose answer is awaited is shown |
| Cloning (`store.py:1854-2123`, `git/runner.py`) | clones in progress, cancel events, processes | `clone`, `clone_again`, `abort_clone` | runner, repository list | each clone ends as repository, error or cancelled, once |
| Sign-in and accounts (`store.py:593-624`, `6945-7158`, `api_repositories.py`) | accounts, sign-in step, OAuth state | sign in, sign out, refresh, token invalidation | OAuth thread, secrets, API | no stale token or signed-out account comes back |
| Execution (`store.py:7775-7830`) | thread pool of 6 | `_run`, `_run_ui` | everything | `done` runs once, on the GTK thread |
| Git wrappers (`git/ops.py`, `git/runner.py`, parsers) | none | one function per command | everything | arguments and parsing |
| GitHub API, CI checks, rulesets, notifications (`github/`) | API cache | HTTP requests | accounts | matching, paging |
| Window, dialogs, menus (`ui/`) | widgets | handlers | AppStore | operations are offered when they are legal |
| Settings, local storage, tags to push | JSON files | load, save | AppStore | what was saved is what is read |
| The rest: statistics, tutorial, command line, editors, shells, proxy, repository creation | small | | | |


### The TypeScript application

One renderer process with one thread. Every handler runs without interruption up
to an `await`; there it gives way to every other handler, event and user action,
and goes on with the variables it captured. `Dispatcher` (`ui/dispatcher`) has one
method per user action and calls `AppStore` (`lib/stores/app-store.ts`), which owns
the state, calls Git (a child process for each command) and emits updates that
React renders. A number of smaller stores have their own state. Git calls back:
its askpass and credential helpers are small programs that connect to the
trampoline server inside the application and wait for a reply.

| component | state it keeps | operations | interacts with | what makes it correct |
|---|---|---|---|---|
| Popup stack (`lib/popup-manager.ts`) | at most 50 popups | add, remove by type or identity, close the one on top | everything that asks | errors on top, one popup per type |
| Trampoline and prompts (`lib/trampoline`, `lib/ssh`) | four maps by token of the operation, the keychain | `withTrampolineEnv`, askpass and credential handlers, `TrampolineUIHelper` | Git, popups, sign-in, accounts | nothing is left of an operation, each answer goes to its question, rejected secrets are forgotten |
| Sign-in and accounts (`lib/stores/sign-in-store.ts`, `accounts-store.ts`) | one session with a callback, the OAuth state, the accounts | set the endpoint, the browser, its call back, dismissal | browser, API, keychain, prompts | whoever waits for an account is told once |
| Multi-commit operations (`ui/dispatcher`, `app-store.ts`, `ui/multi-commit-operation`) | operation state and step, undo, banner, conflict state, force-push list | rebase, reorder, squash, cherry-pick, merge; continue, abort, undo, retry | Git, status, popups, stash | a conflict is shown, its dialog goes with it, progress ends, force push only for rewritten branches |
| Todo lists (`lib/git/reorder.ts`, `squash.ts`, `ui/history/commit-list.tsx`) | none | drop commits in the list | Git's rebase, list on screen | no change lost, only moved commits move |
| Selected lines (`models/diff/diff-selection.ts`, `lib/patch-formatter.ts`, `lib/git/apply.ts`) | base, exceptions, selectable lines | select lines, ranges, files; commit, discard | diff on screen, Git | exactly the chosen lines |
| History selection (`app-store.ts:1690-1861`) | commits, files, file, diff | select commits or a file | two Git processes | the diff on screen is of what is selected, and comes |
| Repository indicators (`lib/stores/helpers/repository-indicator-updater.ts`) | timer, pause, loop | start, stop, pause, resume | window focus, Git | goes on, holds when paused |
| Commit status (`lib/stores/commit-status-store.ts`) | subscriptions, cache, queue | subscribe, dispose, refresh | API, badges of branches and pull requests | subscribers are told, every ref is fetched again |
| Git store, branches, stash, push, pull and fetch (`git-store.ts`, `app-store.ts`) | per repository | as in the native application | Git, API | as in the native application |
| API client, pull requests, notifications, other stores | caches and tables | requests | network, database | order of arrival |
| Git wrappers and parsers (`lib/git`, `lib/*-parser.ts`) | none | functions | Git | arguments and parsing |
| User interface (`ui/`), main process, crash window, command line, highlighter | widgets, windows | handlers | dispatcher | offers what is legal |

What is hard in both: state read before a worker or an `await` and used after it;
several git commands that are one operation to the user and stop half-way;
overlapping operations on one repository; timers that start work next to the
user's; processes that wait for dialogs; answers that arrive out of order;
cancellation that races completion. `PROJECT.json` lists the places with their
lines and the properties that watch them.

## What is modelled: native

### `AheadBehind` - the ahead/behind queue

One action per step of the code. `RequestCached` and `RequestLookup` are
`request_ahead_behind`, which answers from the cache or joins the waiters of its
pair and pumps; `TryGet` is `try_get_ahead_behind`, which refreshes the pair's
place in the LRU order; `Cancel` is the closure it returns. A job goes through
`WorkLooks` (the worker asks whether anybody still waits), `WorkReturns` (git
answers or fails) and `DoneSkipped` or `DoneLookup` (the GTK thread caches,
evicts, pops the waiters, frees the slot, answers and pumps). Requests are members of a
set, each made at most once; a pair of commits is a key, an answer is not told
apart from another. `FairSpec` adds weak fairness of the steps of the job in flight: a
submitted job runs, git returns, and an idle callback is called. The pool's queue is first-in
first-out and GLib runs every idle callback, so the code justifies it. Nothing is assumed of the user. `TypeOK` includes that the cache has no duplicate
and stays within its size, since an LRU list with duplicates evicts the wrong pair.

### `StashCheckout` - branch switching and stashing

State: what git has (`head`, `tree`, `stash`), what the user interface shows
(`shown`, with the popups on screen) and the job of each slot. A job carries the
list of the git commands it has still to issue (`todo`), with what the
operation read when it began (`current`, from the cached status). User actions
translate the entry points, `AnswerSwitch`, `AnswerOverwrite` and `AnswerRetry` the
dialogs; each git command is an action with the outcomes git allows;
`Done` is the callback with its popups and its refresh. Whether GitHub protects
the current branch is a choice. An operation runs in one of `Slots`, and a
refresh in these or in one of `Refreshers`, which the timers and
the window's focus start at any time; it reads the status and the stashes one after the
other and may fail. Any number of operations overlap. `alone` is a history flag: no other
operation has run since this one began. `WorkSurvives` and `DroppedOnlyWhenReplaced` are
about such operations, beside any number of refreshes, edits and questions and after
operations that did overlap. When two overlap, both are false in the code: between `find` and
`drop` of one, another restores or discards an entry, the positions move, and the
wrong entry is dropped (`git/ops.py:2701`); dropping `alone` from the property makes TLC
show it. An edit is a change of
the work tree; it is made once, and the properties follow it through tree and stash.

### `RemoteSync` - push, pull, fetch, tags, force push

A history is the set of its commits. `local`, `tracking` and `remote` are the
branch here, its remote-tracking branch and the branch on the server; a teammate
pushes, the user commits, amends or otherwise rewrites, makes and deletes tags.
Jobs overlap in any way, every git command may fail, and the application may be
killed and started again (`Restart`), which keeps git and the saved tags only.
The guards of the actions are those of toolbar, menu and dialogs: push and pull need
no progress on screen, the dialog's answers do not look. `GitPush` lets tags arrive
although the branch is rejected, since they are separate refs; a push is accepted, refused
before it is sent, or rejected. HEAD may leave its branch, or the branch be renamed, in a
terminal (`Names`, `NoBranch`), and operations go on with the name the status had: without
one the list of unpushed tags is read as empty (`TagsRead`). `alone` is a history
flag: the job was never overlapped by another operation; `named` is another: the dry run
that listed the tags was of the branch that is checked out. `TagLeavesWhenPushed` is about
jobs with both; without `named` it is false, which is a finding.

## What is modelled: TypeScript

A step of these modules is the code between two awaits, with the calls it makes.

### `PopupStack`, `SignIn`, `Prompts`, `Questions` - questions Git asks

`PopupStack` is the stack with its operators (`Added`, `Trimmed`, `ClosedType`,
`ClosedTop`), of popups with a type and the operation that waits for their answer.
`SignIn` extends it with the sign-in session. `PromptForGitHubSignIn`,
`ShowSignInDialog` and `BeginInBrowser` begin one and cancel the one before;
the dialog's buttons are `SubmitEndpoint`, `SubmitExisting`, `SubmitAuthentication` and `DismissSignIn`;
`SignedOutToBrowser`, `SignedOutToEndpoint`, `AccountFetched`, `TokenDenied` and
`AccountLost` are the continuations, each of which finds whatever session there is
by then. A csrf token is a number; its page in the browser may call back late,
twice or never. `Prompts` extends it with Git operations: `Start` is
`withTrampolineEnv`, `Command` a trampoline command of Git, `Lookup` and its
relatives the handlers, `AnswerDialog` the user, `Succeed` and
`AuthenticationFails` the two ends, `Killed` a Git that dies while its handler goes on. Calls
of the keychain nobody awaits are a queue served in order (`KeychainActs`). An operation is
asked for one kind of thing: a GitHub account, a generic password, a passphrase,
the password of an SSH user or a host key. `RejectedPasswordForgotten` is about the
passwords of SSH users. `Questions` is the abstract specification: a
question is open until it is answered or refused, an answer stands until the
operation asks again, the background never asks, what is over is over. `Prompts` implements
it (`AnswersStand`) under the mapping of `op` and `answer` onto one variable.

### `MultiCommit` - rebase, reorder, squash, cherry-pick, merge

Git is `tips`, `head`, `git` (the operation it has stopped in) and `dirty`; commits
are numbers. The application knows what the last status said (`seen`). `load` has
the status of each loader between its reading, its application and, for the two
kinds that need it, the snapshot read from Git's files; so statuses are applied late. `flow` is the
asynchronous function that runs an operation, from the warning about a force push
over Git to `processMultiCommitOperationRebaseResult` and its relatives; `cleanup` is the one
that aborts or undoes. `mco`, `undo`, `banner`, `forcePush` and the popups are the
application's state, `errors` the errors on their way through the handlers,
which turn refused checkouts into the question whether to stash and retry. A rebase
rewrites the branch (`GitCommits`), fast-forwards it (`GitForwards`, remembered in
`forwarded`) or finds nothing to do. When a status shows a conflict, `Snapshot`, `SetUp` and `ShowTriggered` are
the awaits up to the dialog. The user answers any dialog
on top, edits and commits; Git in a terminal starts, finishes or aborts operations
at any moment.

### `PartialCommit` and `ChosenLines` - selected lines

`DiffSelection` with its base, diverging and selectable lines; `FormatPatch` and
`FormatPatchToDiscard` with the start lines of both sides in each header and the marker of a
missing newline; loading the diff, editing the file, committing and discarding. A diff is
the lines of both versions of the file in order and its hunks; `DiffOfGit` says what
Git guarantees of one, and is assumed of the diffs in `Diffs`.

`Apply` is `git apply --unidiff-zero`, which is outside of the repository and decides what a
patch does. It looks for the lines a hunk replaces where the header says the
hunk starts in the new file, then further and further away in both directions (`Expected`,
`FoundFirst`), never in lines an earlier hunk wrote (`patched`). The header's start
is that of the whole diff, so it is off by what earlier hunks leave out, and the search is what makes
a partial patch land. A line without a newline fits only one
that is marked so, and one that is marked fits both (`SameLine`); a patch that puts another line behind such a line makes the two one
(`RunTogether`). The operators gave what Git 2.39 gave on some thousands of random
files, selections and patches.

`ChosenLines` is what the user sees, a set of lines that can be chosen and the set
of those that are. `PartialCommit` implements it (`LinesChosen`), action by
action: a click is the choice of the lines from the first to the last it names, the checkbox
that of all or none, loading a diff keeps the choice of the lines that stay.

### `RebaseTodo` - reorder and squash

A commit is the sequence of changes squashed into it. `Reorder` and `Squash` translate what
the list of the history passes on, `getCommits` from the last retained commit, the
traversal that writes the todo list (`Traversed`, a recursive function whose step is
`ReorderStep` or `SquashStep`), and Git replaying it (`Replay`). The list on screen
may be older than the branch (`CommitElsewhere`, `ResetElsewhere`).

`Lists` has `Kept`, the `filter` of arrays, which `PopupStack`, `RebaseTodo` and
`PartialCommit` share.

### `CommitView`, `RepositoryIndicators`, `CommitStatus`

`CommitView`: selecting commits or a file starts git processes, which end in any
order or fail; the four guards of the code are in `FilesArrive` and `DiffArrives`, the
one that never fires included. `RepositoryIndicators`: the loop over the
repositories with its two pauses, its timer, and start and stop, which may leave two loops
alive. `CommitStatus`: a subscription whose branch name changes is replaced by a
copy that shares its set of callbacks, so sets have an identity of their own; the
queue, the limit of concurrent fetches, the second request, ageing of entries.

## Runs

| run | bounds | what it shows |
|---|---|---|
| `ahead_behind` | 3 pairs, 4 requests, cache of 2 (2500 in the code) | seven properties, with liveness |
| `ahead_behind_dropped` | 2 pairs, 3 requests, cache of 1 | violation: a request dropped |
| `stash_checkout` | 2 branches, 1 edit, 2 stash entries, 2 overlapping operations or refreshes, one dialog before the user starts anew | `WorkSurvives`, `DroppedOnlyWhenReplaced` |
| `bring_changes` | the same with one operation and one refresh | violation: the changes stay behind |
| `discard_stash`, `stale_label` | the same with two edits | violations: the wrong entry, the wrong label |
| `remote_sync` | 2 commits, 1 tag, 1 branch name, 2 overlapping jobs | five properties |
| `force_push` | 3 commits, no tag, 2 overlapping jobs | violation: an unseen commit overwritten |
| `forgotten_tag` | 1 commit, 1 tag, 2 overlapping jobs | violation: a tag never pushed |
| `prompts` | 7 scenes of up to 2 operations, a stack of 3 (50 in the code), 2 visits to the browser, 1 sign-in of the user, 2 questions per operation | seven properties, a refinement and liveness among them |
| `multi_commit` | 7 scenes, 2 branches, a stack of 50 | five properties, three of them liveness |
| `stores` | below | thirteen properties of five components |

Native: one pair is in flight and two
wait; two of the four requests can share a pair while a third
is cancelled; a cache of two with three pairs evicts. An edit that is popped with a conflict is in the tree and in the stash, so that a branch
has an old entry and changes to stash; two entries give the positions something to
shift. Two edits, needed where entries must differ, have one operation at a time; the proofs
have any number of both. Two slots give every pair of overlapping operations; a second commit is
what a teammate can push unseen, or what an amend replaces. `MaxSha`, `MaxCommit`
and `MaxDialogs` are the named bounds; `MaxDialogs = 1` reads as the dialogs being modal.
Branches, edits, tags and slots are symmetric wherever a configuration says `SYMMETRY`:
no action names one of them, and no liveness property is checked there.

`prompts`: a scene (`MCPrompts`) says which operations run, how often the user signs
in, how often Git is killed and how many other dialogs come up. The scenes have
two operations on one type of prompt (`pull` and `push`), on two types (`fetch` and
`greet`), one in the background beside one that is not (`clone` and `peek`), a
sign-in of the user against one of Git, and enough other dialogs that a stack of three
drops its oldest. `MaxAuth`, `MaxUser` and `MaxAsks` are the named bounds; two
questions are a rejected secret and its second chance.

`multi_commit`: each scene (`MCMultiCommit`) is one operation of the user, a conflict
made by a pull or by a terminal, or an edit and its commit alone. Rebase and merge start with changes
in the way, and go on without them once they are stashed; squash and cherry-pick start without,
since their question about local changes is the rebase's and the states would double.
The properties relate one operation to statuses, dialogs and Git; a second one
multiplies the states beyond what a run can visit, and makes `ForcePushRewritten`
false for some pairs of kinds, as Proofs says. Two branches are the target
and the source. A rebase may rewrite or fast-forward. Reorder differs from squash in the todo list only and is left to
`RebaseTodo`.

`stores`: the five components share no state, so a behaviour has one of them in
`focus` and the others stand still. Five diffs of up to four lines
(`MCDiffs`): a line replaced in a file whose last line has no newline; a last line that gets a newline
and another line behind it; an addition before a deletion in another hunk, with one context line and with
none; and two additions in hunks of their own. They are the smallest with a toggle inside a range, an unselected deletion that becomes
context, a marker in the middle of a patch, and a start line that is off because an earlier hunk is left out. TLC confirms that
each hypothesis of `CommitTakesChosen` and `DiscardLeavesOthers` is needed. A history of four commits that is
rewritten twice: a selection with a gap, a target between, before and after it. Three
selections of commits (one commit, two that follow each other, two that do not) and two files with two processes each (`MaxLoads`): one late answer against
one newer. Three repositories, two loops, one throw: stop and start with a loop alive. Two refs,
two callbacks, two branch names and one fetch at a time (six in the code): a full queue and a
subscription replaced while it is fetched. `MaxRewrites`, `MaxLoads`, `MaxLoops`
and `MaxThrows` are the named bounds.

Deadlock is checked in `stash_checkout` and `remote_sync`. It is not where the
system may rest: when every request was made and answered (`ahead_behind`), when the bounds
of a scene are used up and the user does nothing (`prompts`, `multi_commit`), when a
component has nothing left to do (`stores`).

### Fairness

`AheadBehind`: see there. `Prompts`: handlers go on when what they await
has come, Git ends when it has its reply, the keychain answers. `MultiCommit`: the
steps of the flow, of the cleanup, of the error handlers and of the loaders, and the
refresh when the window gets its focus. `RepositoryIndicators`: timers fire, refreshes
end. `CommitStatus`: the interval, the microtask that refreshes, the limiter's
queue, and each fetch ends or fails; entries age. All of it is weak fairness of
steps that Node's event loop takes once they are enabled and of child processes that end. No
fairness is assumed of the user, of the browser, of a dialog's answer or of a terminal;
liveness properties say so in their formulas: a prompt in the foreground may be
open for ever, a paused updater paused.

### Where the code and its documents disagree

Found by runs, with a counterexample each:

* `NoWaiterDropped`: cancel the only request of a pair while its worker starts,
  then request the pair again before `done()` runs: the new request joins a list
  that `done()` throws away (`store.py:4006-4011`). The TypeScript store's comment
  promises a calculation when "there's another caller requesting" it.
* `ChangesFollow`: bringing changes along when git refuses the direct checkout
  stashes them under the old branch and looks for them under the new one
  (`store.py:5996`); the dialog says they follow.
* `DiscardsWhatWasShown`: discarding names a position, not an entry (`store.py:4252`).
  A checkout stashes the changes, is refused because of an edit made meanwhile, and the refresh
  shows the entry; "Stash changes and continue" makes another one and asks a question instead of
  refreshing; the user closes it and discards the entry on screen, and the new one goes.
* `StashLabelTrue`: an entry gets the branch of the last refresh (`store.py:5878`),
  not the branch at the time it is made (`app/src/models/stash-entry.ts:7`). A refresh that
  read the status before a checkout and is applied last shows the branch that was left; the next
  checkout files its changes there.
* `UnseenSurvives`: a bare `--force-with-lease` (`git/ops.py:1896`) trusts the
  remote-tracking branch, which a fetch or a pull moves while the question is open
  (`docs/technical/rebase-flow.md:202`).
* `TagKeptUntilPushed`: the end of a push empties the list of tags to push, also of
  tags made while it ran (`store.py:5472`). With HEAD detached a pull or fetch alone forgets
  every tag (`store.py:5742`), which `TagLeavesWhenPushed` leaves out by `named`.

Met while translating; the models have the code's behaviour, and the
properties above are stated for what it does guarantee. `PROJECT.json` has them
with quotations:

* A prompt that is not added because its type is shown, that falls off the stack or
  that a close without a type removes is never answered (`popup-manager.ts:100`).
* SSH secrets are stored at once, not after success (`ssh-credential-storage.ts:18`,
  `:44`); a passphrase is hashed before it is noted, so one that arrives after the end
  stays in the map (`ssh-key-passphrase.ts:43`), the exception in `EnvironmentCleared`.
* The continuation of a sign-out writes its old session over a newer one
  (`sign-in-store.ts:285`), the exception in `NoCallerForgotten`.
* Refreshing accounts restores the list as it was before its requests
  (`accounts-store.ts:129`).
* A promise taken for a Boolean makes three guards void (`app-store.ts:7464`,
  `cherry-pick.ts:219`, `:414`).
* Retrying a rebase after stashing does nothing (`dispatcher.ts:2141`).
* Closing a popup without a type closes the error and leaves the progress dialog
  (`dispatcher.ts:3146`, `:3568`), an exception in `ProgressEnds`.
* `abortCherryPick` ends whatever operation there is after its awaits
  (`dispatcher.ts:3090`); the warning before a rebase swaps the two branches (`:541`).
* The guard on a changed selection compares a value with itself (`app-store.ts:1765`);
  positions of commits are sorted as text (`commit-list.tsx:995`).
* A refresh that throws ends the repository indicators for good
  (`repository-indicator-updater.ts:94`).
* A partial commit reads its diff anew (`apply.ts:61`).
* A chosen line that follows an unchosen last line without a newline is glued to it, in a commit
  and, the other way round, in a discard (`patch-formatter.ts:203`, `:310`).
* The header of a hunk does not count what hunks before it leave out (`patch-formatter.ts:216`,
  `:323`): where lines repeat, or without context, a change may land elsewhere.
* A branch that a rebase fast-forwarded is offered a force push (`dispatcher.ts:3648`); an undo
  lists the branch it finds after its awaits (`app-store.ts:7713`).
* A commit status that is being fetched when a branch name comes stays without its
  workflow runs (`commit-status-store.ts:420`).
* Outside the models: pull requests refreshed by somebody else less than two minutes ago are
  refreshed again and get a second timer (`pull-request-updater.ts:61`); a page of open pull
  requests that fails is left out, and the time stored hides the gap (`api.ts:1782`).

## Proofs

Eight modules prove, for all values of the constants and under the modules' named
assumptions only, every safety property the passing runs check. One theorem,
`OnlyRewrittenForcePushed`, has a hypothesis of its own, given below. The others are what the
properties say, with the conditions these have: `NoTagForgotten` is about operations that
ran alone on a branch, `WorkIsKept` and `OldStashMakesWayForNew` about operations that no
other one overlapped, and `CommitIsExact` and `DiscardIsExact` about hunks that
fit in one place and last lines that stay the last.

* `AheadBehindProofs`: that one lookup runs at a time, and that no waiter list is left
  behind, needs to know where a pair may be: `QueueWellFormed` says a pair has waiters
  exactly while it is queued, once, or in flight, never both; `WaitersUnanswered` says a
  waiter was asked for, is not answered yet and waits for one pair only. With
  `TypeOK`, `OneLookup`, `NoLookupOfCachedKey` and `AnsweredAtMostOnce` they are the
  inductive invariant `Inv`. `Invariance` proves it by one step per action;
  `SingleLookup`, `ListsAreServed`, `CachedIsNotLookedUp`, `OneAnswer` and
  `CancelIsFinal` follow. Moving a pair to the end of the cache and evicting one have
  lemmas of their own on sequences without duplicates.
* `RemoteSyncProofs`: `Inv` says at which step a job of each kind may be, that an
  operation that ran alone still does, and what such an operation knows of the tags
  at each step (`TagsKnown`): a push has the list as it is and after the push these
  tags are on the server; a dry run's list lacks no tag that is still unpushed.
  `NoTagForgotten` needs it, for the step that erases tags is much later than the
  step that read them. `NoBlindPush` follows from the steps alone.
* `StashCheckoutProofs`: `IInv` has the jobs (`JobInv`: which plan of git commands is
  left, with what the operation read), the stash (`StashInv`: no two entries with
  one sha, none newer than the last) and the rest. It is inductive for any number of
  overlapping operations, and `StashCheckoutTyped` follows. `WorkIsKept` and
  `OldStashMakesWayForNew` need `SafeInv` besides: when an operation that is still alone is about to push, to
  look for the old entry or to drop it, `Knows` says which entry that is, that it
  has the branch's label, and that the new entry is in the stash above it. An operation that begins
  while another runs is not alone and takes the flag from the other, so of an operation that is alone
  nobody else has changed the stash.
* `PopupStackProofs`: lemmas about the operators, for `PromptsProofs` and
  `MultiCommitProofs`. `Sound` is a stack within its limit, with errors above all others and
  no other type twice; adding, removing by type and closing the one on top keep it.
* `PromptsProofs`: `IInv` says which commands may be served for an operation in which state
  and what is hashed, so that a late answer cannot fill a map of an operation that ended. One lemma
  per action gives its `Effect` on the invariant, on answers and on who is told;
  `Invariance`, `NothingLeftBehind`, `CallersAreTold` and `Refinement` draw from it.
  `PromptsInv` adds the sign-in session with its late continuations, the stack
  (each dialog on it is the question of an operation that still waits) and the
  keychain. `PromptsTyped` and `StackInShape` follow. `PasswordForgotten` needs to look into the
  queue of keychain calls nobody awaits: a rejected password is gone already, or a call
  further back in the queue deletes it or stores another (`Overwritten`).
* `MultiCommitProofs`: `Typed` says for each kind of operation what flow, cleanup,
  loaders, dialogs and banner may hold at each of their steps. Its parameter is a set of
  kinds: without rebases in it no flow, no dialog and no stopped Git is one of a
  rebase. `MultiCommitInvariance` proves it for all kinds, all scenes and any number of overlapping
  operations; `MultiCommitTyped` and `FlowsKeepStackShape` follow.
  `OnlyRewrittenForcePushed` adds `Steady`: what a status says of the branch that is
  checked out is true or nothing, and when Git has finished rewriting, the branch checked out is
  the one it rewrote or fast-forwarded. `Frame` sorts the actions by which of the facts they touch. Its hypothesis
  `Unmixed` is about the scene: no Git in a terminal, and cherry-picks not among
  operations that rewrite a branch. Six of the seven scenes of the run are such (in the seventh
  the property is only model-checked), and so is any number of overlapping rebases, reorders, squashes, merges, pulls and undos.
  Without it the property is false. TLC finds, with one squash and one cherry-pick, that
  the squash completes, `Undo` resets the branch, the cherry-pick checks out
  another branch before the undo's status arrives, and the undo lists that branch,
  which nobody rewrote, for force push (`_undoMultiCommitOperation`, which reads the tip from the
  state after its awaits).
* `ListProofs`: lemmas about lists for the others. The library's induction theorems take an
  operator as a parameter and cannot be used, so induction up to a bound is stated as a
  least element (`Smallest`) and recursion up to one as a function that exists
  (`Recursion`). From them follows what `Kept` returns: its length is the number of positions
  kept (`KeptLen`), its elements are those of the list in their order, it goes into
  parts (`KeptConcat`, `KeptCut`), and a part of it is a filter of its own (`KeptPart`).
* `StoresProofs`: the five components of the run `stores`, and `MCStores`, which has them
  side by side (`Components`, `StoresTyped`).
  - History view: `ViewInv` adds to the two properties
    the types of the loads, above all that a load that may be applied is of a
    selection that has a diff.
  - Repository indicators: `ChainUnbroken` is inductive with the types of the
    loops; `PausedStartsNothing` follows from the steps under it.
  - Commit status: `StatusInv` has
    `OwnSets`, that no two refs share a set of callbacks, and `HoldsCurrent`,
    that a component disposes of the set its ref has now; the first needs a free set to
    exist when a subscription is made, and `NewSetIsNew` counts them. `QueueIsWhatRuns`
    counts the fetches: the queue is what runs and what the limiter holds back, and a
    fetch that ends makes room for one.
  - Todo lists, for any history. `NothingIsLost` holds of a list on screen of any age. `KeepsAll` is the
    invariant of the traversal: each commit passed is in the todo list, or waits to be
    written after the base commit, or waits for the base commit itself; `HasOnto` then makes the
    rebase not start when the base was never met, which is where dropping the guard loses
    commits. `ReplayKeeps` says Git's replay has the changes of every line of a list that starts with a
    pick. With an up-to-date list, `OnlyMovedMove` says what comes out. `Seeking` and `Found`
    are the exact contents of the three lists before and after the base commit,
    as filters of the branch in its order (`InOrder`), and `PicksYield` and `SquashedYields` what
    Git makes of them.
  - Lines: `RangeExact` says what `withRangeSelection` selects; `PartialInv` has
    the selection well-formed, only selectable lines diverging, the diffs from `Diffs`,
    and the selectable lines those of the diff that is shown. `PartialStep` shows each step to keep it
    and `Ties` that it is the action of `ChosenLines` it should be, with the lines it names, hence `SelectionChooses`.
  - Patches, for any diff of Git's and any set of lines. `PatchApplies` says that the patch
    for a commit applies to the old file and gives the old file with exactly
    the chosen changes, and the patch for a discard likewise from the new one, provided that
    Git finds each hunk in one place (`OnePlace`) and that a line without a newline stays the last
    (`WellEnded`). By induction over the hunks,
    `DoneTo` says that `git apply` has gone through the file up to some line, that
    what it wrote is what was wanted up to that line, and that the rest of the file is as
    it was (`Mixed`). One hunk (`HunkReplaces`) then fits where that line is, whatever its header says, so by
    `OnePlace` it goes there (`ApplyingIs`); a hunk that says it starts at line 0 goes to the top, where
    it belongs (`AtTheTop`). A hunk that is skipped because no line of it is chosen changes
    nothing. `CommitIsExact` and `DiscardIsExact` follow with what a selection says of a line;
    `CommitIsExact` has, like its property, the diff that is read at commit time equal to the one
    on screen.

TLC looked for a violation of each inductive invariant, by exploring or simulating the runs' and
larger instances, before it was proved.

Assumptions on the constants, all evaluated by TLC in the runs: bounds, limits and sizes are
numbers (`BoundAssumption`, `LimitAssumption`, `MaxCacheAssumption`, `PopupLimitAssumption`);
branches, refs and the like are finite and not empty where they are counted or
chosen from (`MultiCommitAssumption`, `RefsAssumption`); "none" is not one of the
things; the scenes are scenes; indexes of lines have no gaps; histories have a commit and commits a
change; and diffs are what Git prints (`DiffsAssumption`): hunks in order with a line between them,
whose headers count the lines before them, whose lines are numbered one after the other, and
which have every line that was added or deleted; a newline is missing at the end of a version only.
Context lines may be any number, none included. `NamesAssumption` says that no branch has the name "no branch".

Only model-checked:

* Every liveness property (`EveryListIsServed`, `BackgroundEnds`, `ConflictsReachUser`,
  `ConflictsGo`, `ProgressEnds` of `MultiCommit`, `EveryRepositoryRefreshed` and
  `EveryRefFetched`): the provers do not reason about fairness and `ENABLED`.
* `ForcePushRewritten` in the one scene with a terminal, which `Unmixed` excludes.
* The violations are counterexamples, not theorems. No model uses a `RECURSIVE` operator.

## Plan

Done: the three native modules, then prompts with popups and sign-in,
multi-commit operations, and the five smaller stores; their runs and the proofs
above. What would come next, in this order:

1. The native prompts with their timeouts, against `Questions`; cloning and its
   abort; overlapping native refreshes with the selection they restore.
2. Pull requests, notifications and the compare tab of the TypeScript application,
   as stores whose answers arrive out of order.
3. `MultiCommit` with two operations in a behaviour, once its runs can carry them.

## Not modelled

* Parsers of git's output, the GitHub clients and the pure matching and grouping
  functions of both trees: functions over text with example tests, whose inputs are not
  small sets. They, the user interface and generated tables are most of the lines of the
  TypeScript application.
* Drawing, layout, lists, menus, keyboard; the main process, the crash window, the command line, the
  highlighter, editors and shells; statistics and the tutorial; packaging and vendored data.
* Of the native application: prompts, whose threads wait with a timeout of minutes, and
  the single slot for a retry; cloning and its abort; sign-in on its own thread;
  commit, history and the selection merge of a refresh; untracked
  files as a class of their own; pruning and fast-forwarding of other branches,
  publishing, authentication retries; `ahead_behind_between` (called by tests only);
  stash entries not made by Desktop.
* Of the TypeScript application: branches, stash, push, pull and fetch, which are
  modelled in their native form; cherry-pick onto a new branch or a pull request, merge with
  `--squash` and its abort, `launchRebaseOperation`; `updatePopup`;
  hooks and the external credential helper; accounts read at launch or removed in the
  settings; the eviction of commit statuses at 250 entries; renames, submodules
  and binary files in the list of changes; the list of commits and the compare tab.
