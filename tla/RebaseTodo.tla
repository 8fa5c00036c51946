----------------------------- MODULE RebaseTodo ------------------------------
(***************************************************************************)
(* Reordering and squashing commits that are dropped somewhere in the list *)
(* of the history: onDropDataInsertion of ui/history/commit-list.tsx and   *)
(* the todo lists of lib/git/reorder.ts and lib/git/squash.ts.             *)
(*                                                                         *)
(* A history is a sequence of commits, the oldest first, and a commit the  *)
(* sequence of the changes squashed into it.  The name of a commit covers  *)
(* all that comes before it, so the list and the branch share exactly the  *)
(* commits of the prefix they share: rewriting one gives new names to all  *)
(* later ones.  Conflicts are the subject of MultiCommit; here a rebase    *)
(* that starts succeeds.  Histories are shorter than ten commits.          *)
(***************************************************************************)
EXTENDS Integers, Sequences, FiniteSets, SequencesExt, Lists

CONSTANTS InitialLog,   \* the history at first
          MaxRewrites   \* bound on changes of the branch

\* a branch has a commit, and what a commit changes is a number
Histories == Seq(Seq(Nat \ {0}) \ {<<>>}) \ {<<>>}

ASSUME HistoryAssumption == InitialLog \in Histories /\ MaxRewrites \in Nat

Null == 0               \* no commit: commits are known by their position

VARIABLES log,          \* the history of the branch that is checked out
          listed,       \* the one the list was filled from
          rewrites      \* changes of the branch so far

todoVars == <<log, listed, rewrites>>

\* how many commits the list and the branch have in common
Common ==
  LET differ == {i \in DOMAIN log \cap DOMAIN listed : log[i] # listed[i]}
  IN  IF differ # {} THEN Min(differ) - 1
      ELSE Min({Len(log), Len(listed)})

\* getLastRetainedCommitRef: the parent of the oldest commit concerned; the
\* branch is rewritten from its end on, or from the root when it has none
Retained(concerned) == Min(concerned) - 1

\* getCommits(revRange(ref, 'HEAD')): the commits of the branch that come
\* after those that are reachable from the last retained commit
Reachable(retained) == IF retained <= Common THEN retained ELSE Common

\* the positions on the branch of the commits of the list
OnBranch(positions) == positions \cap 1..Common

\* what a traversal from the oldest to the newest has so far: lines written
\* to the todo list, commits to replay before the base commit, and after
Traversal == [todo |-> <<>>, before |-> <<>>, after |-> <<>>, found |-> FALSE]

Line(action, i) == [action |-> action, commit |-> log[i]]

Picks(positions) == [j \in DOMAIN positions |-> Line("pick", positions[j])]

Squashed(positions) ==
  [j \in DOMAIN positions |-> Line(IF j = 1 THEN "pick" ELSE "squash", positions[j])]

\* (mutant) what follows the base commit is written at once
UnchangedAtOnce(t, i) == [t EXCEPT !.todo = Append(@, Line("pick", i))]

\* neither one to move nor the base commit
Unchanged(t, i) ==
  IF t.found THEN [t EXCEPT !.after = Append(@, i)]
  ELSE [t EXCEPT !.todo = Append(@, Line("pick", i))]

ReorderStep(moved, base, t, i) ==
  CASE i \in moved ->
         IF t.found THEN [t EXCEPT !.todo = Append(@, Line("pick", i))]
         ELSE [t EXCEPT !.before = Append(@, i)]
    [] i \in base \ moved ->
         [t EXCEPT !.found = TRUE, !.after = Append(@, i), !.todo = @ \o Picks(t.before)]
    [] OTHER -> Unchanged(t, i)

SquashStep(moved, onto, t, i) ==
  CASE i \in moved ->
         IF t.found THEN [t EXCEPT !.todo = Append(@, Line("squash", i))]
         ELSE [t EXCEPT !.before = Append(@, i)]
    [] i \in onto \ moved ->
         [t EXCEPT !.found = TRUE, !.before = Append(@, i),
                   !.todo = @ \o Squashed(Append(t.before, i))]
    [] OTHER -> Unchanged(t, i)

\* (mutant) the base commit need not be in the log
AlwaysOnto(t, base) == TRUE

\* the base commit was found, or commits go to the end of the history
HasOnto(t, base) == t.found \/ base = Null

\* from the oldest commit in range to the newest
Traversed(kind, moved, at, retained) ==
  LET t[i \in 0..Len(log)] ==
        IF i <= Reachable(retained) THEN Traversal
        ELSE IF kind = "squash" THEN SquashStep(moved, at, t[i - 1], i)
        ELSE ReorderStep(moved, at, t[i - 1], i)
  IN t[Len(log)]

ReplayLine(commits, line) ==
  IF line.action = "pick" THEN Append(commits, line.commit)
  ELSE Append(Front(commits), Last(commits) \o line.commit)

\* git rebase -i with the todo list for sequence editor
Replay(onto, todo) ==
  LET commits[n \in 0..Len(todo)] ==
        IF n = 0 THEN onto ELSE ReplayLine(commits[n - 1], todo[n])
  IN commits[Len(todo)]

\* rebaseInteractive, unless there is nothing in range or no base commit
RebaseInteractive(t, base, retained) ==
  /\ rewrites < MaxRewrites
  /\ LET todo == t.todo \o Picks(t.after)
                 \o (IF base = Null THEN Picks(t.before) ELSE <<>>)
         done == Reachable(retained) < Len(log) /\ HasOnto(t, base)
     IN  /\ log' = IF done THEN Replay(SubSeq(listed, 1, retained), todo) ELSE log
         /\ rewrites' = rewrites + 1
  /\ UNCHANGED listed

Contiguous(positions) == positions = Min(positions)..Max(positions)

\* contiguous commits dropped right above or within themselves stay
Ignored(moved, base) ==
  Contiguous(moved) /\ \/ base = Null /\ Max(moved) = Len(listed)
                       \/ base = Max(moved) + 1
                       \/ base \in moved

\* onDropDataInsertion, reorder: the commits are to come right before base
Reorder(moved, base) ==
  /\ ~Ignored(moved, base)
  /\ LET retained == Retained(moved \cup ({base} \ {Null}))
         t == Traversed("reorder", OnBranch(moved), OnBranch({base}), retained)
     IN  RebaseInteractive(t, base, retained)

\* onSquash, squash: the commit squashed onto is not among the others
Squash(moved, onto) ==
  /\ onto \notin moved
  /\ LET retained == Retained(moved \cup {onto})
         t == Traversed("squash", OnBranch(moved), OnBranch({onto}), retained)
     IN  RebaseInteractive(t, onto, retained)

\* the history is loaded again
LoadHistory ==
  /\ listed # log
  /\ listed' = log
  /\ UNCHANGED <<log, rewrites>>

ChangesIn(commits) == UNION {{commits[i][j] : j \in DOMAIN commits[i]} : i \in DOMAIN commits}

\* another program commits, or takes the last commit back
CommitElsewhere ==
  /\ rewrites < MaxRewrites
  /\ log' = Append(log, <<Max(ChangesIn(log)) + 1>>)
  /\ rewrites' = rewrites + 1
  /\ UNCHANGED listed

ResetElsewhere ==
  /\ rewrites < MaxRewrites /\ Len(log) > 1
  /\ log' = Front(log)
  /\ rewrites' = rewrites + 1
  /\ UNCHANGED listed

TodoInit == log = InitialLog /\ listed = InitialLog /\ rewrites = 0

Moves == (SUBSET (DOMAIN listed)) \ {{}}

TodoNext ==
  \/ \E moved \in Moves, base \in {Null} \cup DOMAIN listed : Reorder(moved, base)
  \/ \E moved \in Moves, onto \in DOMAIN listed : Squash(moved, onto)
  \/ LoadHistory \/ CommitElsewhere \/ ResetElsewhere

TodoSpec == TodoInit /\ [][TodoNext]_todoVars
-----------------------------------------------------------------------------
TodoTypeOK ==
  /\ {log, listed} \subseteq Histories
  /\ rewrites \in 0..MaxRewrites

(* No reordering or squashing loses a change of the branch, not even when  *)
(* the branch is no longer the one in the list: what is not replayed is    *)
(* kept, or the rebase does not start (reorder.ts:126-130,                 *)
(* squash.ts:136-140).                                                     *)
NothingLost ==
  [][rewrites' # rewrites => \A moved \in Moves, at \in {Null} \cup DOMAIN listed :
       Reorder(moved, at) \/ (at # Null /\ Squash(moved, at)) =>
         ChangesIn(log) \subseteq ChangesIn(log')]_todoVars

Of(positions) == Kept(log, positions)

Before(base) == {i \in DOMAIN log : base = Null \/ i < base}

(* As long as the list is up to date, the commits arrive right before the  *)
(* base commit, or in the one they are squashed onto, in the order of the  *)
(* log, and all others keep theirs; dropped among themselves they stay     *)
(* (reorder.ts:11-21, squash.ts:14-26).                                    *)
MovesOnlyMoved ==
  [][rewrites' # rewrites /\ listed = log => \A moved \in Moves, at \in {Null} \cup DOMAIN listed :
       /\ Reorder(moved, at) =>
            log' = IF at \in moved THEN log
                   ELSE Of(Before(at) \ moved) \o Of(moved)
                        \o Of((DOMAIN log \ Before(at)) \ moved)
       /\ at # Null /\ Squash(moved, at) =>
            log' = Of(Before(at) \ moved) \o <<FlattenSeq(Of(moved \cup {at}))>>
                   \o Of((DOMAIN log \ Before(at)) \ (moved \cup {at}))]_todoVars
=============================================================================
