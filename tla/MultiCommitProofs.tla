-------------------------- MODULE MultiCommitProofs --------------------------
(***************************************************************************)
(* Theorems about MultiCommit.  Everything is shown for a set K of the     *)
(* kinds of operations that can occur: all of them for the type            *)
(* invariant, fewer for the list of branches that may be force-pushed.     *)
(***************************************************************************)
EXTENDS MultiCommit, PopupStackProofs, FiniteSetTheorems, TLAPS

Names == Branches \cup {NoBranch}
Shas(n) == 1..(n - 1)

-----------------------------------------------------------------------------
(* The values of each variable, when the operations are of the kinds K and *)
(* the next commit gets the number n.                                      *)
Retries(K) ==
  [at : {"retry"}, kind : K \ {"CherryPick"}, to : Names, from : Names]
  \cup [at : {"retry"}, kind : K \cap {"CherryPick"}, to : Branches, from : Branches]

Dialogs(K) ==
  {Dialog, Popup("Error", Nobody)}
  \cup {Popup("LocalChangesOverwritten", r) : r \in Retries(K)}

Stack(stack, K) ==
  /\ Sound(stack, {Nobody} \cup Retries(K))
  /\ \A i \in DOMAIN stack : stack[i] \in Dialogs(K)

GitOps(K) == {GitOp(kind) : kind \in K}

Gits(K, n) == {NoGit} \cup [op : GitOps(K), on : Branches, was : Shas(n)]

Statuses(K, n) ==
  [op : {"none"} \cup GitOps(K), on : Names, tip : Shas(n), files : BOOLEAN]

Loads(K, n) ==
  {Idle, [at |-> "read"]}
  \cup [at : {"apply"}, status : Statuses(K, n)]
  \cup [at : {"snapshot"}, op : GitOps(K) \cap {"rebase", "cherryPick"}]
  \cup [at : {"set"}, git : [op : GitOps(K) \cap {"rebase", "cherryPick"}, on : Branches, was : Shas(n)]]

Started(K) ==
  [kind : K, step : Step \ {"ChooseBranch"}, orig : Nat, target : Names, source : Names]
Choosing(K) ==
  [kind : K \cap {"Rebase", "Merge"}, step : {"ChooseBranch"}, orig : Nat,
   target : Names, source : Names]
  \cup [kind : K \cap {"CherryPick"}, step : {"ChooseBranch"}, orig : Nat,
        target : Names, source : Branches]
Operations(K) == {NoOp} \cup Started(K) \cup Choosing(K)

Undos(n) ==
  [sha : Nat, branch : {NoBranch}] \cup [sha : Shas(n), branch : Branches]

Banners(K) ==
  {NoBanner, ConflictsFound, [type |-> "Undone"]}
  \cup [type : {"Success"}, kind : {"Merge", "UpToDate"}]
  \cup [type : {"Success"}, kind : K, source : Names]

Flows(K) ==
  {Idle} \cup Retries(K)
  \cup [at : {"warn"}, kind : K \cap Rewriting, to : Names, from : Names]
  \cup [at : {"checkout"}, kind : K \cap {"CherryPick"}, to : Branches, from : Branches]
  \cup [at : {"git", "continue", "merged"}, kind : K, to : Names, from : Names]
  \cup [at : {"rebased"}, kind : K \cap {"Rebase"}, to : Names, from : Names,
        result : {"Completed", "Conflicts", "UpToDate", "Error"}]
  \cup [at : {"picked"}, kind : K \cap {"CherryPick"}, to : Names, from : Names,
        result : {"Completed", "Conflicts", "UnableToStart", "Error"}]
  \cup [at : {"process", "conflicts"}, kind : K \cap Rewriting, to : Names, from : Names,
        result : {"Completed", "Conflicts", "Aborted", "Error"}]

\* what an abort can be for: the clean-up is one of a cherry-pick
Aborts(K) == K \cup (IF "CherryPick" \in K THEN {"ClearHead"} ELSE {})

\* what the banner offers to undo
Undoable == {"Squash", "Reorder", "CherryPick"}

Cleanups(K, n) ==
  {Idle}
  \cup [at : {"abort", "aborted"}, kind : Aborts(K), source : Names]
  \cup [at : {"checkout"}, kind : Aborts(K) \cap {"CherryPick", "ClearHead"}, source : Branches]
  \cup [at : {"reset", "undone"}, kind : {"Undo"}, of : K \cap Undoable, sha : Shas(n), was : Nat, source : Names]
  \cup [at : {"checkout"}, kind : {"Undo"}, of : K \cap {"CherryPick"}, sha : Shas(n), was : Nat,
        source : Branches]

Bounds == [kinds : SUBSET Kinds, dirty : BOOLEAN, starts : Nat, edits : Nat,
           outside : Nat, pulls : Nat, disturbed : BOOLEAN]

\* Each variable has one of these values.
StackPart(K) == Stack(popups, K)
NextPart == next \in Nat \ {0}
TipsPart == tips \in [Branches -> Shas(next)] /\ head \in Branches
DirtyPart == dirty \in BOOLEAN
GitPart(K) == git \in Gits(K, next)
SeenPart(K) == seen \in Statuses(K, next)
LoadPart(K) == load \in [Loaders -> Loads(K, next)]
FlowPart(K) == flow \in Flows(K)
CleanupPart(K) == cleanup \in Cleanups(K, next)
OperationPart(K) == mco \in Operations(K)
UndoPart == undo \in Undos(next)
BannerPart(K) == banner \in Banners(K)
ForcePart == forcePush \in [Branches -> 0..(next - 1)]
ErrorsPart(K) == errors \subseteq Dialogs(K) \cup {Triggered}
BoundPart(K) ==
  /\ bound \in Bounds /\ bound.kinds \subseteq K
  /\ bound.outside > 0 => K = Kinds

Typed(K) ==
  /\ StackPart(K) /\ NextPart /\ TipsPart /\ DirtyPart /\ GitPart(K)
  /\ SeenPart(K) /\ LoadPart(K) /\ FlowPart(K) /\ CleanupPart(K)
  /\ OperationPart(K) /\ UndoPart /\ BannerPart(K) /\ ForcePart
  /\ ErrorsPart(K) /\ BoundPart(K)

\* The sets of kinds that an invariant is shown for.
World(K) == K \in {Kinds, Kinds \ {"CherryPick"}, {"CherryPick", "Merge"}}

-----------------------------------------------------------------------------
(* What the sets of kinds have in common.                                  *)
LEMMA WorldFacts ==
  ASSUME NEW K, World(K)
  PROVE  /\ K \subseteq Kinds /\ "Merge" \in K
         /\ GitOps(K) \subseteq {"rebase", "merge", "cherryPick"} /\ "merge" \in GitOps(K)
         /\ "rebase" \in GitOps(K) => Rewriting \subseteq K
         /\ "cherryPick" \in GitOps(K) <=> "CherryPick" \in K
         /\ \A kind \in K : GitOp(kind) \in GitOps(K)
         /\ \A kind \in K : GitOp(kind) = IF kind \in Rewriting THEN "rebase"
                                          ELSE IF kind = "Merge" THEN "merge" ELSE "cherryPick"
         /\ \A kind \in K \cap Rewriting : Rewriting \subseteq K
<1>1. /\ K \subseteq Kinds /\ "Merge" \in K
      /\ \A kind \in K \cap Rewriting : Rewriting \subseteq K
  BY DEF World, Kinds, Rewriting
<1>2. \A kind \in K : GitOp(kind) = IF kind \in Rewriting THEN "rebase"
                                    ELSE IF kind = "Merge" THEN "merge" ELSE "cherryPick"
  BY <1>1 DEF GitOp, Kinds, Rewriting
<1>3. \A kind \in K : GitOp(kind) \in GitOps(K)
  BY DEF GitOps
<1>4. GitOps(K) \subseteq {"rebase", "merge", "cherryPick"}
  BY <1>2 DEF GitOps
<1>5. "rebase" \in GitOps(K) => Rewriting \subseteq K
  BY <1>1, <1>2 DEF GitOps
<1>6. "cherryPick" \in GitOps(K) => "CherryPick" \in K
  BY <1>1, <1>2 DEF GitOps, Kinds, Rewriting
<1>7. "CherryPick" \in K => "cherryPick" \in GitOps(K)
  BY <1>2, <1>3 DEF Rewriting
<1>8. "merge" \in GitOps(K)
  BY <1>1, <1>2, <1>3 DEF Rewriting
<1> QED
  BY <1>1, <1>2, <1>3, <1>4, <1>5, <1>6, <1>7, <1>8

\* A value that is right stays right when a commit is added.
LEMMA Grown ==
  ASSUME NEW K, NEW n \in Nat, NEW m \in {n, n + 1}
  PROVE  /\ Shas(n) \subseteq Shas(m)
         /\ [Branches -> Shas(n)] \subseteq [Branches -> Shas(m)]
         /\ Gits(K, n) \subseteq Gits(K, m)
         /\ Statuses(K, n) \subseteq Statuses(K, m)
         /\ Loads(K, n) \subseteq Loads(K, m)
         /\ [Loaders -> Loads(K, n)] \subseteq [Loaders -> Loads(K, m)]
         /\ Undos(n) \subseteq Undos(m)
         /\ Cleanups(K, n) \subseteq Cleanups(K, m)
         /\ [Branches -> 0..(n - 1)] \subseteq [Branches -> 0..(m - 1)]
<1>1. Shas(n) \subseteq Shas(m) /\ 0..(n - 1) \subseteq 0..(m - 1)
  BY DEF Shas
<1>2. Statuses(K, n) \subseteq Statuses(K, m)
  BY <1>1 DEF Statuses
<1>3. Loads(K, n) \subseteq Loads(K, m)
  BY <1>1, <1>2 DEF Loads
<1>4. Gits(K, n) \subseteq Gits(K, m)
  BY <1>1 DEF Gits
<1>5. Undos(n) \subseteq Undos(m)
  BY <1>1 DEF Undos
<1>6. Cleanups(K, n) \subseteq Cleanups(K, m)
  BY <1>1 DEF Cleanups
<1>7. [Branches -> Shas(n)] \subseteq [Branches -> Shas(m)]
  BY <1>1
<1>8. [Loaders -> Loads(K, n)] \subseteq [Loaders -> Loads(K, m)]
  BY <1>3
<1>9. [Branches -> 0..(n - 1)] \subseteq [Branches -> 0..(m - 1)]
  BY <1>1
<1> QED
  BY <1>1, <1>2, <1>3, <1>4, <1>5, <1>6, <1>7, <1>8, <1>9

\* The dialogs of the flows are popups.
LEMMA DialogsArePopups ==
  ASSUME NEW K
  PROVE  Dialogs(K) \subseteq PopupsOf({Nobody} \cup Retries(K))
BY DEF Dialogs, Dialog, Popup, PopupsOf, Types

\* What the stack is after any change a flow makes to it.
LEMMA StackSteps ==
  ASSUME NEW K, NEW s, Stack(s, K)
  PROVE  /\ \A p \in Dialogs(K) : Stack(Added(s, p), K)
         /\ \A type : Stack(ClosedType(s, type), K)
         /\ Stack(ClosedTop(s), K)
         /\ s # <<>> => Top(s) \in Dialogs(K)
<1> DEFINE A == {Nobody} \cup Retries(K)
<1>1. Sound(s, A) /\ \A i \in DOMAIN s : s[i] \in Dialogs(K)
  BY DEF Stack
<1>2. ASSUME NEW p \in Dialogs(K) PROVE Stack(Added(s, p), K)
  <2>1. p \in PopupsOf(A)
    BY DialogsArePopups
  <2> HIDE DEF A
  <2>2. Sound(Added(s, p), A) /\ OnlyFrom(Added(s, p), s, p)
    BY <1>1, <2>1, AddedSound
  <2> QED
    BY <1>1, <2>2 DEF Stack, OnlyFrom, A
<1>3. ASSUME NEW new, Sound(new, A), Within(new, s) PROVE Stack(new, K)
  BY <1>1, <1>3 DEF Stack, Within
<1>4. ASSUME NEW type PROVE Stack(ClosedType(s, type), K)
  <2> HIDE DEF A
  <2>1. Sound(ClosedType(s, type), A) /\ Within(ClosedType(s, type), s)
    BY <1>1, ClosedSound
  <2> QED
    BY <1>3, <2>1
<1>5. Stack(ClosedTop(s), K)
  <2> HIDE DEF A
  <2>1. Sound(ClosedTop(s), A) /\ Within(ClosedTop(s), s)
    BY <1>1, ClosedSound
  <2> QED
    BY <1>3, <2>1
<1>6. s # <<>> => Top(s) \in Dialogs(K)
  <2>1. s \in Seq(PopupsOf(A))
    BY <1>1 DEF Sound
  <2> HIDE DEF A
  <2>2. s # <<>> => Len(s) \in DOMAIN s
    BY <2>1
  <2> QED
    BY <1>1, <2>2 DEF Top
<1> QED
  BY <1>2, <1>4, <1>5, <1>6

-----------------------------------------------------------------------------
(* Every part stays right whose variables a step leaves alone.             *)
LEMMA Unchanged ==
  ASSUME NEW K, Typed(K), next' \in {next, next + 1}
  PROVE  /\ NextPart'
         /\ popups' = popups => StackPart(K)'
         /\ tips' = tips /\ head' = head => TipsPart'
         /\ dirty' = dirty => DirtyPart'
         /\ git' = git => GitPart(K)'
         /\ seen' = seen => SeenPart(K)'
         /\ load' = load => LoadPart(K)'
         /\ flow' = flow => FlowPart(K)'
         /\ cleanup' = cleanup => CleanupPart(K)'
         /\ mco' = mco => OperationPart(K)'
         /\ undo' = undo => UndoPart'
         /\ banner' = banner => BannerPart(K)'
         /\ forcePush' = forcePush => ForcePart'
         /\ errors' = errors => ErrorsPart(K)'
         /\ bound' = bound => BoundPart(K)'
<1>1. next \in Nat /\ next \in Nat \ {0}
  BY DEF Typed, NextPart
<1>2. NextPart'
  BY <1>1 DEF NextPart
<1>3. /\ Shas(next) \subseteq Shas(next')
      /\ [Branches -> Shas(next)] \subseteq [Branches -> Shas(next')]
      /\ Gits(K, next) \subseteq Gits(K, next')
      /\ Statuses(K, next) \subseteq Statuses(K, next')
      /\ [Loaders -> Loads(K, next)] \subseteq [Loaders -> Loads(K, next')]
      /\ Undos(next) \subseteq Undos(next')
      /\ Cleanups(K, next) \subseteq Cleanups(K, next')
      /\ [Branches -> 0..(next - 1)] \subseteq [Branches -> 0..(next' - 1)]
  BY <1>1, Grown
<1>4. tips' = tips /\ head' = head => TipsPart'
  BY <1>3 DEF Typed, TipsPart
<1>5. /\ git' = git => GitPart(K)'
      /\ seen' = seen => SeenPart(K)'
      /\ load' = load => LoadPart(K)'
      /\ cleanup' = cleanup => CleanupPart(K)'
      /\ undo' = undo => UndoPart'
      /\ forcePush' = forcePush => ForcePart'
  BY <1>3 DEF Typed, GitPart, SeenPart, LoadPart, CleanupPart, UndoPart, ForcePart
<1>6. /\ popups' = popups => StackPart(K)'
      /\ dirty' = dirty => DirtyPart'
      /\ flow' = flow => FlowPart(K)'
      /\ mco' = mco => OperationPart(K)'
      /\ banner' = banner => BannerPart(K)'
      /\ errors' = errors => ErrorsPart(K)'
  BY DEF Typed, StackPart, DirtyPart, FlowPart, OperationPart, BannerPart, ErrorsPart
<1>7. bound' = bound => BoundPart(K)'
  BY DEF Typed, BoundPart
<1> QED
  BY <1>2, <1>4, <1>5, <1>6, <1>7

\* A loader begins, or is done.
LEMMA LoadSteps ==
  ASSUME NEW K, LoadPart(K), next' = next, NEW l \in Loaders, NEW x \in Loads(K, next),
         load' = [load EXCEPT ![l] = x]
  PROVE  LoadPart(K)'
BY DEF LoadPart

LEMMA LoadBegins ==
  ASSUME NEW K, Typed(K), next' \in {next, next + 1}, NEW l \in Loaders, Loading(l)
  PROVE  LoadPart(K)'
<1>1. next \in Nat /\ load \in [Loaders -> Loads(K, next)]
  BY DEF Typed, NextPart, LoadPart
<1>2. load \in [Loaders -> Loads(K, next')]
  BY <1>1, Grown
<1>3. [at |-> "read"] \in Loads(K, next')
  BY DEF Loads
<1> QED
  BY <1>2, <1>3 DEF Loading, LoadPart

\* An operation that moves on to another step is one of those that can be.
LEMMA AtSteps ==
  ASSUME NEW K, NEW m \in Operations(K), NEW step \in Step \ {"ChooseBranch"}
  PROVE  AtStep(m, step) \in Operations(K)
<1>1. CASE m = NoOp
  BY <1>1 DEF AtStep, Operations
<1>2. CASE m # NoOp
  <2>1. m \in Started(K) \/ m \in Choosing(K)
    BY <1>2 DEF Operations
  <2>2. CASE m \in Started(K)
    BY <1>2, <2>2 DEF AtStep, Operations, Started
  <2>3. CASE m \in Choosing(K)
    <3>1. m \in [kind : K, step : {"ChooseBranch"}, orig : Nat, target : Names, source : Names]
      BY <2>3 DEF Choosing, Names
    <3>2. [m EXCEPT !.step = step] \in Started(K)
      BY <3>1 DEF Started
    <3> QED
      BY <1>2, <3>2 DEF AtStep, Operations
  <2> QED
    BY <2>1, <2>2, <2>3
<1> QED
  BY <1>1, <1>2

LEMMA OpTyped ==
  ASSUME NEW K, NEW kind \in K, NEW step \in Step \ {"ChooseBranch"}, NEW orig \in Nat,
         NEW target \in Names, NEW source \in Names
  PROVE  Op(kind, step, orig, target, source) \in Operations(K) \ {NoOp}
BY DEF Op, Operations, Started, NoOp

LEMMA OperationFacts ==
  ASSUME NEW K, NEW m \in Operations(K), m # NoOp
  PROVE  /\ m = Op(m.kind, m.step, m.orig, m.target, m.source)
         /\ m.kind \in K /\ m.step \in Step /\ m.orig \in Nat
         /\ m.target \in Names /\ m.source \in Names
         /\ m.step = "ChooseBranch" =>
              /\ m.kind \in {"Rebase", "Merge", "CherryPick"}
              /\ m.kind = "CherryPick" => m.source \in Branches
<1>1. m \in Started(K) \/ m \in Choosing(K)
  BY DEF Operations
<1>2. CASE m \in Started(K)
  BY <1>2 DEF Started, Op
<1>3. CASE m \in Choosing(K)
  BY <1>3 DEF Choosing, Op, Step, Names
<1> QED
  BY <1>1, <1>2, <1>3

\* What a step of Git does to the repository.
LEMMA GitSteps ==
  ASSUME NEW K, World(K), Typed(K), NEW kind \in K,
         \/ GitCommits(kind) \/ GitForwards \/ GitConflicts(kind)
         \/ GitAborts \/ GitFails \/ UNCHANGED repoVars
  PROVE  next' \in {next, next + 1} /\ TipsPart' /\ DirtyPart' /\ GitPart(K)'
<1>1. next \in Nat \ {0} /\ tips \in [Branches -> Shas(next)] /\ head \in Branches /\ DirtyPart
      /\ git \in Gits(K, next)
  BY DEF Typed, NextPart, TipsPart, GitPart
<1>2. next \in Shas(next + 1) /\ Shas(next) \subseteq Shas(next + 1)
  BY <1>1 DEF Shas
<1>3. CASE GitCommits(kind) \/ GitForwards
  <2>1. next' = next + 1 /\ tips' = [tips EXCEPT ![head] = next] /\ head' = head /\ dirty' = dirty
        /\ git' = NoGit
    BY <1>3 DEF GitCommits, GitForwards, GitMoves
  <2>2. tips' \in [Branches -> Shas(next')]
    BY <1>1, <1>2, <2>1
  <2> QED
    BY <1>1, <2>1, <2>2 DEF TipsPart, DirtyPart, GitPart, Gits
<1>4. CASE GitConflicts(kind)
  <2>1. next' = next /\ tips' = tips /\ head' = head /\ dirty' = dirty
        /\ git' = [op |-> GitOp(kind), on |-> head, was |-> tips[head]]
    BY <1>4 DEF GitConflicts
  <2>2. GitOp(kind) \in GitOps(K) /\ tips[head] \in Shas(next)
    BY <1>1 DEF GitOps
  <2>3. git' \in Gits(K, next)
    BY <1>1, <2>1, <2>2 DEF Gits
  <2> QED
    BY <1>1, <2>1, <2>3 DEF TipsPart, DirtyPart, GitPart
<1>5. CASE GitAborts
  BY <1>1, <1>5 DEF GitAborts, TipsPart, DirtyPart, GitPart, Gits
<1>6. CASE GitFails \/ UNCHANGED repoVars
  BY <1>1, <1>6 DEF GitFails, repoVars, TipsPart, DirtyPart, GitPart
<1> QED
  BY <1>3, <1>4, <1>5, <1>6

-----------------------------------------------------------------------------
(* Statuses, and what is made of them.                                     *)
LEMMA DialogIsOne == ASSUME NEW K PROVE Dialog \in Dialogs(K) /\ Popup("Error", Nobody) \in Dialogs(K)
BY DEF Dialogs

LEMMA StatusesTyped ==
  ASSUME NEW K, World(K), Typed(K)
  PROVE  StatusNow \subseteq Statuses(K, next)
<1>1. tips[head] \in Shas(next) /\ head \in Names /\ NoBranch \in Names /\ dirty \in BOOLEAN
  BY DEF Typed, TipsPart, DirtyPart, Names
<1>2. git.op \in {"none"} \cup GitOps(K)
  BY DEF Typed, GitPart, Gits, NoGit
<1>3. [op |-> git.op, on |-> IF git.op = "rebase" THEN NoBranch ELSE head,
       tip |-> tips[head], files |-> dirty \/ git.op # "none"] \in Statuses(K, next)
  <2>1. (dirty \/ git.op # "none") \in BOOLEAN
    OBVIOUS
  <2>2. (IF git.op = "rebase" THEN NoBranch ELSE head) \in Names
    BY <1>1
  <2> QED
    BY <1>1, <1>2, <2>1, <2>2 DEF Statuses
<1>4. [op |-> "none", on |-> NoBranch, tip |-> tips[head], files |-> FALSE] \in Statuses(K, next)
  BY <1>1 DEF Statuses
<1> QED
  BY <1>3, <1>4 DEF StatusNow

LEMMA VisualsCleared ==
  ASSUME NEW K, Typed(K), NEW m, ClearVisuals(m)
  PROVE  StackPart(K)' /\ BannerPart(K)'
<1>1. Stack(popups, K) /\ banner \in Banners(K)
  BY DEF Typed, StackPart, BannerPart
<1>2. Stack(ClosedType(popups, "MultiCommitOperation"), K)
  BY <1>1, StackSteps
<1>3. NoBanner \in Banners(K)
  BY DEF Banners
<1> QED
  BY <1>1, <1>2, <1>3 DEF ClearVisuals, StackPart, BannerPart

LEMMA ConflictsTriggered ==
  ASSUME NEW K, Typed(K), NEW m \in Operations(K), NEW op, TriggerConflicts(m, op)
  PROVE  StackPart(K)' /\ BannerPart(K)' /\ OperationPart(K)' /\ ErrorsPart(K)'
<1>1. Stack(popups, K) /\ banner \in Banners(K) /\ ErrorsPart(K)
  BY DEF Typed, StackPart, BannerPart
<1>2. Stack(Added(popups, Dialog), K)
  BY <1>1, StackSteps, DialogIsOne
<1>3. AtStep(m, "ShowConflicts") \in Operations(K)
  BY AtSteps DEF Step
<1>4. StackPart(K)' /\ BannerPart(K)' /\ OperationPart(K)'
  BY <1>1, <1>2, <1>3 DEF TriggerConflicts, ShowTriggered, StackPart, BannerPart, OperationPart
<1>5. errors' = errors \/ errors' = errors \cup {Triggered}
  BY DEF TriggerConflicts, ShowTriggered
<1>6. ErrorsPart(K)'
  BY <1>1, <1>5 DEF ErrorsPart
<1> QED
  BY <1>4, <1>6

LEMMA ReadStep ==
  ASSUME NEW K, World(K), Typed(K), NEW l \in Loaders, Read(l)
  PROVE  Typed(K)'
<1>1. /\ UNCHANGED <<popups, tips, head, git, dirty, next, mco, undo, banner, forcePush, errors>>
      /\ UNCHANGED <<seen, flow, cleanup>>
  BY DEF Read, repoVars, appVars
<1>2. PICK s \in StatusNow :
        /\ load' = [load EXCEPT ![l] = [at |-> "apply", status |-> s]]
        /\ bound' = [bound EXCEPT !.disturbed = @ \/ (s.op = "none" /\ s.on = NoBranch)]
  BY DEF Read
<1>3. LoadPart(K)'
  <2>1. s \in Statuses(K, next)
    BY <1>2, StatusesTyped
  <2>2. [at |-> "apply", status |-> s] \in Loads(K, next)
    BY <2>1 DEF Loads
  <2> QED
    BY <1>1, <1>2, <2>2, LoadSteps DEF Typed
<1>4. BoundPart(K)'
  BY <1>2 DEF Typed, BoundPart, Bounds
<1> QED
  BY <1>1, <1>3, <1>4, Unchanged DEF Typed

LEMMA ApplyStep ==
  ASSUME NEW K, World(K), Typed(K), NEW l \in Loaders, Apply(l)
  PROVE  Typed(K)'
<1> DEFINE s == load[l].status
<1>1. /\ UNCHANGED <<tips, head, git, dirty, next, undo, forcePush>>
      /\ UNCHANGED <<flow, cleanup, bound>>
  BY DEF Apply, repoVars
<1>2. load[l] \in Loads(K, next) /\ load[l].at = "apply" /\ seen' = s
  BY DEF Apply, Typed, LoadPart
<1>3. s \in Statuses(K, next)
  BY <1>2 DEF Loads, Idle
<1>4. mco \in Operations(K) /\ Stack(popups, K) /\ banner \in Banners(K)
  BY DEF Typed, OperationPart, StackPart, BannerPart
<1>5. SeenPart(K)'
  BY <1>1, <1>2, <1>3 DEF SeenPart
<1>6. s.op \in {"none"} \cup GitOps(K) /\ s.on \in Names /\ s.tip \in Shas(next)
  BY <1>3 DEF Statuses
<1> HIDE DEF s
<1>7. LoadPart(K)'
  <2> DEFINE x == IF mco = NoOp /\ s.op \in {"rebase", "cherryPick"}
                  THEN [at |-> "snapshot", op |-> s.op] ELSE Idle
  <2>1. x \in Loads(K, next)
    BY <1>6 DEF Loads
  <2>2. load' = [load EXCEPT ![l] = x]
    BY DEF Apply, s
  <2> HIDE DEF x
  <2> QED
    BY <1>1, <2>1, <2>2, LoadSteps DEF Typed
<1>8. StackPart(K)' /\ BannerPart(K)' /\ OperationPart(K)' /\ ErrorsPart(K)'
  <2>1. CASE s.op = "none" \/ (mco = NoOp /\ s.op # "merge")
    <3>1. ClearVisuals(mco) /\ mco' = mco /\ errors' = errors
      BY <2>1 DEF Apply, s
    <3> QED
      BY <1>4, <3>1, VisualsCleared DEF OperationPart, ErrorsPart, Typed
  <2>2. CASE s.op # "none" /\ mco # NoOp
    <3>1. TriggerConflicts(mco, s.op)
      BY <2>2 DEF Apply, s
    <3> QED
      BY <1>4, <3>1, ConflictsTriggered
  <2>3. CASE s.op = "merge" /\ mco = NoOp
    <3>1. /\ mco' = Op("Merge", "ShowProgress", s.tip, s.on, NoBranch)
          /\ banner' = IF banner = ConflictsFound THEN NoBanner ELSE banner
          /\ popups' = ClosedType(popups, "MultiCommitOperation")
          /\ errors' = errors \cup {Triggered}
      BY <2>3 DEF Apply, s
    <3>2. Stack(ClosedType(popups, "MultiCommitOperation"), K)
      BY <1>4, StackSteps
    <3>3. ErrorsPart(K)'
      BY <3>1 DEF ErrorsPart, Typed
    <3>4. s.tip \in Nat /\ NoBranch \in Names /\ "Merge" \in K
      BY <1>6, WorldFacts DEF Shas, Names
    <3>5. Op("Merge", "ShowProgress", s.tip, s.on, NoBranch) \in Operations(K)
      BY <1>6, <3>4, OpTyped DEF Step
    <3>6. banner' \in Banners(K)
      BY <1>4, <3>1 DEF Banners
    <3> QED
      BY <3>1, <3>2, <3>3, <3>5, <3>6 DEF StackPart, BannerPart, OperationPart
  <2> QED
    BY <2>1, <2>2, <2>3
<1> QED
  BY <1>1, <1>5, <1>7, <1>8, Unchanged DEF Typed

LEMMA SnapshotStep ==
  ASSUME NEW K, World(K), Typed(K), NEW l \in Loaders, Snapshot(l)
  PROVE  Typed(K)'
<1>1. UNCHANGED <<tips, head, git, dirty, next, undo, forcePush, seen, bound>>
  BY DEF Snapshot, repoVars, appVars
<1>2. load[l] \in Loads(K, next) /\ load[l].at = "snapshot"
  BY DEF Snapshot, Typed, LoadPart
<1>3. load[l].op \in GitOps(K) \cap {"rebase", "cherryPick"}
  BY <1>2 DEF Loads, Idle
<1>4. git \in Gits(K, next) /\ mco \in Operations(K)
  BY DEF Typed, GitPart, OperationPart
<1>5. CASE git.op = load[l].op
  <2>1. git \in [op : GitOps(K) \cap {"rebase", "cherryPick"}, on : Branches, was : Shas(next)]
    <3>1. git # NoGit
      BY <1>3, <1>5 DEF NoGit
    <3> QED
      BY <1>3, <1>4, <1>5, <3>1 DEF Gits
  <2>2. [at |-> "set", git |-> git] \in Loads(K, next)
    BY <2>1 DEF Loads
  <2>3. /\ load' = [load EXCEPT ![l] = [at |-> "set", git |-> git]]
        /\ UNCHANGED <<popups, mco, banner, errors, flow, cleanup>>
    BY <1>5 DEF Snapshot, appVars
  <2>4. LoadPart(K)'
    BY <1>1, <2>2, <2>3, LoadSteps DEF Typed
  <2> QED
    BY <1>1, <2>3, <2>4, Unchanged DEF Typed
<1>6. CASE git.op # load[l].op
  <2>1. load' = [load EXCEPT ![l] = Idle]
    BY <1>6 DEF Snapshot
  <2>2. Idle \in Loads(K, next) /\ Idle \in Flows(K) /\ Idle \in Cleanups(K, next)
    BY DEF Loads, Flows, Cleanups
  <2>3. LoadPart(K)'
    BY <1>1, <2>1, <2>2, LoadSteps DEF Typed
  <2>4. FlowPart(K)' /\ CleanupPart(K)'
    <3>1. (flow' = flow \/ flow' = Idle) /\ (cleanup' = cleanup \/ cleanup' = Idle)
      BY <1>6 DEF Snapshot
    <3> QED
      BY <1>1, <2>2, <3>1 DEF Typed, FlowPart, CleanupPart
  <2>5. \/ TriggerConflicts(mco, seen.op)
        \/ mco' = mco /\ errors' = errors /\ (ClearVisuals(mco) \/ UNCHANGED <<popups, banner>>)
    BY <1>6 DEF Snapshot
  <2>6. StackPart(K)' /\ BannerPart(K)' /\ OperationPart(K)' /\ ErrorsPart(K)'
    BY <1>1, <1>4, <2>5, VisualsCleared, ConflictsTriggered, Unchanged DEF Typed
  <2> QED
    BY <1>1, <2>3, <2>4, <2>6, Unchanged DEF Typed
<1> QED
  BY <1>5, <1>6

LEMMA SetUpStep ==
  ASSUME NEW K, World(K), Typed(K), NEW l \in Loaders, SetUp(l)
  PROVE  Typed(K)'
<1> DEFINE was == load[l].git
           m == IF was.op = "rebase" THEN Op("Rebase", "ShowProgress", was.was, was.on, NoBranch)
                ELSE Op("CherryPick", "ShowProgress", 0, seen.on, NoBranch)
<1>1. /\ UNCHANGED <<tips, head, git, dirty, next, forcePush>>
      /\ UNCHANGED <<seen, flow, cleanup, bound>>
  BY DEF SetUp, repoVars
<1>2. load[l] \in Loads(K, next) /\ load[l].at = "set" /\ load' = [load EXCEPT ![l] = Idle]
  BY DEF SetUp, Typed, LoadPart
<1>3. was \in [op : GitOps(K) \cap {"rebase", "cherryPick"}, on : Branches, was : Shas(next)]
  BY <1>2 DEF Loads, Idle
<1>4. seen.on \in Names /\ undo \in Undos(next)
  BY DEF Typed, SeenPart, Statuses, UndoPart
<1>5. was.op \in GitOps(K) \cap {"rebase", "cherryPick"} /\ was.was \in Nat /\ was.on \in Names
  BY <1>3 DEF Shas, Names
<1> HIDE DEF was
<1>6. m \in Operations(K)
  <2>1. NoBranch \in Names /\ "ShowProgress" \in Step \ {"ChooseBranch"} /\ 0 \in Nat
    BY DEF Names, Step
  <2>2. CASE was.op = "rebase"
    <3>1. "Rebase" \in K
      BY <1>5, <2>2, WorldFacts DEF Rewriting
    <3>2. Op("Rebase", "ShowProgress", was.was, was.on, NoBranch) \in Operations(K)
      BY <1>5, <2>1, <3>1, OpTyped
    <3> QED
      BY <2>2, <3>2
  <2>3. CASE was.op = "cherryPick"
    <3>1. "CherryPick" \in K
      BY <1>5, <2>3, WorldFacts
    <3>2. Op("CherryPick", "ShowProgress", 0, seen.on, NoBranch) \in Operations(K)
      BY <1>4, <2>1, <3>1, OpTyped
    <3> QED
      BY <2>3, <3>2
  <2> QED
    BY <1>5, <2>2, <2>3
<1>7. LoadPart(K)'
  <2>1. Idle \in Loads(K, next)
    BY DEF Loads
  <2> QED
    BY <1>1, <1>2, <2>1, LoadSteps DEF Typed
<1>8. UndoPart'
  <2>1. undo' = [sha |-> was.was, branch |-> NoBranch] \/ undo' = undo
    BY DEF SetUp, was
  <2>2. undo' \in Undos(next)
    BY <1>4, <1>5, <2>1 DEF Undos
  <2> QED
    BY <1>1, <2>2 DEF UndoPart
<1>9. \/ ClearVisuals(m) /\ mco' = m /\ errors' = errors
      \/ TriggerConflicts(m, seen.op)
  BY DEF SetUp, was
<1> HIDE DEF m
<1>10. StackPart(K)' /\ BannerPart(K)' /\ OperationPart(K)' /\ ErrorsPart(K)'
  BY <1>1, <1>6, <1>9, VisualsCleared, ConflictsTriggered, Unchanged DEF OperationPart
<1> QED
  BY <1>1, <1>7, <1>8, <1>10, Unchanged DEF Typed

LEMMA RefreshStep ==
  ASSUME NEW K, World(K), Typed(K), Refresh
  PROVE  Typed(K)'
<1>1. /\ UNCHANGED <<popups, tips, head, git, dirty, next, mco, undo, banner, forcePush, errors>>
      /\ UNCHANGED <<seen, flow, cleanup, bound>>
  BY DEF Refresh, repoVars, appVars
<1>2. LoadPart(K)'
  BY <1>1, LoadBegins DEF Refresh, Loaders
<1> QED
  BY <1>1, <1>2, Unchanged DEF Typed

-----------------------------------------------------------------------------
(* Operations begin.                                                       *)
LEMMA FlowsTyped ==
  ASSUME NEW K, NEW kind \in K, NEW to \in Names, NEW from \in Names
  PROVE  /\ Idle \in Flows(K)
         /\ FlowAt("git", kind, to, from) \in Flows(K)
         /\ FlowAt("continue", kind, to, from) \in Flows(K)
         /\ kind \in Rewriting => FlowAt("warn", kind, to, from) \in Flows(K)
         /\ kind # "CherryPick" => FlowAt("retry", kind, to, from) \in Retries(K)
         /\ kind = "CherryPick" /\ to \in Branches /\ from \in Branches =>
              /\ FlowAt("retry", kind, to, from) \in Retries(K)
              /\ FlowAt("checkout", kind, to, from) \in Flows(K)
BY DEF Flows, FlowAt, Retries

LEMMA FlowFacts ==
  ASSUME NEW K, NEW f \in Flows(K)
  PROVE  /\ f.at = "retry" => f \in Retries(K)
         /\ f.at = "warn" => f \in [at : {"warn"}, kind : K \cap Rewriting, to : Names, from : Names]
         /\ f.at = "checkout" =>
              f \in [at : {"checkout"}, kind : K \cap {"CherryPick"}, to : Branches, from : Branches]
         /\ f.at \in {"git", "continue", "merged"} =>
              f \in [at : {"git", "continue", "merged"}, kind : K, to : Names, from : Names]
         /\ f.at = "rebased" =>
              f \in [at : {"rebased"}, kind : K \cap {"Rebase"}, to : Names, from : Names,
                     result : {"Completed", "Conflicts", "UpToDate", "Error"}]
         /\ f.at = "picked" =>
              f \in [at : {"picked"}, kind : K \cap {"CherryPick"}, to : Names, from : Names,
                     result : {"Completed", "Conflicts", "UnableToStart", "Error"}]
         /\ f.at \in {"process", "conflicts"} =>
              f \in [at : {"process", "conflicts"}, kind : K \cap Rewriting, to : Names, from : Names,
                     result : {"Completed", "Conflicts", "Aborted", "Error"}]
<1>1. f.at = "retry" => f \in Retries(K)
  BY DEF Flows, Retries, Idle
<1>2. f.at = "warn" => f \in [at : {"warn"}, kind : K \cap Rewriting, to : Names, from : Names]
  BY DEF Flows, Retries, Idle
<1>3. f.at = "checkout" =>
        f \in [at : {"checkout"}, kind : K \cap {"CherryPick"}, to : Branches, from : Branches]
  BY DEF Flows, Retries, Idle
<1>4. f.at \in {"git", "continue", "merged"} =>
        f \in [at : {"git", "continue", "merged"}, kind : K, to : Names, from : Names]
  BY DEF Flows, Retries, Idle
<1>5. f.at = "rebased" =>
        f \in [at : {"rebased"}, kind : K \cap {"Rebase"}, to : Names, from : Names,
               result : {"Completed", "Conflicts", "UpToDate", "Error"}]
  BY DEF Flows, Retries, Idle
<1>6. f.at = "picked" =>
        f \in [at : {"picked"}, kind : K \cap {"CherryPick"}, to : Names, from : Names,
               result : {"Completed", "Conflicts", "UnableToStart", "Error"}]
  BY DEF Flows, Retries, Idle
<1>7. f.at \in {"process", "conflicts"} =>
        f \in [at : {"process", "conflicts"}, kind : K \cap Rewriting, to : Names, from : Names,
               result : {"Completed", "Conflicts", "Aborted", "Error"}]
  BY DEF Flows, Retries, Idle
<1> QED
  BY <1>1, <1>2, <1>3, <1>4, <1>5, <1>6, <1>7

LEMMA SeenFacts ==
  ASSUME NEW K, Typed(K)
  PROVE  /\ seen.tip \in Nat /\ seen.tip \in Shas(next) /\ seen.on \in Names
         /\ seen.files \in BOOLEAN /\ seen.op \in {"none"} \cup GitOps(K)
         /\ NoBranch \in Names /\ Branches \subseteq Names
BY DEF Typed, SeenPart, Statuses, Shas, Names, NextPart

LEMMA RetryDialogs ==
  ASSUME NEW K, NEW kind, NEW to, NEW from, FlowAt("retry", kind, to, from) \in Retries(K)
  PROVE  LocalChanges(kind, to, from) \in Dialogs(K)
BY DEF Dialogs, LocalChanges

LEMMA ChooseDialogStep ==
  ASSUME NEW K, World(K), Typed(K), NEW kind \in Kinds, ChooseDialog(kind)
  PROVE  Typed(K)'
<1>1. /\ UNCHANGED <<tips, head, git, dirty, next, undo, banner, forcePush, errors>>
      /\ UNCHANGED <<seen, load, flow, cleanup>>
  BY DEF ChooseDialog, repoVars
<1>2. /\ kind \in bound.kinds \cap {"Rebase", "Merge", "CherryPick"} /\ seen.on \in Branches
      /\ bound' = [bound EXCEPT !.starts = @ - 1] /\ bound.starts > 0
      /\ mco' = IF kind = "CherryPick"
                THEN Op(kind, "ChooseBranch", seen.tip, NoBranch, seen.on)
                ELSE Op(kind, "ChooseBranch", seen.tip, seen.on, NoBranch)
      /\ popups' = Added(popups, Dialog)
  BY DEF ChooseDialog, TipValid
<1>3. kind \in K /\ seen.tip \in Nat /\ seen.on \in Names /\ NoBranch \in Names
  BY <1>2, SeenFacts DEF Typed, BoundPart
<1>4. OperationPart(K)'
  BY <1>2, <1>3 DEF OperationPart, Operations, Choosing, Op
<1>5. StackPart(K)'
  BY <1>2, StackSteps, DialogIsOne DEF Typed, StackPart
<1>6. BoundPart(K)'
  BY <1>2 DEF Typed, BoundPart, Bounds
<1> QED
  BY <1>1, <1>4, <1>5, <1>6, Unchanged DEF Typed

LEMMA CancelStep ==
  ASSUME NEW K, World(K), Typed(K), Cancel
  PROVE  Typed(K)'
<1>1. /\ UNCHANGED <<tips, head, git, dirty, next, undo, banner, forcePush, errors>>
      /\ UNCHANGED <<seen, load, flow, cleanup, bound>>
  BY DEF Cancel, repoVars
<1>2. popups' = ClosedType(popups, "MultiCommitOperation") /\ mco' = NoOp
  BY DEF Cancel
<1>3. OperationPart(K)' /\ StackPart(K)'
  BY <1>2, StackSteps DEF Typed, StackPart, OperationPart, Operations
<1> QED
  BY <1>1, <1>3, Unchanged DEF Typed

\* A reorder or squash begins, with local changes in its way or not.
LEMMA RewriteBegins ==
  ASSUME NEW K, World(K), Typed(K), NEW kind \in K \cap {"Reorder", "Squash"},
         NEW anyway \in BOOLEAN, NEW stack, Stack(stack, K), BeginRewrite(kind, anyway, stack),
         next' = next
  PROVE  StackPart(K)' /\ OperationPart(K)' /\ FlowPart(K)' /\ UndoPart'
<1>1. /\ kind \in K /\ kind # "CherryPick" /\ kind \in Rewriting
      /\ OperationPart(K) /\ UndoPart
  BY DEF Rewriting, Typed
<1>2. CASE seen.files
  <2>1. /\ popups' = Added(stack, LocalChanges(kind, NoBranch, NoBranch)) /\ flow' = Idle
        /\ UNCHANGED <<mco, undo>>
    BY <1>2 DEF BeginRewrite
  <2>2. LocalChanges(kind, NoBranch, NoBranch) \in Dialogs(K)
    BY <1>1, FlowsTyped, RetryDialogs, SeenFacts
  <2>3. popups' = Added(stack, LocalChanges(kind, NoBranch, NoBranch))
    BY <2>1
  <2>4. Stack(Added(stack, LocalChanges(kind, NoBranch, NoBranch)), K)
    BY <2>2, StackSteps
  <2> QED
    BY <1>1, <2>1, <2>4 DEF StackPart, OperationPart, FlowPart, UndoPart, Flows
<1>3. CASE ~seen.files /\ ~TipValid
  <2>1. popups' = stack /\ flow' = Idle /\ UNCHANGED <<mco, undo>>
    BY <1>3 DEF BeginRewrite
  <2> QED
    BY <1>1, <2>1 DEF StackPart, OperationPart, FlowPart, UndoPart, Flows
<1>4. CASE ~seen.files /\ TipValid
  <2>1. /\ mco' = Op(kind, "ShowProgress", seen.tip, seen.on, NoBranch)
        /\ popups' = Added(stack, Dialog)
        /\ undo' = [sha |-> seen.tip, branch |-> seen.on]
        /\ flow' = FlowAt(IF anyway THEN "git" ELSE "warn", kind, seen.on, NoBranch)
    BY <1>4 DEF BeginRewrite
  <2>2. seen.tip \in Shas(next) /\ seen.tip \in Nat /\ seen.on \in Names /\ NoBranch \in Names
    BY SeenFacts
  <2>3. Op(kind, "ShowProgress", seen.tip, seen.on, NoBranch) \in Operations(K)
    BY <1>1, <2>2, OpTyped DEF Step
  <2>4. flow' \in Flows(K)
    BY <1>1, <2>1, <2>2, FlowsTyped
  <2>5. undo' \in Undos(next)
    BY <1>4, <2>1, <2>2 DEF Undos, TipValid
  <2>6. Stack(Added(stack, Dialog), K)
    BY StackSteps, DialogIsOne
  <2> QED
    BY <2>1, <2>3, <2>4, <2>5, <2>6 DEF StackPart, OperationPart, FlowPart, UndoPart
<1> QED
  BY <1>2, <1>3, <1>4

\* A cherry-pick begins.
LEMMA CherryPickBegins ==
  ASSUME NEW K, World(K), Typed(K), "CherryPick" \in K, NEW m \in Operations(K),
         NEW target \in Branches, NEW source \in Branches, NEW stack, Stack(stack, K),
         BeginCherryPick(m, target, source, stack), next' = next
  PROVE  StackPart(K)' /\ OperationPart(K)' /\ FlowPart(K)' /\ UndoPart'
<1>1. target \in Names /\ source \in Names /\ tips[source] \in Nat /\ tips[target] \in Shas(next)
      /\ UndoPart
  BY DEF Names, Typed, TipsPart, Shas, NextPart
<1>2. CASE seen.files
  <2>1. /\ popups' = Added(stack, LocalChanges("CherryPick", target, source)) /\ flow' = Idle
        /\ mco' = NoOp /\ undo' = undo
    BY <1>2 DEF BeginCherryPick
  <2>2. LocalChanges("CherryPick", target, source) \in Dialogs(K)
    BY <1>1, FlowsTyped, RetryDialogs
  <2>3. Stack(Added(stack, LocalChanges("CherryPick", target, source)), K)
    BY <2>2, StackSteps
  <2> QED
    BY <1>1, <2>1, <2>3 DEF StackPart, OperationPart, FlowPart, UndoPart, Flows, Operations
<1>3. CASE ~seen.files
  <2> DEFINE new == Op("CherryPick", "ShowProgress", tips[source], target, source)
  <2>1. /\ mco' = AtStep(IF m = NoOp THEN new ELSE m, "ShowProgress")
        /\ undo' = [sha |-> tips[target], branch |-> target]
        /\ flow' = FlowAt("checkout", "CherryPick", target, source)
        /\ popups' = stack
    BY <1>3 DEF BeginCherryPick, CherryPickUndo
  <2>2. "ShowProgress" \in Step \ {"ChooseBranch"}
    BY DEF Step
  <2>3. new \in Operations(K)
    BY <1>1, <2>2, OpTyped
  <2> HIDE DEF new
  <2>4. (IF m = NoOp THEN new ELSE m) \in Operations(K)
    BY <2>3
  <2>5. mco' \in Operations(K)
    BY <2>1, <2>2, <2>4, AtSteps
  <2>6. flow' \in Flows(K)
    BY <1>1, <2>1, FlowsTyped
  <2>7. undo' \in Undos(next)
    BY <1>1, <2>1 DEF Undos
  <2> QED
    BY <2>1, <2>5, <2>6, <2>7 DEF StackPart, OperationPart, FlowPart, UndoPart
<1> QED
  BY <1>2, <1>3

LEMMA ChooseStep ==
  ASSUME NEW K, World(K), Typed(K), NEW b \in Branches, Choose(b)
  PROVE  Typed(K)'
<1>1. /\ UNCHANGED <<tips, head, git, dirty, next, banner, forcePush, errors>>
      /\ UNCHANGED <<seen, load, cleanup, bound>>
  BY DEF Choose, repoVars
<1>2. mco \in Operations(K) /\ mco # NoOp /\ mco.step = "ChooseBranch"
  BY DEF Choose, Typed, OperationPart
<1>3. /\ mco = Op(mco.kind, mco.step, mco.orig, mco.target, mco.source)
      /\ mco.kind \in K /\ mco.orig \in Nat /\ mco.target \in Names /\ mco.source \in Names
      /\ mco.kind \in {"Rebase", "Merge", "CherryPick"}
      /\ mco.kind = "CherryPick" => mco.source \in Branches
  BY <1>2, OperationFacts
<1>4. b \in Names /\ seen.tip \in Nat /\ Stack(popups, K) /\ NoBranch \in Names
  BY SeenFacts DEF Typed, StackPart
<1>5. StackPart(K)' /\ OperationPart(K)' /\ FlowPart(K)' /\ UndoPart'
  <2>1. CASE mco.kind = "Merge"
    <3>1. BeginMerge(b) /\ popups' = ClosedType(popups, "MultiCommitOperation")
      BY <2>1 DEF Choose
    <3>2. flow' = FlowAt("git", "Merge", mco.target, b) /\ mco' = [mco EXCEPT !.source = b]
          /\ undo' = undo
      BY <3>1 DEF BeginMerge
    <3>3. mco' \in Operations(K)
      BY <1>2, <1>3, <1>4, <2>1, <3>2 DEF Operations, Choosing, Op
    <3>4. Stack(ClosedType(popups, "MultiCommitOperation"), K)
      BY <1>4, StackSteps
    <3>5. flow' \in Flows(K)
      BY <1>3, <1>4, <2>1, <3>2, FlowsTyped
    <3> QED
      BY <1>1, <3>1, <3>2, <3>3, <3>4, <3>5 DEF StackPart, OperationPart, FlowPart, UndoPart, Typed
  <2>2. CASE mco.kind = "Rebase"
    <3>1. BeginRebase(b, mco.target, FALSE)
      BY <2>2 DEF Choose
    <3>2. /\ mco' = Op("Rebase", "ShowProgress", seen.tip, mco.target, b)
          /\ flow' = FlowAt("warn", "Rebase", mco.target, b)
          /\ popups' = popups /\ undo' = undo
      BY <3>1 DEF BeginRebase
    <3>3. mco' \in Operations(K)
      BY <1>3, <1>4, <2>2, <3>2, OpTyped DEF Step
    <3>4. flow' \in Flows(K)
      BY <1>3, <1>4, <2>2, <3>2, FlowsTyped DEF Rewriting
    <3> QED
      BY <1>1, <3>2, <3>3, <3>4 DEF StackPart, OperationPart, FlowPart, UndoPart, Typed
  <2>3. CASE mco.kind = "CherryPick"
    <3> DEFINE m == [mco EXCEPT !.target = b]
    <3>1. BeginCherryPick(m, b, mco.source, popups)
      BY <2>3 DEF Choose
    <3>2. m \in Operations(K)
      BY <1>2, <1>3, <1>4, <2>3 DEF Operations, Choosing, Op
    <3> HIDE DEF m
    <3>3. "CherryPick" \in K /\ mco.source \in Branches /\ next' = next
      BY <1>1, <1>3, <2>3
    <3> QED
      BY <1>4, <3>1, <3>2, <3>3, CherryPickBegins
  <2> QED
    BY <1>3, <2>1, <2>2, <2>3
<1> QED
  BY <1>1, <1>5, Unchanged DEF Typed

LEMMA StartRewriteStep ==
  ASSUME NEW K, World(K), Typed(K), NEW kind \in Kinds, StartRewrite(kind)
  PROVE  Typed(K)'
<1>1. /\ UNCHANGED <<tips, head, git, dirty, next, banner, forcePush, errors>>
      /\ UNCHANGED <<seen, load, cleanup>>
  BY DEF StartRewrite, repoVars
<1>2. /\ kind \in bound.kinds \cap {"Reorder", "Squash"} /\ bound.starts > 0
      /\ bound' = [bound EXCEPT !.starts = @ - 1]
      /\ BeginRewrite(kind, FALSE, popups)
  BY DEF StartRewrite
<1>3. kind \in K \cap {"Reorder", "Squash"}
  BY <1>2 DEF Typed, BoundPart
<1>4. BoundPart(K)'
  BY <1>2 DEF Typed, BoundPart, Bounds
<1>5. StackPart(K)' /\ OperationPart(K)' /\ FlowPart(K)' /\ UndoPart'
  <2>1. Stack(popups, K) /\ next' = next
    BY <1>1 DEF Typed, StackPart
  <2> QED
    BY <1>2, <1>3, <2>1, RewriteBegins
<1> QED
  BY <1>1, <1>4, <1>5, Unchanged DEF Typed

LEMMA WarnedStep ==
  ASSUME NEW K, World(K), Typed(K), Warned
  PROVE  Typed(K)'
<1>1. /\ UNCHANGED <<popups, tips, head, git, dirty, next, undo, banner, forcePush, errors>>
      /\ UNCHANGED <<seen, load, cleanup, bound>>
  BY DEF Warned, repoVars
<1>2. flow \in [at : {"warn"}, kind : K \cap Rewriting, to : Names, from : Names]
  BY FlowFacts DEF Warned, Typed, FlowPart
<1>3. OperationPart(K)' /\ FlowPart(K)'
  <2>1. CASE mco' = AtStep(mco, "WarnForcePush") /\ flow' = Idle
    <3>1. AtStep(mco, "WarnForcePush") \in Operations(K)
      BY AtSteps DEF Step, Typed, OperationPart
    <3> QED
      BY <2>1, <3>1 DEF OperationPart, FlowPart, Flows
  <2>2. CASE flow' = [flow EXCEPT !.at = "git"] /\ UNCHANGED mco
    <3>1. flow' \in [at : {"git", "continue", "merged"}, kind : K, to : Names, from : Names]
      BY <1>2, <2>2
    <3> QED
      BY <2>2, <3>1 DEF OperationPart, FlowPart, Flows, Typed
  <2> QED
    BY <2>1, <2>2 DEF Warned
<1> QED
  BY <1>1, <1>3, Unchanged DEF Typed

LEMMA BeginAnywayStep ==
  ASSUME NEW K, World(K), Typed(K), BeginAnyway
  PROVE  Typed(K)'
<1>1. /\ UNCHANGED <<tips, head, git, dirty, next, banner, forcePush, errors>>
      /\ UNCHANGED <<seen, load, cleanup, bound>>
  BY DEF BeginAnyway, repoVars
<1>2. mco \in Operations(K) /\ mco # NoOp
  BY DEF BeginAnyway, Typed, OperationPart
<1>3. mco.kind \in K /\ mco.target \in Names /\ mco.source \in Names /\ seen.tip \in Nat
  BY <1>2, OperationFacts, SeenFacts
<1>4. StackPart(K)' /\ OperationPart(K)' /\ FlowPart(K)' /\ UndoPart'
  <2>1. CASE mco.kind = "Rebase" /\ BeginRebase(mco.source, mco.target, TRUE)
    <3>1. /\ mco' = Op("Rebase", "ShowProgress", seen.tip, mco.target, mco.source)
          /\ flow' = FlowAt("git", "Rebase", mco.target, mco.source)
          /\ popups' = popups /\ undo' = undo
      BY <2>1 DEF BeginRebase
    <3>2. Op("Rebase", "ShowProgress", seen.tip, mco.target, mco.source) \in Operations(K)
      BY <1>3, <2>1, OpTyped DEF Step
    <3>3. FlowAt("git", "Rebase", mco.target, mco.source) \in Flows(K)
      BY <1>3, <2>1, FlowsTyped
    <3> QED
      BY <1>1, <3>1, <3>2, <3>3 DEF StackPart, OperationPart, FlowPart, UndoPart, Typed
  <2>2. CASE mco.kind \in {"Reorder", "Squash"} /\ BeginRewrite(mco.kind, TRUE, popups)
    <3>1. Stack(popups, K) /\ next' = next /\ mco.kind \in K \cap {"Reorder", "Squash"}
      BY <1>1, <1>3, <2>2 DEF Typed, StackPart
    <3>2. BeginRewrite(mco.kind, TRUE, popups)
      BY <2>2
    <3> HIDE DEF NoOp
    <3> QED
      BY <3>1, <3>2, RewriteBegins
  <2> QED
    BY <2>1, <2>2 DEF BeginAnyway
<1> QED
  BY <1>1, <1>4, Unchanged DEF Typed

LEMMA StashStep ==
  ASSUME NEW K, World(K), Typed(K), Stash
  PROVE  Typed(K)'
<1>1. /\ UNCHANGED <<popups, tips, head, git, next, mco, undo, banner, forcePush, errors>>
      /\ UNCHANGED <<seen, cleanup, bound>> /\ dirty' = FALSE
  BY DEF Stash, appVars
<1>2. LoadPart(K)' /\ DirtyPart'
  BY <1>1, LoadBegins DEF Stash, Loaders, DirtyPart
<1>3. FlowPart(K)'
  <2>1. Top(popups) \in Dialogs(K) /\ Top(popups).type = "LocalChangesOverwritten"
        /\ flow' = Top(popups).asker
    BY StackSteps DEF Stash, Typed, StackPart
  <2>2. Top(popups).asker \in Retries(K)
    BY <2>1 DEF Dialogs, Dialog, Popup
  <2> QED
    BY <2>1, <2>2 DEF FlowPart, Flows
<1> QED
  BY <1>1, <1>2, <1>3, Unchanged DEF Typed

LEMMA RetryStep ==
  ASSUME NEW K, World(K), Typed(K), Retry
  PROVE  Typed(K)'
<1> DEFINE under == ClosedType(popups, "LocalChangesOverwritten")
<1>1. /\ UNCHANGED <<tips, head, git, dirty, next, banner, forcePush, errors>>
      /\ UNCHANGED <<seen, load, cleanup, bound>>
  BY DEF Retry, repoVars
<1>2. flow \in Retries(K)
  BY FlowFacts DEF Retry, Typed, FlowPart
<1>3. Stack(under, K)
  BY StackSteps DEF Typed, StackPart
<1>4. StackPart(K)' /\ OperationPart(K)' /\ FlowPart(K)' /\ UndoPart'
  <2>1. CASE flow.kind = "CherryPick"
    <3>1. BeginCherryPick(mco, flow.to, flow.from, under)
      BY <2>1 DEF Retry
    <3>2. "CherryPick" \in K /\ flow.to \in Branches /\ flow.from \in Branches
      BY <1>2, <2>1 DEF Retries
    <3>3. mco \in Operations(K) /\ next' = next
      BY <1>1 DEF Typed, OperationPart
    <3> HIDE DEF under
    <3> QED
      BY <1>3, <3>1, <3>2, <3>3, CherryPickBegins
  <2>2. CASE flow.kind \in {"Reorder", "Squash"}
    <3>1. BeginRewrite(flow.kind, FALSE, under)
      BY <2>2 DEF Retry
    <3>2. flow.kind \in K \cap {"Reorder", "Squash"} /\ next' = next
      BY <1>1, <1>2, <2>2 DEF Retries
    <3> HIDE DEF under
    <3> QED
      BY <1>3, <3>1, <3>2, RewriteBegins
  <2>3. CASE flow.kind \notin {"CherryPick", "Reorder", "Squash"}
    <3>1. /\ popups' = under /\ mco' = mco /\ undo' = undo
          /\ flow' = [flow EXCEPT !.at = "git"] \/ flow' = Idle
      BY <2>3 DEF Retry
    <3>2. [flow EXCEPT !.at = "git"] \in [at : {"git", "continue", "merged"}, kind : K, to : Names, from : Names]
      BY <1>2, <2>3 DEF Retries
    <3>3. flow' \in Flows(K)
      BY <3>1, <3>2 DEF Flows
    <3> HIDE DEF under
    <3> QED
      BY <1>1, <1>3, <3>1, <3>3 DEF StackPart, OperationPart, FlowPart, UndoPart, Typed
  <2> QED
    BY <2>1, <2>2, <2>3
<1> QED
  BY <1>1, <1>4, Unchanged DEF Typed

-----------------------------------------------------------------------------
(* Git runs.                                                               *)
LEMMA ErrorsTyped ==
  ASSUME NEW K, Typed(K)
  PROVE  /\ \A kind \in K : flow.kind = kind /\ flow.to \in Names /\ flow.from \in Names
                              => Emitted(kind) \subseteq Dialogs(K) \cup {Triggered}
         /\ errors \cup {Popup("Error", Nobody)} \subseteq Dialogs(K) \cup {Triggered}
<1>1. errors \subseteq Dialogs(K) \cup {Triggered} /\ Popup("Error", Nobody) \in Dialogs(K)
  BY DialogIsOne DEF Typed, ErrorsPart
<1>2. ASSUME NEW kind \in K, flow.to \in Names, flow.from \in Names
      PROVE  Emitted(kind) \subseteq Dialogs(K) \cup {Triggered}
  <2>1. kind \in {"Rebase", "Merge"} => LocalChanges(kind, flow.to, flow.from) \in Dialogs(K)
    BY <1>2, FlowsTyped, RetryDialogs
  <2> QED
    BY <1>1, <2>1 DEF Emitted
<1> QED
  BY <1>1, <1>2

LEMMA ResultTyped ==
  ASSUME NEW K, World(K), NEW r, Result(r), FlowPart(K),
         \/ flow.at = "git" /\ flow.kind # "Merge"
              /\ r \in {"Completed", "Conflicts", "Error"} \cup (IF flow.kind = "Rebase" THEN {"UpToDate"} ELSE {})
         \/ flow.at = "continue" /\ flow.kind # "Merge"
              /\ r \in {"Completed", "Conflicts", "Error",
                        IF flow.kind = "CherryPick" THEN "UnableToStart" ELSE "Aborted"}
  PROVE  FlowPart(K)'
<1>1. flow \in [at : {"git", "continue", "merged"}, kind : K, to : Names, from : Names]
  BY FlowFacts DEF FlowPart
<1>2. K \subseteq Kinds
  BY WorldFacts
<1>3. CASE flow.kind = "CherryPick"
  <2>1. flow' = [at |-> "picked", kind |-> flow.kind, to |-> flow.to, from |-> flow.from, result |-> r]
    BY <1>3 DEF Result
  <2> QED
    BY <1>1, <1>3, <2>1 DEF FlowPart, Flows
<1>4. CASE flow.kind = "Rebase" /\ flow.at = "git"
  <2>1. flow' = [at |-> "rebased", kind |-> flow.kind, to |-> flow.to, from |-> flow.from, result |-> r]
    BY <1>4 DEF Result
  <2> QED
    BY <1>1, <1>4, <2>1 DEF FlowPart, Flows
<1>5. CASE flow.kind # "CherryPick" /\ ~(flow.kind = "Rebase" /\ flow.at = "git")
  <2>1. flow' = [at |-> "process", kind |-> flow.kind, to |-> flow.to, from |-> flow.from, result |-> r]
    BY <1>5 DEF Result
  <2>2. flow.kind \in K \cap Rewriting
    BY <1>1, <1>2, <1>5 DEF Kinds
  <2>3. r \in {"Completed", "Conflicts", "Aborted", "Error"}
    BY <1>5
  <2> QED
    BY <1>1, <2>1, <2>2, <2>3 DEF FlowPart, Flows
<1> QED
  BY <1>3, <1>4, <1>5

LEMMA RunGitStep ==
  ASSUME NEW K, World(K), Typed(K), RunGit
  PROVE  Typed(K)'
<1>1. /\ UNCHANGED <<popups, mco, undo, banner, forcePush, seen, cleanup, bound>>
      /\ flow.at = "git" /\ flow.kind # "Merge" /\ Loading("flow")
  BY DEF RunGit
<1>2. flow \in [at : {"git", "continue", "merged"}, kind : K, to : Names, from : Names] /\ FlowPart(K)
  BY <1>1, FlowFacts DEF Typed, FlowPart
<1>3. flow.kind \in K /\ flow.to \in Names /\ flow.from \in Names
  BY <1>2
<1>4. next' \in {next, next + 1} /\ TipsPart' /\ DirtyPart' /\ GitPart(K)'
  <2>1. GitCommits(flow.kind) \/ GitForwards \/ GitConflicts(flow.kind) \/ GitFails
    BY DEF RunGit
  <2> QED
    BY <1>3, <2>1, GitSteps
<1>5. FlowPart(K)'
  <2>1. PICK r \in {"Completed", "Conflicts", "Error"} \cup (IF flow.kind = "Rebase" THEN {"UpToDate"} ELSE {}) :
          Result(r)
    BY DEF RunGit
  <2> QED
    BY <1>1, <1>2, <2>1, ResultTyped
<1>6. ErrorsPart(K)'
  <2>1. errors' = errors \/ errors' = Emitted(flow.kind)
    BY DEF RunGit
  <2> QED
    BY <1>3, <2>1, ErrorsTyped DEF Typed, ErrorsPart
<1>7. LoadPart(K)'
  BY <1>1, <1>4, LoadBegins DEF Loaders
<1> QED
  BY <1>1, <1>4, <1>5, <1>6, <1>7, Unchanged DEF Typed

LEMMA RunMergeStep ==
  ASSUME NEW K, World(K), Typed(K), RunMerge
  PROVE  Typed(K)'
<1>1. /\ UNCHANGED <<popups, undo, forcePush, seen, cleanup, bound>>
      /\ flow.at = "git" /\ flow.kind = "Merge" /\ Loading("flow") /\ flow' = Idle
  BY DEF RunMerge
<1>2. flow \in [at : {"git", "continue", "merged"}, kind : K, to : Names, from : Names]
  BY <1>1, FlowFacts DEF Typed, FlowPart
<1>3. "Merge" \in K /\ flow.to \in Names /\ flow.from \in Names
  BY <1>1, <1>2
<1>4. next' \in {next, next + 1} /\ TipsPart' /\ DirtyPart' /\ GitPart(K)'
  <2>1. GitCommits("Merge") \/ GitConflicts("Merge") \/ GitFails
    BY DEF RunMerge
  <2> QED
    BY <1>3, <2>1, GitSteps
<1>5. FlowPart(K)'
  BY <1>1 DEF FlowPart, Flows
<1>6. ErrorsPart(K)'
  <2>1. errors' = errors \/ errors' = Emitted("Merge")
    BY DEF RunMerge
  <2> QED
    BY <1>1, <1>3, <2>1, ErrorsTyped DEF Typed, ErrorsPart
<1>7. LoadPart(K)'
  BY <1>1, <1>4, LoadBegins DEF Loaders
<1>8. OperationPart(K)' /\ BannerPart(K)'
  <2>1. \/ UNCHANGED <<mco, banner>>
        \/ mco' = NoOp /\ banner' = [type |-> "Success", kind |-> "Merge"]
    BY DEF RunMerge
  <2> QED
    BY <2>1 DEF Typed, OperationPart, BannerPart, Operations, Banners
<1> QED
  BY <1>1, <1>4, <1>5, <1>6, <1>7, <1>8, Unchanged DEF Typed

LEMMA RunCheckoutStep ==
  ASSUME NEW K, World(K), Typed(K), RunCheckout
  PROVE  Typed(K)'
<1>1. /\ UNCHANGED <<popups, tips, git, dirty, next, undo, banner, forcePush, seen, cleanup, bound>>
      /\ flow.at = "checkout"
  BY DEF RunCheckout
<1>2. flow \in [at : {"checkout"}, kind : K \cap {"CherryPick"}, to : Branches, from : Branches]
  BY <1>1, FlowFacts DEF Typed, FlowPart
<1>3. LoadPart(K) /\ OperationPart(K) /\ TipsPart /\ ErrorsPart(K)
  BY DEF Typed
<1>4. CASE head' = flow.to /\ flow' = [flow EXCEPT !.at = "git"] /\ Loading("flow") /\ UNCHANGED <<mco, errors>>
  <2>1. flow' \in [at : {"git", "continue", "merged"}, kind : K, to : Names, from : Names]
    BY <1>2, <1>4 DEF Names
  <2>2. FlowPart(K)'
    BY <2>1 DEF FlowPart, Flows
  <2>3. TipsPart'
    BY <1>1, <1>2, <1>3, <1>4 DEF TipsPart
  <2>4. LoadPart(K)'
    BY <1>1, <1>4, LoadBegins DEF Loaders
  <2> QED
    BY <1>1, <1>4, <2>2, <2>3, <2>4, Unchanged DEF Typed
<1>5. CASE CheckoutFails /\ UNCHANGED <<head, load>>
  <2>1. errors' \subseteq Dialogs(K) \cup {Triggered} /\ mco' = NoOp /\ flow' = Idle
    BY <1>5, ErrorsTyped DEF CheckoutFails
  <2>2. ErrorsPart(K)' /\ OperationPart(K)' /\ FlowPart(K)'
    BY <2>1 DEF ErrorsPart, OperationPart, FlowPart, Operations, Flows
  <2> QED
    BY <1>1, <1>5, <2>2, Unchanged DEF Typed
<1> QED
  BY <1>4, <1>5 DEF RunCheckout

-----------------------------------------------------------------------------
(* The result of Git is looked at.                                         *)
LEMMA ConflictFlowTyped ==
  ASSUME NEW K, Typed(K), ConflictFlow
  PROVE  StackPart(K)' /\ OperationPart(K)'
<1>1. Stack(Added(popups, Dialog), K) /\ Stack(popups, K)
  BY StackSteps, DialogIsOne DEF Typed, StackPart
<1>2. AtStep(mco, "ShowConflicts") \in Operations(K) /\ NoOp \in Operations(K)
  BY AtSteps DEF Step, Typed, OperationPart, Operations
<1> QED
  BY <1>1, <1>2 DEF ConflictFlow, StackPart, OperationPart

LEMMA ForcePushTyped ==
  ASSUME NEW K, Typed(K)
  PROVE  /\ ForcePushList(mco) \in [Branches -> 0..(next - 1)]
         /\ TipValid => [forcePush EXCEPT ![seen.on] = seen.tip] \in [Branches -> 0..(next - 1)]
<1>1. forcePush \in [Branches -> 0..(next - 1)] /\ seen.tip \in 0..(next - 1)
  BY SeenFacts DEF Typed, ForcePart, Shas, NextPart
<1>2. TipValid => [forcePush EXCEPT ![seen.on] = seen.tip] \in [Branches -> 0..(next - 1)]
  BY <1>1 DEF TipValid
<1> QED
  BY <1>1, <1>2 DEF ForcePushList

LEMMA CompleteTyped ==
  ASSUME NEW K, Typed(K), Complete, next' = next
  PROVE  StackPart(K)' /\ OperationPart(K)' /\ BannerPart(K)' /\ ForcePart' /\ LoadPart(K)'
<1>1. StackPart(K)'
  BY StackSteps DEF Complete, StackPart, Typed
<1>2. CASE mco = NoOp \/ mco.kind = "Merge"
  <2>1. UNCHANGED <<mco, banner, forcePush, load>>
    BY <1>2 DEF Complete
  <2> QED
    BY <1>1, <2>1, Unchanged
<1>3. CASE mco # NoOp /\ mco.kind # "Merge"
  <2>1. /\ banner' = [type |-> "Success", kind |-> mco.kind, source |-> mco.source]
        /\ forcePush' = ForcePushList(mco) /\ mco' = NoOp /\ Loading("flow")
    BY <1>3 DEF Complete
  <2>2. mco.kind \in K /\ mco.source \in Names
    BY <1>3, OperationFacts DEF Typed, OperationPart
  <2>3. BannerPart(K)'
    BY <2>1, <2>2 DEF BannerPart, Banners
  <2>4. ForcePart'
    BY <2>1, ForcePushTyped DEF ForcePart
  <2>5. LoadPart(K)'
    BY <2>1, LoadBegins DEF Loaders
  <2> QED
    BY <1>1, <2>1, <2>3, <2>4, <2>5 DEF OperationPart, Operations
<1> QED
  BY <1>2, <1>3

LEMMA NoteTyped ==
  ASSUME NEW K, Typed(K), NoteCovered
  PROVE  BoundPart(K)'
BY DEF NoteCovered, Typed, BoundPart, Bounds

LEMMA RebasedStep ==
  ASSUME NEW K, World(K), Typed(K), Rebased
  PROVE  Typed(K)'
<1>1. /\ UNCHANGED <<tips, head, git, dirty, next, undo, errors, seen, cleanup>>
      /\ flow.at = "rebased" /\ flow' = Idle /\ NoteCovered
  BY DEF Rebased, repoVars
<1>2. flow.result \in {"Completed", "Conflicts", "UpToDate", "Error"}
  BY <1>1, FlowFacts DEF Typed, FlowPart
<1>3. BoundPart(K)' /\ FlowPart(K)'
  BY <1>1, NoteTyped DEF FlowPart, Flows
<1>4. StackPart(K)' /\ OperationPart(K)' /\ BannerPart(K)' /\ ForcePart' /\ LoadPart(K)'
  <2>1. CASE flow.result = "Conflicts"
    <3>1. /\ ConflictFlow \/ UNCHANGED <<popups, mco>>
          /\ UNCHANGED <<banner, forcePush, load>>
      BY <2>1 DEF Rebased
    <3> QED
      BY <1>1, <3>1, ConflictFlowTyped, Unchanged
  <2>2. CASE flow.result = "Completed"
    <3>1. Complete \/ UNCHANGED <<popups, mco, banner, forcePush, load>>
      BY <2>2 DEF Rebased
    <3> QED
      BY <1>1, <3>1, CompleteTyped, Unchanged
  <2>3. CASE flow.result = "UpToDate"
    <3>1. /\ \/ /\ banner' = [type |-> "Success", kind |-> "UpToDate"]
                /\ mco' = NoOp /\ Loading("flow")
             \/ UNCHANGED <<mco, banner, load>>
          /\ UNCHANGED <<popups, forcePush>>
      BY <2>3 DEF Rebased
    <3>2. CASE banner' = [type |-> "Success", kind |-> "UpToDate"] /\ mco' = NoOp /\ Loading("flow")
      <4>1. LoadPart(K)'
        BY <1>1, <3>2, LoadBegins DEF Loaders
      <4>2. BannerPart(K)' /\ OperationPart(K)'
        BY <3>2 DEF BannerPart, Banners, OperationPart, Operations
      <4> QED
        BY <1>1, <3>1, <4>1, <4>2, Unchanged
    <3>3. CASE UNCHANGED <<mco, banner, load>>
      BY <1>1, <3>1, <3>3, Unchanged
    <3> QED
      BY <3>1, <3>2, <3>3
  <2>4. CASE flow.result = "Error"
    <3>1. mco' = NoOp /\ UNCHANGED <<popups, banner, forcePush, load>>
      BY <2>4 DEF Rebased
    <3>2. OperationPart(K)'
      BY <3>1 DEF OperationPart, Operations
    <3> QED
      BY <1>1, <3>1, <3>2, Unchanged
  <2> QED
    BY <1>2, <2>1, <2>2, <2>3, <2>4
<1> QED
  BY <1>1, <1>3, <1>4, Unchanged DEF Typed

LEMMA ProcessStep ==
  ASSUME NEW K, World(K), Typed(K), Process
  PROVE  Typed(K)'
<1>1. /\ UNCHANGED <<tips, head, git, dirty, next, undo, errors, seen, cleanup>>
      /\ flow.at = "process" /\ NoteCovered
  BY DEF Process, repoVars
<1>2. flow \in [at : {"process", "conflicts"}, kind : K \cap Rewriting, to : Names, from : Names,
                result : {"Completed", "Conflicts", "Aborted", "Error"}]
  BY <1>1, FlowFacts DEF Typed, FlowPart
<1>3. BoundPart(K)'
  BY <1>1, NoteTyped
<1>4. /\ StackPart(K)' /\ OperationPart(K)' /\ BannerPart(K)' /\ ForcePart' /\ LoadPart(K)'
      /\ FlowPart(K)'
  <2>1. CASE flow.result = "Completed"
    <3>1. Complete /\ flow' = Idle
      BY <2>1 DEF Process
    <3> QED
      BY <1>1, <3>1, CompleteTyped DEF FlowPart, Flows
  <2>2. CASE flow.result = "Conflicts"
    <3>1. /\ flow' = [flow EXCEPT !.at = "conflicts"] /\ Loading("flow")
          /\ UNCHANGED <<popups, mco, banner, forcePush>>
      BY <2>2 DEF Process
    <3>2. flow' \in [at : {"process", "conflicts"}, kind : K \cap Rewriting, to : Names, from : Names,
                     result : {"Completed", "Conflicts", "Aborted", "Error"}]
      BY <1>2, <3>1
    <3>3. FlowPart(K)'
      BY <3>2 DEF FlowPart, Flows
    <3>4. LoadPart(K)'
      BY <1>1, <3>1, LoadBegins DEF Loaders
    <3> QED
      BY <1>1, <3>1, <3>3, <3>4, Unchanged
  <2>3. CASE flow.result \notin {"Completed", "Conflicts"}
    <3>1. /\ popups' = ClosedTop(popups) /\ flow' = Idle
          /\ UNCHANGED <<mco, banner, forcePush, load>>
      BY <2>3 DEF Process
    <3>2. StackPart(K)' /\ FlowPart(K)'
      BY <3>1, StackSteps DEF StackPart, Typed, FlowPart, Flows
    <3> QED
      BY <1>1, <3>1, <3>2, Unchanged
  <2> QED
    BY <2>1, <2>2, <2>3
<1> QED
  BY <1>1, <1>3, <1>4, Unchanged DEF Typed

LEMMA ConflictsStep ==
  ASSUME NEW K, World(K), Typed(K), Conflicts
  PROVE  Typed(K)'
<1>1. /\ UNCHANGED <<tips, head, git, dirty, next, undo, errors, seen, cleanup>>
      /\ UNCHANGED <<banner, forcePush, load, bound>> /\ flow' = Idle /\ ConflictFlow
  BY DEF Conflicts, repoVars
<1>2. StackPart(K)' /\ OperationPart(K)' /\ FlowPart(K)'
  BY <1>1, ConflictFlowTyped DEF FlowPart, Flows
<1> QED
  BY <1>1, <1>2, Unchanged DEF Typed

LEMMA PickedStep ==
  ASSUME NEW K, World(K), Typed(K), Picked
  PROVE  Typed(K)'
<1>1. /\ UNCHANGED <<tips, head, git, dirty, next, undo, errors, seen>>
      /\ flow.at = "picked" /\ NoteCovered /\ flow' = Idle
  BY DEF Picked, repoVars
<1>2. flow \in [at : {"picked"}, kind : K \cap {"CherryPick"}, to : Names, from : Names,
                result : {"Completed", "Conflicts", "UnableToStart", "Error"}]
  BY <1>1, FlowFacts DEF Typed, FlowPart
<1>3. BoundPart(K)' /\ FlowPart(K)'
  BY <1>1, NoteTyped DEF FlowPart, Flows
<1>4. /\ StackPart(K)' /\ OperationPart(K)' /\ BannerPart(K)' /\ ForcePart' /\ LoadPart(K)'
      /\ CleanupPart(K)'
  <2>1. CASE flow.result = "Completed"
    <3>1. Complete /\ UNCHANGED cleanup
      BY <2>1 DEF Picked
    <3> QED
      BY <1>1, <3>1, CompleteTyped, Unchanged
  <2>2. CASE flow.result \in {"Conflicts", "UnableToStart"}
    <3>1. /\ mco' = AtStep(mco, "ShowConflicts") \/ mco' = NoOp
          /\ UNCHANGED <<popups, banner, forcePush, load, cleanup>>
      BY <2>2 DEF Picked
    <3>2. OperationPart(K)'
      BY <3>1, AtSteps DEF Step, Typed, OperationPart, Operations
    <3> QED
      BY <1>1, <3>1, <3>2, Unchanged
  <2>3. CASE flow.result = "Error"
    <3>1. /\ cleanup' = [at |-> "abort", kind |-> "ClearHead", source |-> flow.from]
          /\ mco' = NoOp /\ popups' = ClosedTop(popups)
          /\ UNCHANGED <<banner, forcePush, load>>
      BY <2>3 DEF Picked
    <3>2. StackPart(K)' /\ OperationPart(K)'
      BY <3>1, StackSteps DEF StackPart, Typed, OperationPart, Operations
    <3>3. "ClearHead" \in Aborts(K) /\ flow.from \in Names
      BY <1>2 DEF Aborts
    <3>4. CleanupPart(K)'
      BY <3>1, <3>3 DEF CleanupPart, Cleanups
    <3> QED
      BY <1>1, <3>1, <3>2, <3>4, Unchanged
  <2> QED
    BY <1>2, <2>1, <2>2, <2>3
<1> QED
  BY <1>1, <1>3, <1>4, Unchanged DEF Typed

-----------------------------------------------------------------------------
(* The dialog about conflicts.                                             *)
LEMMA ContinueStep ==
  ASSUME NEW K, World(K), Typed(K), Continue
  PROVE  Typed(K)'
<1>1. /\ UNCHANGED <<popups, tips, head, git, dirty, next, undo, banner, forcePush, errors>>
      /\ UNCHANGED <<seen, load, cleanup, bound>>
      /\ mco # NoOp /\ flow' = FlowAt("continue", mco.kind, mco.target, mco.source)
      /\ mco' = AtStep(mco, "ShowProgress") \/ mco' = mco
  BY DEF Continue, InDialog, repoVars
<1>2. mco \in Operations(K)
  BY DEF Typed, OperationPart
<1>3. FlowPart(K)'
  BY <1>1, <1>2, OperationFacts, FlowsTyped DEF FlowPart
<1>4. OperationPart(K)'
  BY <1>1, <1>2, AtSteps DEF OperationPart, Step
<1> QED
  BY <1>1, <1>3, <1>4, Unchanged DEF Typed

LEMMA RunContinueStep ==
  ASSUME NEW K, World(K), Typed(K), RunContinue
  PROVE  Typed(K)'
<1>1. /\ UNCHANGED <<popups, mco, undo, banner, forcePush, seen, cleanup>>
      /\ flow.at = "continue" /\ flow.kind # "Merge" /\ Loading("flow")
  BY DEF RunContinue
<1>2. flow \in [at : {"git", "continue", "merged"}, kind : K, to : Names, from : Names] /\ FlowPart(K)
  BY <1>1, FlowFacts DEF Typed, FlowPart
<1>3. flow.kind \in K
  BY <1>2
<1>4. next' \in {next, next + 1} /\ TipsPart' /\ DirtyPart' /\ GitPart(K)'
  <2>1. GitCommits(flow.kind) \/ UNCHANGED repoVars
    BY DEF RunContinue
  <2> QED
    BY <1>3, <2>1, GitSteps
<1>5. FlowPart(K)'
  <2>1. PICK r \in {"Completed", "Conflicts", "Error",
                    IF flow.kind = "CherryPick" THEN "UnableToStart" ELSE "Aborted"} : Result(r)
    BY DEF RunContinue
  <2> QED
    BY <1>1, <1>2, <2>1, ResultTyped
<1>6. ErrorsPart(K)'
  <2>1. errors' = errors \/ errors' = errors \cup {Popup("Error", Nobody)}
    BY DEF RunContinue
  <2> QED
    BY <2>1, ErrorsTyped DEF Typed, ErrorsPart
<1>7. LoadPart(K)'
  BY <1>1, <1>4, LoadBegins DEF Loaders
<1>8. BoundPart(K)'
  <2>1. bound' = bound \/ bound' = [bound EXCEPT !.disturbed = @ \/ git.op = "rebase" \/ flow.kind = "CherryPick"]
    BY DEF RunContinue
  <2> QED
    BY <2>1 DEF Typed, BoundPart, Bounds
<1> QED
  BY <1>1, <1>4, <1>5, <1>6, <1>7, <1>8, Unchanged DEF Typed

LEMMA FinishMergeStep ==
  ASSUME NEW K, World(K), Typed(K), FinishMerge
  PROVE  Typed(K)'
<1>1. /\ UNCHANGED <<popups, mco, undo, forcePush, seen, cleanup, bound>>
      /\ flow.at = "continue" /\ flow.kind = "Merge" /\ Loading("flow")
      /\ flow' = [flow EXCEPT !.at = "merged"]
  BY DEF FinishMerge
<1>2. flow \in [at : {"git", "continue", "merged"}, kind : K, to : Names, from : Names]
  BY <1>1, FlowFacts DEF Typed, FlowPart
<1>3. "Merge" \in K
  BY <1>1, <1>2
<1>4. next' \in {next, next + 1} /\ TipsPart' /\ DirtyPart' /\ GitPart(K)'
  <2>1. GitCommits("Merge") \/ UNCHANGED repoVars
    BY DEF FinishMerge
  <2> QED
    BY <1>3, <2>1, GitSteps
<1>5. FlowPart(K)'
  <2>1. flow' \in [at : {"git", "continue", "merged"}, kind : K, to : Names, from : Names]
    BY <1>1, <1>2
  <2> QED
    BY <2>1 DEF FlowPart, Flows
<1>6. ErrorsPart(K)'
  <2>1. errors' = errors \/ errors' = errors \cup {Popup("Error", Nobody)}
    BY DEF FinishMerge
  <2> QED
    BY <2>1, ErrorsTyped DEF Typed, ErrorsPart
<1>7. LoadPart(K)'
  BY <1>1, <1>4, LoadBegins DEF Loaders
<1>8. BannerPart(K)'
  <2>1. banner' = banner \/ banner' = [type |-> "Success", kind |-> "Merge"]
    BY DEF FinishMerge
  <2> QED
    BY <2>1 DEF Typed, BannerPart, Banners
<1> QED
  BY <1>1, <1>4, <1>5, <1>6, <1>7, <1>8, Unchanged DEF Typed

LEMMA MergedStep ==
  ASSUME NEW K, World(K), Typed(K), Merged
  PROVE  Typed(K)'
<1>1. /\ UNCHANGED <<tips, head, git, dirty, next, undo, banner, forcePush, errors>>
      /\ UNCHANGED <<seen, load, cleanup, bound>>
      /\ popups' = ClosedType(popups, "MultiCommitOperation") /\ mco' = NoOp /\ flow' = Idle
  BY DEF Merged, repoVars
<1>2. StackPart(K)' /\ OperationPart(K)' /\ FlowPart(K)'
  BY <1>1, StackSteps DEF Typed, StackPart, OperationPart, FlowPart, Operations, Flows
<1> QED
  BY <1>1, <1>2, Unchanged DEF Typed

LEMMA DismissStep ==
  ASSUME NEW K, World(K), Typed(K), Dismiss
  PROVE  Typed(K)'
<1>1. /\ UNCHANGED <<tips, head, git, dirty, next, undo, forcePush, errors>>
      /\ UNCHANGED <<seen, load, flow, cleanup, bound>>
      /\ popups' = ClosedType(popups, "MultiCommitOperation")
      /\ \/ mco' = NoOp /\ UNCHANGED banner
         \/ mco' = AtStep(mco, "HideConflicts") /\ banner' = ConflictsFound
  BY DEF Dismiss, repoVars
<1>2. StackPart(K)' /\ BannerPart(K)'
  BY <1>1, StackSteps DEF Typed, StackPart, BannerPart, Banners
<1>3. OperationPart(K)'
  BY <1>1, AtSteps DEF Typed, OperationPart, Operations, Step
<1> QED
  BY <1>1, <1>2, <1>3, Unchanged DEF Typed

LEMMA OpenConflictsStep ==
  ASSUME NEW K, World(K), Typed(K), OpenConflicts
  PROVE  Typed(K)'
<1>1. /\ UNCHANGED <<tips, head, git, dirty, next, undo, forcePush, errors>>
      /\ UNCHANGED <<seen, load, flow, cleanup, bound>> /\ banner' = NoBanner
      /\ \/ UNCHANGED <<popups, mco>>
         \/ mco' = AtStep(mco, "ShowConflicts") /\ popups' = Added(popups, Dialog)
  BY DEF OpenConflicts, repoVars
<1>2. Stack(popups, K) /\ Stack(Added(popups, Dialog), K)
  BY StackSteps, DialogIsOne DEF Typed, StackPart
<1>3. StackPart(K)' /\ BannerPart(K)'
  BY <1>1, <1>2 DEF StackPart, BannerPart, Banners
<1>4. AtStep(mco, "ShowConflicts") \in Operations(K) /\ mco \in Operations(K)
  BY AtSteps DEF Typed, OperationPart, Step
<1>5. OperationPart(K)'
  BY <1>1, <1>4 DEF OperationPart
<1> QED
  BY <1>1, <1>3, <1>5, Unchanged DEF Typed

LEMMA AbortQuestionStep ==
  ASSUME NEW K, World(K), Typed(K), AskAbort \/ ReturnToConflicts
  PROVE  Typed(K)'
<1>1. /\ UNCHANGED <<popups, tips, head, git, dirty, next, undo, banner, forcePush, errors>>
      /\ UNCHANGED <<seen, load, flow, cleanup, bound>>
      /\ mco' = AtStep(mco, "ConfirmAbort") \/ mco' = AtStep(mco, "ShowConflicts")
  BY DEF AskAbort, ReturnToConflicts, repoVars
<1>2. OperationPart(K)'
  BY <1>1, AtSteps DEF Typed, OperationPart, Step
<1> QED
  BY <1>1, <1>2, Unchanged DEF Typed

LEMMA AbortStep ==
  ASSUME NEW K, World(K), Typed(K), Abort
  PROVE  Typed(K)'
<1>1. /\ UNCHANGED <<tips, head, git, dirty, next, undo, banner, forcePush, errors>>
      /\ UNCHANGED <<seen, load, flow, bound>> /\ mco # NoOp /\ mco' = NoOp
      /\ popups' = ClosedType(popups, "MultiCommitOperation")
      /\ cleanup' = [at |-> "abort", kind |-> mco.kind, source |-> mco.source]
  BY DEF Abort, InDialog, repoVars
<1>2. StackPart(K)' /\ OperationPart(K)'
  BY <1>1, StackSteps DEF Typed, StackPart, OperationPart, Operations
<1>3. mco.kind \in Aborts(K) /\ mco.source \in Names
  BY <1>1, OperationFacts DEF Typed, OperationPart, Aborts
<1>4. CleanupPart(K)'
  BY <1>1, <1>3 DEF CleanupPart, Cleanups
<1> QED
  BY <1>1, <1>2, <1>4, Unchanged DEF Typed

-----------------------------------------------------------------------------
(* Abort, clean-up and undo.                                               *)
LEMMA CleanupFacts ==
  ASSUME NEW K, NEW n, NEW c \in Cleanups(K, n)
  PROVE  /\ c.at = "abort" => c \in [at : {"abort"}, kind : Aborts(K), source : Names]
         /\ c.at = "reset" =>
              c \in [at : {"reset"}, kind : {"Undo"}, of : K \cap Undoable, sha : Shas(n), was : Nat, source : Names]
         /\ c.at = "undone" =>
              c \in [at : {"undone"}, kind : {"Undo"}, of : K \cap Undoable, sha : Shas(n), was : Nat, source : Names]
         /\ c.at = "checkout" =>
              \/ c \in [at : {"checkout"}, kind : Aborts(K) \cap {"CherryPick", "ClearHead"}, source : Branches]
              \/ c \in [at : {"checkout"}, kind : {"Undo"}, of : K \cap {"CherryPick"}, sha : Shas(n),
                        was : Nat, source : Branches]
<1>1. c.at = "abort" => c \in [at : {"abort"}, kind : Aborts(K), source : Names]
  BY DEF Cleanups, Idle
<1>2. c.at = "reset" =>
        c \in [at : {"reset"}, kind : {"Undo"}, of : K \cap Undoable, sha : Shas(n), was : Nat, source : Names]
  BY DEF Cleanups, Idle
<1>3. c.at = "undone" =>
        c \in [at : {"undone"}, kind : {"Undo"}, of : K \cap Undoable, sha : Shas(n), was : Nat, source : Names]
  BY DEF Cleanups, Idle
<1>4. c.at = "checkout" =>
        \/ c \in [at : {"checkout"}, kind : Aborts(K) \cap {"CherryPick", "ClearHead"}, source : Branches]
        \/ c \in [at : {"checkout"}, kind : {"Undo"}, of : K \cap {"CherryPick"}, sha : Shas(n),
                  was : Nat, source : Branches]
  BY DEF Cleanups, Idle
<1> QED
  BY <1>1, <1>2, <1>3, <1>4

LEMMA RunAbortStep ==
  ASSUME NEW K, World(K), Typed(K), RunAbort
  PROVE  Typed(K)'
<1>1. /\ UNCHANGED <<popups, mco, undo, banner, forcePush, seen, flow, bound>>
      /\ cleanup.at = "abort"
      /\ GitAborts \/ UNCHANGED repoVars
      /\ errors' = errors \/ errors' = errors \cup {Popup("Error", Nobody)}
  BY DEF RunAbort
<1>2. cleanup \in [at : {"abort"}, kind : Aborts(K), source : Names]
  BY <1>1, CleanupFacts DEF Typed, CleanupPart
<1>3. next' = next
  BY <1>1 DEF GitAborts, repoVars
<1>4. TipsPart' /\ DirtyPart' /\ GitPart(K)'
  BY <1>1, WorldFacts, GitSteps
<1>5. ErrorsPart(K)'
  BY <1>1, ErrorsTyped DEF Typed, ErrorsPart
<1>6. K \subseteq Kinds
  BY WorldFacts
<1>7. CASE AbortOf(cleanup.kind) = "cherryPick" /\ cleanup.source # NoBranch
  <2>1. cleanup' = [cleanup EXCEPT !.at = "checkout"] /\ UNCHANGED load
    BY <1>7 DEF RunAbort
  <2>2. cleanup.kind \in {"CherryPick", "ClearHead"}
    BY <1>2, <1>6, <1>7 DEF AbortOf, GitOp, Aborts, Kinds, Rewriting
  <2>3. cleanup.source \in Branches
    BY <1>2, <1>7 DEF Names
  <2>4. CleanupPart(K)'
    BY <1>2, <2>1, <2>2, <2>3 DEF CleanupPart, Cleanups
  <2> QED
    BY <1>1, <1>3, <1>4, <1>5, <2>1, <2>4, Unchanged DEF Typed
<1>8. CASE ~(AbortOf(cleanup.kind) = "cherryPick" /\ cleanup.source # NoBranch)
  <2>1. cleanup' = [cleanup EXCEPT !.at = "aborted"] /\ Loading("cleanup")
    BY <1>8 DEF RunAbort
  <2>2. CleanupPart(K)'
    BY <1>2, <2>1 DEF CleanupPart, Cleanups
  <2>3. LoadPart(K)'
    BY <1>3, <2>1, LoadBegins DEF Loaders
  <2> QED
    BY <1>1, <1>3, <1>4, <1>5, <2>2, <2>3, Unchanged DEF Typed
<1> QED
  BY <1>7, <1>8

LEMMA BackToSourceStep ==
  ASSUME NEW K, World(K), Typed(K), BackToSource
  PROVE  Typed(K)'
<1>1. /\ UNCHANGED <<popups, tips, git, dirty, next, mco, undo, forcePush, seen, flow, bound>>
      /\ cleanup.at = "checkout" /\ Loading("cleanup")
      /\ head' = cleanup.source \/ head' = head
      /\ errors' = errors \/ errors' = errors \cup {Popup("Error", Nobody)}
      /\ cleanup' = [cleanup EXCEPT !.at = IF cleanup.kind = "Undo" THEN "undone" ELSE "aborted"]
      /\ banner' = [type |-> "Undone"] \/ banner' = banner
  BY DEF BackToSource
<1>2. \/ cleanup \in [at : {"checkout"}, kind : Aborts(K) \cap {"CherryPick", "ClearHead"}, source : Branches]
      \/ cleanup \in [at : {"checkout"}, kind : {"Undo"}, of : K \cap {"CherryPick"}, sha : Shas(next),
                      was : Nat, source : Branches]
  BY <1>1, CleanupFacts DEF Typed, CleanupPart
<1>3. cleanup.source \in Branches
  BY <1>2
<1>4. TipsPart'
  BY <1>1, <1>3 DEF Typed, TipsPart
<1>5. ErrorsPart(K)' /\ BannerPart(K)'
  BY <1>1, ErrorsTyped DEF Typed, ErrorsPart, BannerPart, Banners
<1>6. CleanupPart(K)'
  <2>1. CASE cleanup \in [at : {"checkout"}, kind : Aborts(K) \cap {"CherryPick", "ClearHead"}, source : Branches]
    <3>1. cleanup' = [cleanup EXCEPT !.at = "aborted"]
      BY <1>1, <2>1
    <3>2. cleanup' \in [at : {"abort", "aborted"}, kind : Aborts(K), source : Names]
      BY <2>1, <3>1 DEF Names
    <3> QED
      BY <3>2 DEF CleanupPart, Cleanups
  <2>2. CASE cleanup \in [at : {"checkout"}, kind : {"Undo"}, of : K \cap {"CherryPick"}, sha : Shas(next),
                          was : Nat, source : Branches]
    <3>1. cleanup' = [cleanup EXCEPT !.at = "undone"]
      BY <1>1, <2>2
    <3>2. cleanup' \in [at : {"reset", "undone"}, kind : {"Undo"}, of : K \cap Undoable, sha : Shas(next), was : Nat, source : Names]
      BY <2>2, <3>1 DEF Names, Undoable
    <3> QED
      BY <1>1, <3>2 DEF CleanupPart, Cleanups
  <2> QED
    BY <1>2, <2>1, <2>2
<1>7. LoadPart(K)'
  BY <1>1, LoadBegins DEF Loaders
<1> QED
  BY <1>1, <1>4, <1>5, <1>6, <1>7, Unchanged DEF Typed

LEMMA AbortedStep ==
  ASSUME NEW K, World(K), Typed(K), Aborted
  PROVE  Typed(K)'
<1>1. /\ UNCHANGED <<popups, tips, head, git, dirty, next, undo, banner, forcePush, errors>>
      /\ UNCHANGED <<seen, load, flow, bound>> /\ cleanup' = Idle
      /\ mco' = NoOp \/ mco' = mco
  BY DEF Aborted, repoVars
<1>2. OperationPart(K)' /\ CleanupPart(K)'
  BY <1>1 DEF Typed, OperationPart, Operations, CleanupPart, Cleanups
<1> QED
  BY <1>1, <1>2, Unchanged DEF Typed

LEMMA UndoStep ==
  ASSUME NEW K, World(K), Typed(K), Undo
  PROVE  Typed(K)'
<1>1. /\ UNCHANGED <<popups, tips, head, git, dirty, next, mco, undo, forcePush, errors>>
      /\ UNCHANGED <<seen, load, flow, bound>> /\ banner' = NoBanner
      /\ banner.type = "Success" /\ banner.kind \in {"Squash", "Reorder", "CherryPick"}
      /\ cleanup' = IF undo.branch # NoBranch /\ ~seen.files /\ seen.on = undo.branch
                    THEN [at |-> "reset", kind |-> "Undo", of |-> banner.kind, sha |-> undo.sha,
                          was |-> seen.tip, source |-> banner.source]
                    ELSE Idle
  BY DEF Undo, repoVars
<1>2. BannerPart(K)'
  BY <1>1 DEF BannerPart, Banners
<1>3. banner \in [type : {"Success"}, kind : K, source : Names]
  BY <1>1 DEF Typed, BannerPart, Banners, NoBanner, ConflictsFound
<1>4. undo.branch # NoBranch => undo.sha \in Shas(next)
  BY DEF Typed, UndoPart, Undos
<1>5. seen.tip \in Nat
  BY SeenFacts
<1>6. CleanupPart(K)'
  BY <1>1, <1>3, <1>4, <1>5 DEF CleanupPart, Cleanups, Undoable
<1> QED
  BY <1>1, <1>2, <1>6, Unchanged DEF Typed

LEMMA RunResetStep ==
  ASSUME NEW K, World(K), Typed(K), RunReset
  PROVE  Typed(K)'
<1>1. /\ UNCHANGED <<popups, head, git, next, mco, undo, forcePush, seen, flow, bound>>
      /\ cleanup.at = "reset"
  BY DEF RunReset
<1>2. cleanup \in [at : {"reset"}, kind : {"Undo"}, of : K \cap Undoable, sha : Shas(next), was : Nat, source : Names]
  BY <1>1, CleanupFacts DEF Typed, CleanupPart
<1>3. CASE /\ tips' = [tips EXCEPT ![head] = cleanup.sha] /\ dirty' = FALSE /\ UNCHANGED errors
           /\ IF cleanup.of = "CherryPick" /\ cleanup.source # NoBranch
              THEN cleanup' = [cleanup EXCEPT !.at = "checkout"] /\ UNCHANGED <<banner, load>>
              ELSE /\ banner' = [type |-> "Undone"]
                   /\ cleanup' = [cleanup EXCEPT !.at = "undone"] /\ Loading("cleanup")
  <2>1. TipsPart' /\ DirtyPart'
    BY <1>1, <1>2, <1>3 DEF Typed, TipsPart, DirtyPart
  <2>2. CASE cleanup.of = "CherryPick" /\ cleanup.source # NoBranch
    <3>1. cleanup' = [cleanup EXCEPT !.at = "checkout"] /\ UNCHANGED <<banner, load>>
      BY <1>3, <2>2
    <3>2. cleanup' \in [at : {"checkout"}, kind : {"Undo"}, of : K \cap {"CherryPick"}, sha : Shas(next),
                        was : Nat, source : Branches]
      BY <1>2, <2>2, <3>1 DEF Names
    <3>3. CleanupPart(K)'
      BY <1>1, <3>2 DEF CleanupPart, Cleanups
    <3> QED
      BY <1>1, <1>3, <2>1, <3>1, <3>3, Unchanged DEF Typed
  <2>3. CASE ~(cleanup.of = "CherryPick" /\ cleanup.source # NoBranch)
    <3>1. /\ banner' = [type |-> "Undone"]
          /\ cleanup' = [cleanup EXCEPT !.at = "undone"] /\ Loading("cleanup")
      BY <1>3, <2>3
    <3>2. cleanup' \in [at : {"reset", "undone"}, kind : {"Undo"}, of : K \cap Undoable, sha : Shas(next), was : Nat, source : Names]
      BY <1>2, <3>1
    <3>3. CleanupPart(K)' /\ BannerPart(K)'
      BY <1>1, <3>1, <3>2 DEF CleanupPart, Cleanups, BannerPart, Banners
    <3>4. LoadPart(K)'
      BY <1>1, <3>1, LoadBegins DEF Loaders
    <3> QED
      BY <1>1, <1>3, <2>1, <3>3, <3>4, Unchanged DEF Typed
  <2> QED
    BY <2>2, <2>3
<1>4. CASE /\ cleanup' = Idle /\ errors' = errors \cup {Popup("Error", Nobody)}
           /\ UNCHANGED <<tips, dirty, banner, load>>
  <2>1. CleanupPart(K)' /\ ErrorsPart(K)'
    BY <1>4, ErrorsTyped DEF CleanupPart, Cleanups, ErrorsPart
  <2> QED
    BY <1>1, <1>4, <2>1, Unchanged DEF Typed
<1> QED
  BY <1>3, <1>4 DEF RunReset

LEMMA UndoneStep ==
  ASSUME NEW K, World(K), Typed(K), Undone
  PROVE  Typed(K)'
<1>1. /\ UNCHANGED <<popups, tips, head, git, dirty, next, mco, undo, banner, errors>>
      /\ UNCHANGED <<seen, flow, bound>> /\ cleanup' = Idle /\ Loading("cleanup")
      /\ \/ TipValid /\ forcePush' = [forcePush EXCEPT ![seen.on] = seen.tip]
         \/ forcePush' = forcePush
  BY DEF Undone, repoVars
<1>2. CleanupPart(K)' /\ LoadPart(K)'
  BY <1>1, LoadBegins DEF CleanupPart, Cleanups, Loaders
<1>3. ForcePart'
  BY <1>1, ForcePushTyped DEF Typed, ForcePart
<1> QED
  BY <1>1, <1>2, <1>3, Unchanged DEF Typed

-----------------------------------------------------------------------------
(* Errors, and what happens around the flows.                              *)
LEMMA PresentErrorStep ==
  ASSUME NEW K, World(K), Typed(K), NEW e \in errors, PresentError(e)
  PROVE  Typed(K)'
<1>1. /\ UNCHANGED <<tips, head, git, dirty, next, undo, banner, forcePush>>
      /\ UNCHANGED <<seen, load, flow, cleanup, bound>> /\ errors' = errors \ {e}
      /\ \/ /\ mco' = AtStep(IF mco = NoOp THEN Op("Merge", "ShowProgress", tips[head], head, NoBranch)
                             ELSE mco, "ShowConflicts")
            /\ popups' = Added(popups, Dialog)
         \/ mco' = AtStep(mco, "ShowConflicts") /\ popups' = Added(popups, Dialog)
         \/ e # Triggered /\ popups' = Added(popups, e) /\ UNCHANGED mco
  BY DEF PresentError, repoVars
<1>2. (e # Triggered => e \in Dialogs(K)) /\ Stack(popups, K) /\ mco \in Operations(K)
  BY DEF Typed, ErrorsPart, StackPart, OperationPart
<1>3. (e # Triggered => Stack(Added(popups, e), K)) /\ Stack(Added(popups, Dialog), K)
  BY <1>2, StackSteps, DialogIsOne
<1>4. ErrorsPart(K)' /\ StackPart(K)'
  BY <1>1, <1>3 DEF Typed, ErrorsPart, StackPart
<1>5. OperationPart(K)'
  <2> DEFINE m == IF mco = NoOp THEN Op("Merge", "ShowProgress", tips[head], head, NoBranch) ELSE mco
  <2>1. "Merge" \in K /\ tips[head] \in Nat /\ head \in Names /\ NoBranch \in Names
    BY WorldFacts DEF Typed, TipsPart, NextPart, Shas, Names
  <2>2. Op("Merge", "ShowProgress", tips[head], head, NoBranch) \in Operations(K)
    BY <2>1, OpTyped DEF Step
  <2>3. m \in Operations(K)
    BY <1>2, <2>2
  <2>4. mco' = AtStep(m, "ShowConflicts") \/ mco' = AtStep(mco, "ShowConflicts") \/ mco' = mco
    BY <1>1
  <2> HIDE DEF m
  <2>5. AtStep(m, "ShowConflicts") \in Operations(K) /\ AtStep(mco, "ShowConflicts") \in Operations(K)
    BY <1>2, <2>3, AtSteps DEF Step
  <2> QED
    BY <1>2, <2>4, <2>5 DEF OperationPart
<1> QED
  BY <1>1, <1>4, <1>5, Unchanged DEF Typed

LEMMA DismissPopupStep ==
  ASSUME NEW K, World(K), Typed(K), DismissPopup
  PROVE  Typed(K)'
<1>1. /\ UNCHANGED <<tips, head, git, dirty, next, mco, undo, banner, forcePush, errors>>
      /\ UNCHANGED <<seen, load, flow, cleanup, bound>> /\ popups' = ClosedTop(popups)
  BY DEF DismissPopup, repoVars, appVars
<1>2. StackPart(K)'
  BY <1>1, StackSteps DEF Typed, StackPart
<1> QED
  BY <1>1, <1>2, Unchanged DEF Typed

LEMMA EditStep ==
  ASSUME NEW K, World(K), Typed(K), Edit
  PROVE  Typed(K)'
<1>1. /\ UNCHANGED <<popups, tips, head, git, next, mco, undo, banner, forcePush, errors>>
      /\ UNCHANGED <<seen, load, flow, cleanup>> /\ dirty' = TRUE
      /\ bound.edits > 0 /\ bound' = [bound EXCEPT !.edits = @ - 1]
  BY DEF Edit, appVars
<1>2. DirtyPart' /\ BoundPart(K)'
  BY <1>1 DEF Typed, DirtyPart, BoundPart, Bounds
<1> QED
  BY <1>1, <1>2, Unchanged DEF Typed

LEMMA CommitStep ==
  ASSUME NEW K, World(K), Typed(K), Commit
  PROVE  Typed(K)'
<1>1. /\ UNCHANGED <<popups, head, git, mco, undo, forcePush, errors>>
      /\ UNCHANGED <<seen, load, flow, cleanup, bound>> /\ banner' = NoBanner
      /\ tips' = [tips EXCEPT ![head] = next] /\ next' = next + 1 /\ dirty' = FALSE
  BY DEF Commit
<1>2. next \in Nat \ {0} /\ tips \in [Branches -> Shas(next)] /\ head \in Branches
  BY DEF Typed, TipsPart, NextPart
<1>3. next \in Shas(next + 1) /\ Shas(next) \subseteq Shas(next + 1)
  BY <1>2 DEF Shas
<1>4. tips' \in [Branches -> Shas(next')]
  BY <1>1, <1>2, <1>3
<1>5. TipsPart' /\ DirtyPart' /\ BannerPart(K)'
  BY <1>1, <1>2, <1>4 DEF TipsPart, DirtyPart, BannerPart, Banners
<1> QED
  BY <1>1, <1>5, Unchanged DEF Typed

LEMMA PullStep ==
  ASSUME NEW K, World(K), Typed(K), Pull
  PROVE  Typed(K)'
<1>1. /\ UNCHANGED <<popups, mco, undo, banner, forcePush>>
      /\ UNCHANGED <<seen, load, flow, cleanup>>
      /\ GitConflicts("Merge") /\ errors' = errors \cup {Dialog}
      /\ bound.pulls > 0 /\ bound' = [bound EXCEPT !.pulls = @ - 1]
  BY DEF Pull
<1>2. next' = next /\ TipsPart' /\ DirtyPart' /\ GitPart(K)'
  BY <1>1, WorldFacts, GitSteps DEF GitConflicts
<1>3. ErrorsPart(K)'
  BY <1>1, DialogIsOne DEF Typed, ErrorsPart
<1>4. BoundPart(K)'
  BY <1>1 DEF Typed, BoundPart, Bounds
<1> QED
  BY <1>1, <1>2, <1>3, <1>4, Unchanged DEF Typed

LEMMA TerminalStep ==
  ASSUME NEW K, World(K), Typed(K), Terminal
  PROVE  Typed(K)'
<1>1. /\ UNCHANGED <<popups, mco, undo, banner, forcePush, errors>>
      /\ UNCHANGED <<seen, load, flow, cleanup>>
      /\ bound.outside > 0 /\ bound' = [bound EXCEPT !.outside = @ - 1, !.disturbed = TRUE]
  BY DEF Terminal, appVars
<1>2. K = Kinds
  BY <1>1 DEF Typed, BoundPart
<1>3. next' \in {next, next + 1} /\ TipsPart' /\ DirtyPart' /\ GitPart(K)'
  <2>1. \E kind \in Kinds : GitCommits(kind) \/ GitConflicts(kind) \/ GitAborts
    BY DEF Terminal, Kinds, Rewriting
  <2> QED
    BY <1>2, <2>1, GitSteps
<1>4. BoundPart(K)'
  <2>1. bound \in Bounds /\ bound.kinds \subseteq K
    BY DEF Typed, BoundPart
  <2> DEFINE spent == [bound EXCEPT !.outside = @ - 1]
  <2>2. spent \in Bounds /\ spent.kinds = bound.kinds
    BY <1>1, <2>1 DEF Bounds
  <2>3. bound' = [spent EXCEPT !.disturbed = TRUE]
    BY <1>1
  <2> HIDE DEF spent
  <2>4. bound' \in Bounds /\ bound'.kinds = spent.kinds
    BY <2>2, <2>3 DEF Bounds
  <2> QED
    BY <1>2, <2>1, <2>2, <2>4 DEF BoundPart
<1> QED
  BY <1>1, <1>3, <1>4, Unchanged DEF Typed

-----------------------------------------------------------------------------
(* The values are right at the start, and every step keeps them right.     *)
LEMMA Beginning ==
  ASSUME Init
  PROVE  /\ tips \in [Branches -> 1..Cardinality(Branches)] /\ head \in Branches
         /\ Cardinality(Branches) \in Nat
<1>1. /\ NoBranch \notin Branches /\ Branches # {} /\ IsFiniteSet(Branches)
  BY MultiCommitAssumption
<1>2. Cardinality(Branches) \in Nat
  BY <1>1, FS_CardinalityType
<1>3. head \in Branches
  BY <1>1 DEF Init
<1>4. \E t \in [Branches -> 1..Cardinality(Branches)] : IsInjective(t)
  <2>1. PICK f \in [1..Cardinality(Branches) -> Branches] : \A b \in Branches :
               \E i \in 1..Cardinality(Branches) : f[i] = b
    BY <1>1, FS_CardinalityType DEF ExistsBijection, Bijection, Surjection
  <2> DEFINE t == [b \in Branches |-> CHOOSE i \in 1..Cardinality(Branches) : f[i] = b]
  <2>2. \A b \in Branches : t[b] \in 1..Cardinality(Branches) /\ f[t[b]] = b
    BY <2>1
  <2>3. t \in [Branches -> 1..Cardinality(Branches)]
    BY <2>2
  <2>4. IsInjective(t)
    BY <2>2 DEF IsInjective
  <2> QED
    BY <2>3, <2>4
<1>5. tips \in [Branches -> 1..Cardinality(Branches)]
  BY <1>4 DEF Init
<1> QED
  BY <1>2, <1>3, <1>5

LEMMA TypedInit ==
  ASSUME NEW K, World(K), Init, bound.kinds \subseteq K, bound.outside > 0 => K = Kinds
  PROVE  Typed(K)
<1>1. /\ tips \in [Branches -> 1..Cardinality(Branches)] /\ head \in Branches
      /\ Cardinality(Branches) \in Nat
  BY Beginning
<1>2. next = Cardinality(Branches) + 1
  BY DEF Init
<1>3. NextPart /\ TipsPart
  BY <1>1, <1>2 DEF NextPart, TipsPart, Shas
<1>4. StackPart(K)
  <2>1. <<>> \in Seq(PopupsOf({Nobody} \cup Retries(K))) /\ Len(<<>>) = 0
        /\ DOMAIN <<>> = {}
    OBVIOUS
  <2> QED
    BY <2>1, PopupLimitAssumption DEF Init, StackPart, Stack, Sound, Shaped
<1>5. BoundPart(K) /\ DirtyPart
  <2>1. PICK scene \in Scenes :
               /\ dirty = scene.dirty
               /\ bound = [kinds |-> scene.kinds, dirty |-> scene.dirty, starts |-> scene.starts,
                           edits |-> scene.edits, outside |-> scene.outside, pulls |-> scene.pulls,
                           disturbed |-> FALSE]
    BY DEF Init
  <2>2. scene \in Scene
    BY MultiCommitAssumption
  <2>3. bound \in Bounds
    BY <2>1, <2>2 DEF Scene, Bounds, Kinds, Rewriting
  <2> QED
    BY <2>1, <2>2, <2>3 DEF Scene, BoundPart, DirtyPart
<1>6. GitPart(K) /\ FlowPart(K) /\ CleanupPart(K) /\ OperationPart(K) /\ BannerPart(K) /\ ErrorsPart(K)
  BY DEF Init, GitPart, Gits, FlowPart, Flows, CleanupPart, Cleanups, OperationPart, Operations,
         BannerPart, Banners, ErrorsPart
<1>7. LoadPart(K) /\ UndoPart
  BY DEF Init, LoadPart, Loads, UndoPart, Undos
<1>8. ForcePart
  BY <1>1, <1>2 DEF Init, ForcePart
<1>9. SeenPart(K)
  <2>1. tips[head] \in Shas(next) /\ head \in Names
    BY <1>1, <1>2, <1>3 DEF TipsPart, Names
  <2>2. seen = [op |-> "none", on |-> head, tip |-> tips[head], files |-> dirty]
    BY DEF Init
  <2> QED
    BY <1>5, <2>1, <2>2 DEF SeenPart, Statuses, DirtyPart
<1> QED
  BY <1>3, <1>4, <1>5, <1>6, <1>7, <1>8, <1>9 DEF Typed

LEMMA TypedStep ==
  ASSUME NEW K, World(K), Typed(K), [Next]_vars
  PROVE  Typed(K)'
<1>1. CASE UNCHANGED vars
  <2>1. /\ UNCHANGED <<popups, tips, head, git, dirty, next, mco, undo, banner, forcePush, errors>>
        /\ UNCHANGED <<seen, load, flow, cleanup, bound>>
    BY <1>1 DEF vars, repoVars, appVars
  <2> QED
    BY <2>1, Unchanged DEF Typed
<1>2. CASE \E l \in Loaders : LoaderStep(l)
  BY <1>2, ReadStep, ApplyStep, SnapshotStep, SetUpStep DEF LoaderStep
<1>3. CASE FlowStep
  BY <1>3, WarnedStep, RetryStep, RunGitStep, RunMergeStep, RunCheckoutStep, RebasedStep,
     ProcessStep, ConflictsStep, PickedStep, RunContinueStep, FinishMergeStep, MergedStep
     DEF FlowStep
<1>4. CASE CleanupStep
  BY <1>4, RunAbortStep, BackToSourceStep, AbortedStep, RunResetStep, UndoneStep DEF CleanupStep
<1>5. CASE ErrorStep
  BY <1>5, PresentErrorStep DEF ErrorStep
<1>6. CASE Refresh
  BY <1>6, RefreshStep
<1>7. CASE UserStep
  BY <1>7, ChooseDialogStep, StartRewriteStep, ChooseStep, CancelStep, BeginAnywayStep, StashStep,
     ContinueStep, DismissStep, OpenConflictsStep, AbortQuestionStep, AbortStep, UndoStep,
     DismissPopupStep, EditStep, CommitStep, PullStep, TerminalStep
     DEF UserStep
<1> QED
  BY <1>1, <1>2, <1>3, <1>4, <1>5, <1>6, <1>7 DEF Next

LEMMA TypedMeans ==
  ASSUME NEW K, World(K), Typed(K)
  PROVE  TypeOK /\ StackShape
<1>1. StackTypeOK /\ StackShape
  BY SoundMeans DEF Typed, StackPart, Stack
<1>2. tips \in [Branches -> 1..(next - 1)] /\ head \in Branches /\ dirty \in BOOLEAN
  BY DEF Typed, TipsPart, DirtyPart, Shas
<1>3. git = NoGit \/ git \in [op : {"rebase", "cherryPick", "merge"}, on : Branches, was : Nat]
  BY WorldFacts DEF Typed, GitPart, Gits, Shas, NextPart
<1>4. seen.on \in Branches \cup {NoBranch} /\ seen.files \in BOOLEAN
  BY SeenFacts DEF Names
<1>5. mco = NoOp \/ mco \in [kind : Kinds, step : Step, orig : Nat,
                             target : Branches \cup {NoBranch}, source : Branches \cup {NoBranch}]
  <2>1. CASE mco # NoOp
    <3>1. /\ mco = Op(mco.kind, mco.step, mco.orig, mco.target, mco.source)
          /\ mco.kind \in K /\ mco.step \in Step /\ mco.orig \in Nat
          /\ mco.target \in Names /\ mco.source \in Names
      BY <2>1, OperationFacts DEF Typed, OperationPart
    <3>2. mco.kind \in Kinds
      BY <3>1, WorldFacts
    <3> QED
      BY <3>1, <3>2 DEF Op, Names
  <2> QED
    BY <2>1
<1>6. forcePush \in [Branches -> Nat]
  <2>1. 0..(next - 1) \subseteq Nat
    BY DEF Typed, NextPart
  <2> QED
    BY <2>1 DEF Typed, ForcePart
<1>7. undo \in [sha : Nat, branch : Branches \cup {NoBranch}]
  BY DEF Typed, UndoPart, Undos, Shas, NextPart
<1> QED
  BY <1>1, <1>2, <1>3, <1>4, <1>5, <1>6, <1>7 DEF TypeOK

(* Every branch, result and commit number a step uses exists.              *)
THEOREM MultiCommitInvariance == Spec => []Typed(Kinds)
<1>1. Init => Typed(Kinds)
  <2> SUFFICES ASSUME Init PROVE Typed(Kinds)
    OBVIOUS
  <2>1. bound.kinds \subseteq Kinds
    BY MultiCommitAssumption DEF Init, Scene, Kinds, Rewriting
  <2> QED
    BY <2>1, TypedInit DEF World
<1>2. Typed(Kinds) /\ [Next]_vars => Typed(Kinds)'
  BY TypedStep DEF World
<1> QED
  BY <1>1, <1>2, PTL DEF Spec

(* Whatever the order of statuses, results of Git, retries, errors, pulls  *)
(* and work in a terminal, and however many operations overlap, every      *)
(* variable of the flows has its type: no branch that does not exist is    *)
(* checked out, reset or looked up, no result is one its reader has no     *)
(* case for.                                                               *)
THEOREM MultiCommitTyped == Spec => []TypeOK
<1>1. Typed(Kinds) => TypeOK
  BY TypedMeans DEF World
<1> QED
  BY <1>1, MultiCommitInvariance, PTL

(* However the conflict dialogs, progress dialogs, questions about local   *)
(* changes and errors of overlapping operations come and go, errors stay   *)
(* above them and no other type of dialog is there twice.                  *)
THEOREM FlowsKeepStackShape == Spec => []StackShape
<1>1. Typed(Kinds) => StackShape
  BY TypedMeans DEF World
<1> QED
  BY <1>1, MultiCommitInvariance, PTL

-----------------------------------------------------------------------------
(* The branches that may be force-pushed.  Only some actions move a branch *)
(* or check one out, enter a branch in the list, apply a status, or end    *)
(* Git's work on an operation or on an undo.                               *)
Ends == {"rebased", "process"}

Moves ==
  /\ (\E kind \in Kinds : GitCommits(kind)) \/ GitForwards
  /\ flow.at \notin Ends \/ bound.outside > 0

Frame ==
  /\ head' = head \/ RunCheckout \/ BackToSource
  /\ UNCHANGED <<tips, next, rewritten, forwarded>> \/ Moves \/ Commit \/ RunReset
  /\ forcePush' = forcePush \/ Rebased \/ Process \/ Picked \/ Undone
  /\ seen' = seen \/ \E l \in Loaders : Apply(l)
  /\ \/ \E l \in Loaders : Read(l)
     \/ \A l \in Loaders : load'[l] = load[l] \/ load'[l].at # "apply"
  /\ flow' = flow \/ flow'.at \notin {"rebased", "process"} \/ RunGit \/ RunContinue
  /\ cleanup' = cleanup \/ cleanup'.at # "undone" \/ BackToSource \/ RunReset

LEMMA LoadFrame ==
  ASSUME NEW K, Typed(K), NEW l \in Loaders, NEW x, x.at # "apply",
         load' = [load EXCEPT ![l] = x] \/ load' = load
  PROVE  \A m \in Loaders : load'[m] = load[m] \/ load'[m].at # "apply"
BY DEF Typed, LoadPart

LEMMA ReadingFrame ==
  ASSUME NEW K, Typed(K), Loading("flow") \/ Loading("cleanup") \/ Loading("background") \/ load' = load
  PROVE  \A m \in Loaders : load'[m] = load[m] \/ load'[m].at # "apply"
<1>1. [at |-> "read"].at # "apply"
  OBVIOUS
<1> QED
  BY <1>1, LoadFrame DEF Loading, Loaders

\* A step of the user or of the flows that leaves the repository alone.
LEMMA QuietFrame ==
  ASSUME UNCHANGED <<tips, head, next, rewritten, forwarded, forcePush, seen, load, cleanup>>,
         flow' = flow \/ flow'.at \notin {"rebased", "process"}
  PROVE  Frame
BY DEF Frame

LEMMA FlowAtFrame ==
  ASSUME NEW at \in {"git", "warn", "continue", "checkout", "retry"}, NEW kind, NEW to, NEW from
  PROVE  FlowAt(at, kind, to, from).at \notin {"rebased", "process"}
BY DEF FlowAt

LEMMA IdleFrame == Idle.at \notin {"rebased", "process", "undone", "apply"}
BY DEF Idle

LEMMA LoaderFrame ==
  ASSUME NEW K, Typed(K), NEW l \in Loaders, LoaderStep(l)
  PROVE  Frame
<1>1. /\ UNCHANGED <<tips, head, next, rewritten, forwarded, forcePush>>
      /\ flow' \in {flow, Idle} /\ cleanup' \in {cleanup, Idle}
  BY DEF LoaderStep, Read, Apply, Snapshot, SetUp, repoVars, appVars
<1>2. seen' = seen \/ Apply(l)
  BY DEF LoaderStep, Read, Snapshot, SetUp
<1>3. Read(l) \/ \A m \in Loaders : load'[m] = load[m] \/ load'[m].at # "apply"
  <2>1. CASE Apply(l)
    <3> DEFINE s == load[l].status
               x == IF mco = NoOp /\ s.op \in {"rebase", "cherryPick"}
                    THEN [at |-> "snapshot", op |-> s.op] ELSE Idle
    <3>1. load' = [load EXCEPT ![l] = x]
      BY <2>1 DEF Apply
    <3>2. x.at # "apply"
      BY IdleFrame
    <3> HIDE DEF x
    <3> QED
      BY <3>1, <3>2, LoadFrame
  <2>2. CASE Snapshot(l) \/ SetUp(l)
    <3>1. load' = [load EXCEPT ![l] = Idle] \/ load' = [load EXCEPT ![l] = [at |-> "set", git |-> git]]
      BY <2>2 DEF Snapshot, SetUp
    <3>2. [at |-> "set", git |-> git].at # "apply"
      OBVIOUS
    <3> QED
      BY <3>1, <3>2, IdleFrame, LoadFrame
  <2> QED
    BY <2>1, <2>2 DEF LoaderStep
<1> QED
  BY <1>1, <1>2, <1>3, IdleFrame DEF Frame

LEMMA BeginFrame ==
  ASSUME NEW kind, NEW anyway \in BOOLEAN, NEW stack, NEW m, NEW to, NEW from,
         BeginRewrite(kind, anyway, stack) \/ BeginCherryPick(m, to, from, stack)
  PROVE  flow'.at \notin {"rebased", "process"}
<1>1. \/ flow' = Idle
      \/ flow' = FlowAt(IF anyway THEN "git" ELSE "warn", kind, seen.on, NoBranch)
      \/ flow' = FlowAt("checkout", "CherryPick", to, from)
  BY DEF BeginRewrite, BeginCherryPick
<1> QED
  BY <1>1, IdleFrame, FlowAtFrame

LEMMA FlowFrame ==
  ASSUME NEW K, World(K), Typed(K), FlowStep
  PROVE  Frame
<1>0. flow \in Flows(K)
  BY DEF Typed, FlowPart
<1>1. CASE Warned
  <2>1. flow \in [at : {"warn"}, kind : K \cap Rewriting, to : Names, from : Names]
    BY <1>0, <1>1, FlowFacts DEF Warned
  <2>2. flow' = Idle \/ flow' = [flow EXCEPT !.at = "git"]
    BY <1>1 DEF Warned
  <2>3. flow'.at \notin {"rebased", "process"}
    BY <2>1, <2>2, IdleFrame
  <2>4. UNCHANGED <<tips, head, next, rewritten, forwarded, forcePush, seen, load, cleanup>>
    BY <1>1 DEF Warned, repoVars
  <2> QED
    BY <2>3, <2>4, QuietFrame
<1>2. CASE Retry
  <2>1. flow \in Retries(K)
    BY <1>0, <1>2, FlowFacts DEF Retry
  <2>2. [flow EXCEPT !.at = "git"].at = "git"
    BY <2>1 DEF Retries
  <2>3. \/ BeginCherryPick(mco, flow.to, flow.from, ClosedType(popups, "LocalChangesOverwritten"))
        \/ BeginRewrite(flow.kind, FALSE, ClosedType(popups, "LocalChangesOverwritten"))
        \/ flow' = [flow EXCEPT !.at = "git"] \/ flow' = Idle
    BY <1>2 DEF Retry
  <2>4. flow'.at \notin {"rebased", "process"}
    BY <2>2, <2>3, IdleFrame, BeginFrame
  <2>5. UNCHANGED <<tips, head, next, rewritten, forwarded, forcePush, seen, load, cleanup>>
    BY <1>2 DEF Retry, repoVars
  <2> QED
    BY <2>4, <2>5, QuietFrame
<1>3. CASE RunGit
  <2>1. UNCHANGED <<tips, next, rewritten, forwarded>> \/ GitCommits(flow.kind) \/ GitForwards
    BY <1>3 DEF RunGit, GitConflicts, GitFails, repoVars
  <2>2. flow.kind \in Kinds
    BY <1>0, <1>3, FlowFacts, WorldFacts DEF RunGit
  <2>3. head' = head
    BY <1>3 DEF RunGit, GitConflicts, GitFails, GitCommits, GitForwards, GitMoves, repoVars
  <2>4. UNCHANGED <<forcePush, seen, cleanup>> /\ Loading("flow") /\ flow.at \notin Ends
    BY <1>3 DEF RunGit, Ends
  <2> QED
    BY <1>3, <2>1, <2>2, <2>3, <2>4, ReadingFrame DEF Frame, Moves
<1>4. CASE RunMerge
  <2>1. UNCHANGED <<tips, next, rewritten, forwarded>> \/ GitCommits("Merge")
    BY <1>4 DEF RunMerge, GitConflicts, GitFails, repoVars
  <2>2. head' = head
    BY <1>4 DEF RunMerge, GitConflicts, GitFails, GitCommits, GitMoves, repoVars
  <2>3. UNCHANGED <<forcePush, seen, cleanup>> /\ Loading("flow") /\ flow' = Idle /\ flow.at \notin Ends
    BY <1>4 DEF RunMerge, Ends
  <2> QED
    BY <2>1, <2>2, <2>3, ReadingFrame, IdleFrame DEF Frame, Moves, Kinds
<1>5. CASE RunCheckout
  <2>1. flow \in [at : {"checkout"}, kind : K \cap {"CherryPick"}, to : Branches, from : Branches]
    BY <1>0, <1>5, FlowFacts DEF RunCheckout
  <2>2. flow' = Idle \/ flow' = [flow EXCEPT !.at = "git"]
    BY <1>5 DEF RunCheckout, CheckoutFails
  <2>3. flow'.at \notin {"rebased", "process"}
    BY <2>1, <2>2, IdleFrame
  <2>4. UNCHANGED <<tips, next, rewritten, forwarded, forcePush, seen, cleanup>> /\ (Loading("flow") \/ load' = load)
    BY <1>5 DEF RunCheckout
  <2> QED
    BY <1>5, <2>3, <2>4, ReadingFrame DEF Frame
<1>6. CASE Rebased \/ Process \/ Picked
  <2>1. UNCHANGED <<tips, head, next, rewritten, forwarded, seen>> /\ (Loading("flow") \/ load' = load)
    <3>1. Complete => Loading("flow") \/ load' = load
      BY DEF Complete
    <3>2. CASE Rebased
      <4>1. flow.result \in {"Completed", "Conflicts", "UpToDate", "Error"}
        BY <1>0, <3>2, FlowFacts DEF Rebased
      <4>2. Complete \/ Loading("flow") \/ load' = load
        BY <3>2, <4>1 DEF Rebased
      <4> QED
        BY <3>1, <3>2, <4>2 DEF Rebased, repoVars
    <3>3. CASE Process
      <4>1. Complete \/ Loading("flow") \/ load' = load
        BY <3>3 DEF Process
      <4> QED
        BY <3>1, <3>3, <4>1 DEF Process, repoVars
    <3>4. CASE Picked
      <4>1. flow.result \in {"Completed", "Conflicts", "UnableToStart", "Error"}
        BY <1>0, <3>4, FlowFacts DEF Picked
      <4>2. Complete \/ Loading("flow") \/ load' = load
        BY <3>4, <4>1 DEF Picked
      <4> QED
        BY <3>1, <3>4, <4>2 DEF Picked, repoVars
    <3> QED
      BY <1>6, <3>2, <3>3, <3>4
  <2>2. flow'.at \notin {"rebased", "process"}
    <3>1. flow' = Idle \/ (Process /\ flow' = [flow EXCEPT !.at = "conflicts"])
      BY <1>6 DEF Rebased, Process, Picked
    <3>2. Process => [flow EXCEPT !.at = "conflicts"].at = "conflicts"
      BY <1>0, FlowFacts DEF Process
    <3> QED
      BY <3>1, <3>2, IdleFrame
  <2>3. cleanup' = cleanup \/ cleanup'.at # "undone"
    <3>1. Picked => flow.result \in {"Completed", "Conflicts", "UnableToStart", "Error"}
      BY <1>0, FlowFacts DEF Picked
    <3>2. \/ cleanup' = cleanup
          \/ cleanup' = [at |-> "abort", kind |-> "ClearHead", source |-> flow.from]
      BY <1>6, <3>1 DEF Rebased, Process, Picked
    <3> QED
      BY <3>2
  <2> QED
    BY <1>6, <2>1, <2>2, <2>3, ReadingFrame DEF Frame
<1>7. CASE Conflicts \/ Merged
  <2>1. /\ UNCHANGED <<tips, head, next, rewritten, forwarded, forcePush, seen, load, cleanup>>
        /\ flow' = Idle
    BY <1>7 DEF Conflicts, Merged, repoVars
  <2> QED
    BY <2>1, IdleFrame, QuietFrame
<1>8. CASE RunContinue
  <2>1. UNCHANGED <<tips, next, rewritten, forwarded>> \/ GitCommits(flow.kind)
    BY <1>8 DEF RunContinue, repoVars
  <2>2. flow.kind \in Kinds
    BY <1>0, <1>8, FlowFacts, WorldFacts DEF RunContinue
  <2>3. head' = head
    BY <1>8 DEF RunContinue, GitCommits, GitMoves, repoVars
  <2>4. UNCHANGED <<forcePush, seen, cleanup>> /\ Loading("flow") /\ flow.at \notin Ends
    BY <1>8 DEF RunContinue, Ends
  <2> QED
    BY <1>8, <2>1, <2>2, <2>3, <2>4, ReadingFrame DEF Frame, Moves
<1>9. CASE FinishMerge
  <2>1. UNCHANGED <<tips, next, rewritten, forwarded>> \/ GitCommits("Merge")
    BY <1>9 DEF FinishMerge, repoVars
  <2>2. head' = head
    BY <1>9 DEF FinishMerge, GitCommits, GitMoves, repoVars
  <2>3. UNCHANGED <<forcePush, seen, cleanup>> /\ Loading("flow") /\ flow' = [flow EXCEPT !.at = "merged"]
    BY <1>9 DEF FinishMerge
  <2>4. flow'.at \notin {"rebased", "process"} /\ flow.at \notin Ends
    BY <1>0, <1>9, <2>3, FlowFacts DEF FinishMerge, Ends
  <2> QED
    BY <2>1, <2>2, <2>3, <2>4, ReadingFrame DEF Frame, Moves, Kinds
<1> QED
  BY <1>1, <1>2, <1>3, <1>4, <1>5, <1>6, <1>7, <1>8, <1>9 DEF FlowStep

LEMMA CleanupFrame ==
  ASSUME NEW K, World(K), Typed(K), CleanupStep
  PROVE  Frame
<1>0. cleanup \in Cleanups(K, next)
  BY DEF Typed, CleanupPart
<1>1. CASE RunAbort
  <2>1. cleanup \in [at : {"abort"}, kind : Aborts(K), source : Names]
    BY <1>0, <1>1, CleanupFacts DEF RunAbort
  <2>2. /\ UNCHANGED <<tips, head, next, rewritten, forwarded, forcePush, seen, flow>>
        /\ Loading("cleanup") \/ load' = load
        /\ cleanup' = [cleanup EXCEPT !.at = "checkout"] \/ cleanup' = [cleanup EXCEPT !.at = "aborted"]
    BY <1>1 DEF RunAbort, GitAborts, repoVars
  <2>3. cleanup'.at # "undone"
    BY <2>1, <2>2
  <2> QED
    BY <2>2, <2>3, ReadingFrame DEF Frame
<1>2. CASE BackToSource
  <2>1. UNCHANGED <<tips, next, rewritten, forwarded, forcePush, seen, flow>> /\ Loading("cleanup")
    BY <1>2 DEF BackToSource
  <2> QED
    BY <1>2, <2>1, ReadingFrame DEF Frame
<1>3. CASE Aborted
  <2>1. UNCHANGED <<tips, head, next, rewritten, forwarded, forcePush, seen, flow, load>> /\ cleanup' = Idle
    BY <1>3 DEF Aborted, repoVars
  <2> QED
    BY <2>1, IdleFrame DEF Frame
<1>4. CASE RunReset
  <2>1. UNCHANGED <<head, forcePush, seen, flow>> /\ (Loading("cleanup") \/ load' = load)
    BY <1>4 DEF RunReset
  <2> QED
    BY <1>4, <2>1, ReadingFrame DEF Frame
<1>5. CASE Undone
  <2>1. /\ UNCHANGED <<tips, head, next, rewritten, forwarded, seen, flow>> /\ cleanup' = Idle
        /\ Loading("cleanup")
    BY <1>5 DEF Undone, repoVars
  <2> QED
    BY <1>5, <2>1, ReadingFrame, IdleFrame DEF Frame
<1> QED
  BY <1>1, <1>2, <1>3, <1>4, <1>5 DEF CleanupStep

LEMMA UserFrame ==
  ASSUME NEW K, World(K), Typed(K), UserStep
  PROVE  Frame
<1>1. CASE \E kind \in Kinds : ChooseDialog(kind) \/ StartRewrite(kind)
  <2>1. UNCHANGED <<tips, head, next, rewritten, forwarded, forcePush, seen, load, cleanup>>
    BY <1>1 DEF ChooseDialog, StartRewrite, repoVars
  <2>2. flow' = flow \/ \E kind \in Kinds : BeginRewrite(kind, FALSE, popups)
    BY <1>1 DEF ChooseDialog, StartRewrite
  <2> QED
    BY <2>1, <2>2, BeginFrame, QuietFrame
<1>2. CASE \E b \in Branches : Choose(b)
  <2>1. UNCHANGED <<tips, head, next, rewritten, forwarded, forcePush, seen, load, cleanup>>
    BY <1>2 DEF Choose, repoVars
  <2>2. PICK b \in Branches : Choose(b)
    BY <1>2
  <2>3. mco.kind \in {"Rebase", "Merge", "CherryPick"}
    BY <2>2, OperationFacts DEF Choose, Typed, OperationPart
  <2>4. \/ flow' = FlowAt("git", "Merge", mco.target, b)
        \/ flow' = FlowAt("warn", "Rebase", mco.target, b)
        \/ BeginCherryPick([mco EXCEPT !.target = b], b, mco.source, popups)
    BY <2>2, <2>3 DEF Choose, BeginMerge, BeginRebase
  <2> QED
    BY <2>1, <2>4, BeginFrame, FlowAtFrame, QuietFrame
<1>3. CASE BeginAnyway
  <2>1. UNCHANGED <<tips, head, next, rewritten, forwarded, forcePush, seen, load, cleanup>>
    BY <1>3 DEF BeginAnyway, repoVars
  <2>2. \/ flow' = FlowAt("git", "Rebase", mco.target, mco.source)
        \/ BeginRewrite(mco.kind, TRUE, popups)
    BY <1>3 DEF BeginAnyway, BeginRebase
  <2> QED
    BY <2>1, <2>2, BeginFrame, FlowAtFrame, QuietFrame
<1>4. CASE Stash
  <2>1. UNCHANGED <<tips, head, next, rewritten, forwarded, forcePush, seen, cleanup>> /\ Loading("flow")
    BY <1>4 DEF Stash, appVars
  <2>2. Top(popups) \in Dialogs(K) /\ Top(popups).type = "LocalChangesOverwritten"
        /\ flow' = Top(popups).asker
    BY <1>4, StackSteps DEF Stash, Typed, StackPart
  <2>3. flow' \in Retries(K)
    BY <2>2 DEF Dialogs, Dialog, Popup
  <2>4. flow'.at \notin {"rebased", "process"}
    BY <2>3 DEF Retries
  <2> QED
    BY <2>1, <2>4, ReadingFrame DEF Frame
<1>5. CASE Continue
  <2>1. /\ UNCHANGED <<tips, head, next, rewritten, forwarded, forcePush, seen, load, cleanup>>
        /\ flow' = FlowAt("continue", mco.kind, mco.target, mco.source)
    BY <1>5 DEF Continue, repoVars
  <2> QED
    BY <2>1, FlowAtFrame, QuietFrame
<1>6. CASE Cancel \/ Dismiss \/ OpenConflicts \/ AskAbort \/ ReturnToConflicts \/ DismissPopup \/ Edit
  <2>1. UNCHANGED <<tips, head, next, rewritten, forwarded, forcePush, seen, load, cleanup, flow>>
    BY <1>6 DEF Cancel, Dismiss, OpenConflicts, AskAbort, ReturnToConflicts, DismissPopup, Edit,
                repoVars, appVars
  <2> QED
    BY <2>1, QuietFrame
<1>7. CASE Abort \/ Undo
  <2>1. UNCHANGED <<tips, head, next, rewritten, forwarded, forcePush, seen, load, flow>>
    BY <1>7 DEF Abort, Undo, repoVars
  <2>2. cleanup'.at # "undone"
    BY <1>7, IdleFrame DEF Abort, Undo
  <2> QED
    BY <2>1, <2>2 DEF Frame
<1>8. CASE Commit
  BY <1>8 DEF Frame, Commit
<1>9. CASE Pull \/ Terminal
  <2>1. UNCHANGED <<forcePush, seen, load, flow, cleanup>>
    BY <1>9 DEF Pull, Terminal, appVars
  <2>2. \/ UNCHANGED <<tips, next, rewritten, forwarded>>
        \/ bound.outside > 0 /\ \E kind \in Kinds : GitCommits(kind)
    BY <1>9 DEF Pull, Terminal, GitConflicts, GitAborts, Kinds, Rewriting
  <2>3. head' = head
    BY <1>9 DEF Pull, Terminal, GitConflicts, GitAborts, GitCommits, GitMoves
  <2> QED
    BY <2>1, <2>2, <2>3 DEF Frame, Moves
<1> QED
  BY <1>1, <1>2, <1>3, <1>4, <1>5, <1>6, <1>7, <1>8, <1>9 DEF UserStep

LEMMA Framed ==
  ASSUME NEW K, World(K), Typed(K), [Next]_vars
  PROVE  Frame
<1>1. CASE UNCHANGED vars \/ ErrorStep
  <2>1. UNCHANGED <<tips, head, next, rewritten, forwarded, forcePush, seen, load, cleanup, flow>>
    BY <1>1 DEF ErrorStep, PresentError, vars, repoVars, appVars
  <2> QED
    BY <2>1, QuietFrame
<1>2. CASE Refresh
  <2>1. /\ UNCHANGED <<tips, head, next, rewritten, forwarded, forcePush, seen, cleanup, flow>>
        /\ Loading("background")
    BY <1>2 DEF Refresh, repoVars, appVars
  <2> QED
    BY <2>1, ReadingFrame DEF Frame
<1> QED
  BY <1>1, <1>2, LoaderFrame, FlowFrame, CleanupFrame, UserFrame DEF Next

-----------------------------------------------------------------------------
(* Without a cherry-pick no other branch is checked out while an operation *)
(* or an undo is under way, so that the status that ends it is about the   *)
(* branch that Git rewrote.                                                *)
NoPicks == Kinds \ {"CherryPick"}
PicksOnly == {"CherryPick", "Merge"}

Rewritten(b) == <<b, tips[b]>> \in rewritten
Marked(b) == <<b, tips[b]>> \in rewritten \cup forwarded

Steady ==
  /\ seen.on \in {head, NoBranch}
  /\ \A l \in Loaders : load[l].at = "apply" => load[l].status.on \in {head, NoBranch}
  /\ flow.at \in Ends /\ flow.result = "Completed" => Marked(head)
  /\ cleanup.at = "undone" => Rewritten(head)
  /\ ForcePushRewritten

LEMMA NoPicksFacts ==
  ASSUME Typed(NoPicks)
  PROVE  World(NoPicks) /\ ~RunCheckout /\ ~BackToSource /\ ~Picked
<1>1. World(NoPicks) /\ "CherryPick" \notin NoPicks
  BY DEF World, NoPicks
<1>2. flow.at # "checkout" /\ flow.at # "picked"
  <2>1. flow \in Flows(NoPicks)
    BY DEF Typed, FlowPart
  <2> QED
    BY <1>1, <2>1, FlowFacts
<1>3. cleanup.at # "checkout"
  <2>1. cleanup \in Cleanups(NoPicks, next)
    BY DEF Typed, CleanupPart
  <2>2. Aborts(NoPicks) \cap {"CherryPick", "ClearHead"} = {}
    BY <1>1 DEF Aborts, NoPicks, Kinds, Rewriting
  <2> QED
    BY <1>1, <2>1, <2>2, CleanupFacts
<1> QED
  BY <1>1, <1>2, <1>3 DEF RunCheckout, BackToSource, Picked

\* A branch that was rewritten stays so, one that a rebase ended with stays
\* marked until the end, and a tip that is not marked is no new entry.
LEMMA MarksStay ==
  ASSUME Typed(NoPicks), Frame, head' = head
  PROVE  /\ Rewritten(head) => Rewritten(head)'
         /\ flow.at \in Ends => (Marked(head) => Marked(head)')
         /\ \A b \in Branches : tips'[b] = tips[b] => (Marked(b) => Marked(b)')
         /\ \A b \in Branches : tips'[b] = tips[b] \/ tips'[b] = next \/ Marked(b)'
<1>1. tips \in [Branches -> Shas(next)] /\ head \in Branches
  BY DEF Typed, TipsPart
<1>2. CASE UNCHANGED <<tips, next, rewritten, forwarded>>
  BY <1>2 DEF Marked, Rewritten
<1>3. CASE Moves \/ Commit
  <2>1. /\ tips' = [tips EXCEPT ![head] = next]
        /\ rewritten \subseteq rewritten' /\ forwarded \subseteq forwarded'
        /\ <<head, tips[head]>> \in rewritten => <<head, next>> \in rewritten'
    BY <1>3 DEF Moves, GitCommits, GitForwards, GitMoves, Commit
  <2>2. \A b \in Branches : tips'[b] = IF b = head THEN next ELSE tips[b]
    BY <1>1, <2>1
  <2>3. flow.at \notin Ends
    <3>1. ~(bound.outside > 0)
      BY DEF Typed, BoundPart, NoPicks, Kinds
    <3> QED
      BY <1>3, <3>1 DEF Moves, Commit, Ends
  <2> QED
    BY <1>1, <2>1, <2>2, <2>3 DEF Marked, Rewritten
<1>4. CASE RunReset
  <2>1. \/ UNCHANGED <<tips, rewritten, forwarded>>
        \/ /\ tips' = [tips EXCEPT ![head] = cleanup.sha] /\ forwarded' = forwarded
           /\ rewritten' = rewritten \cup {<<head, cleanup.sha>>}
    BY <1>4 DEF RunReset
  <2>2. CASE UNCHANGED <<tips, rewritten, forwarded>>
    BY <2>2 DEF Marked, Rewritten
  <2>3. CASE /\ tips' = [tips EXCEPT ![head] = cleanup.sha] /\ forwarded' = forwarded
             /\ rewritten' = rewritten \cup {<<head, cleanup.sha>>}
    <3>1. \A b \in Branches : tips'[b] = IF b = head THEN cleanup.sha ELSE tips[b]
      BY <1>1, <2>3
    <3> QED
      BY <1>1, <2>3, <3>1 DEF Marked, Rewritten
  <2> QED
    BY <2>1, <2>2, <2>3
<1> QED
  BY <1>2, <1>3, <1>4 DEF Frame

\* A branch is entered in the list only when it is marked.
LEMMA EntriesMarked ==
  ASSUME Typed(NoPicks), Steady, Frame, forcePush' # forcePush
  PROVE  /\ forcePush' = [forcePush EXCEPT ![seen.on] = seen.tip] /\ seen.on = head
         /\ Marked(head) /\ tips' = tips
<1>1. Complete /\ forcePush' # forcePush => TipValid /\ forcePush' = [forcePush EXCEPT ![seen.on] = seen.tip]
  BY DEF Complete, ForcePushList
<1>2. CASE Rebased
  <2>1. flow.at = "rebased" /\ flow.result \in {"Completed", "Conflicts", "UpToDate", "Error"}
    BY <1>2, FlowFacts DEF Rebased, Typed, FlowPart
  <2>2. flow.result = "Completed" /\ Complete /\ tips' = tips
    BY <1>2, <2>1 DEF Rebased, repoVars
  <2> QED
    BY <1>1, <2>1, <2>2, MultiCommitAssumption DEF Steady, Ends, TipValid
<1>3. CASE Process
  <2>1. flow.at = "process" /\ flow.result = "Completed" /\ Complete /\ tips' = tips
    BY <1>3 DEF Process, repoVars
  <2> QED
    BY <1>1, <2>1, MultiCommitAssumption DEF Steady, Ends, TipValid
<1>4. CASE Undone
  <2>1. cleanup.at = "undone" /\ TipValid /\ forcePush' = [forcePush EXCEPT ![seen.on] = seen.tip]
        /\ tips' = tips
    BY <1>4 DEF Undone, repoVars
  <2> QED
    BY <2>1, MultiCommitAssumption DEF Steady, Marked, Rewritten, TipValid
<1> QED
  BY <1>2, <1>3, <1>4, NoPicksFacts DEF Frame

LEMMA SteadyStep ==
  ASSUME Typed(NoPicks), Steady, [Next]_vars
  PROVE  Steady'
<1>1. World(NoPicks) /\ head' = head /\ Frame
  BY NoPicksFacts, Framed DEF Frame
<1>2. head \in Branches /\ tips \in [Branches -> Shas(next)] /\ next \in Nat
      /\ forcePush \in [Branches -> 0..(next - 1)]
  BY DEF Typed, TipsPart, ForcePart, NextPart
<1>3. /\ Rewritten(head) => Rewritten(head)'
      /\ flow.at \in Ends => (Marked(head) => Marked(head)')
      /\ \A b \in Branches : tips'[b] = tips[b] => (Marked(b) => Marked(b)')
      /\ \A b \in Branches : tips'[b] = tips[b] \/ tips'[b] = next \/ Marked(b)'
  BY <1>1, MarksStay
<1>5. seen'.on \in {head, NoBranch}
  <2>1. \A l \in Loaders : Apply(l) => load[l].at = "apply" /\ seen' = load[l].status
    BY DEF Apply
  <2> QED
    BY <1>1, <2>1 DEF Frame, Steady
<1>6. \A l \in Loaders : load'[l].at = "apply" => load'[l].status.on \in {head, NoBranch}
  <2>1. CASE \A l \in Loaders : load'[l] = load[l] \/ load'[l].at # "apply"
    BY <2>1 DEF Steady
  <2>2. CASE \E l \in Loaders : Read(l)
    <3>1. PICK l \in Loaders : Read(l)
      BY <2>2
    <3>2. PICK s \in StatusNow : load' = [load EXCEPT ![l] = [at |-> "apply", status |-> s]]
      BY <3>1 DEF Read
    <3>3. s.on \in {head, NoBranch}
      BY <3>2 DEF StatusNow
    <3>4. load \in [Loaders -> Loads(NoPicks, next)]
      BY DEF Typed, LoadPart
    <3> QED
      BY <3>2, <3>3, <3>4 DEF Steady
  <2> QED
    BY <1>1, <2>1, <2>2 DEF Frame
<1>7. flow'.at \in Ends /\ flow'.result = "Completed" => Marked(head)'
  <2>1. CASE flow' = flow
    BY <1>3, <2>1 DEF Steady
  <2>2. CASE RunGit \/ RunContinue
    <3>1. flow.at \in {"git", "continue"} /\ flow.kind # "Merge"
      BY <2>2 DEF RunGit, RunContinue
    <3>2. flow.kind \in Rewriting
      BY <3>1, FlowFacts DEF Typed, FlowPart, NoPicks, Kinds
    <3>3. flow'.result = "Completed" => GitCommits(flow.kind) \/ GitForwards
      BY <2>2 DEF RunGit, RunContinue, Result
    <3>4. GitCommits(flow.kind) \/ GitForwards => Marked(head)'
      BY <1>1, <1>2, <3>2 DEF GitCommits, GitForwards, GitMoves, Marked
    <3> QED
      BY <3>3, <3>4
  <2> QED
    BY <1>1, <2>1, <2>2 DEF Frame, Ends
<1>8. cleanup'.at = "undone" => Rewritten(head)'
  <2>1. CASE cleanup' = cleanup
    BY <1>3, <2>1 DEF Steady
  <2>2. CASE RunReset
    <3>1. \/ cleanup' = Idle
          \/ /\ tips' = [tips EXCEPT ![head] = cleanup.sha]
             /\ rewritten' = rewritten \cup {<<head, cleanup.sha>>}
      BY <2>2 DEF RunReset
    <3> QED
      BY <1>1, <1>2, <3>1, IdleFrame DEF Rewritten
  <2> QED
    BY <1>1, <2>1, <2>2, NoPicksFacts DEF Frame
<1>9. ForcePushRewritten'
  <2> SUFFICES ASSUME NEW b \in Branches, forcePush'[b] = tips'[b] PROVE Marked(b)'
    BY DEF ForcePushRewritten, Marked
  <2>1. CASE forcePush' = forcePush
    <3>1. forcePush[b] # next
      BY <1>2
    <3>2. tips'[b] = tips[b] => Marked(b)
      BY <2>1 DEF Steady, ForcePushRewritten, Marked
    <3> QED
      BY <1>3, <2>1, <3>1, <3>2
  <2>2. CASE forcePush' # forcePush
    <3>1. /\ forcePush' = [forcePush EXCEPT ![head] = seen.tip]
          /\ Marked(head) /\ tips' = tips
      BY <1>1, <2>2, EntriesMarked
    <3>2. CASE b = head
      BY <1>3, <3>1, <3>2
    <3>3. CASE b # head
      <4>1. forcePush'[b] = forcePush[b] /\ tips'[b] = tips[b]
        BY <1>2, <3>1, <3>3
      <4>2. Marked(b)
        BY <4>1 DEF Steady, ForcePushRewritten, Marked
      <4> QED
        BY <1>3, <4>1, <4>2
    <3> QED
      BY <3>2, <3>3
  <2> QED
    BY <2>1, <2>2
<1>10. (seen.on \in {head, NoBranch})'
  BY <1>1, <1>5
<1>11. (\A l \in Loaders : load[l].at = "apply" => load[l].status.on \in {head, NoBranch})'
  BY <1>1, <1>6
<1>12. (flow.at \in Ends /\ flow.result = "Completed" => Marked(head))'
  BY <1>7
<1>13. (cleanup.at = "undone" => Rewritten(head))'
  BY <1>8
<1> QED
  BY <1>9, <1>10, <1>11, <1>12, <1>13 DEF Steady

\* Cherry-picks and merges enter no branch in the list.
LEMMA PicksListNothing ==
  ASSUME Typed(PicksOnly), [Next]_vars
  PROVE  forcePush' = forcePush
<1>1. World(PicksOnly) /\ PicksOnly \cap Rewriting = {} /\ PicksOnly \cap {"Rebase"} = {}
      /\ PicksOnly \cap Undoable = {"CherryPick"}
  BY DEF World, PicksOnly, Rewriting, Undoable
<1>2. Frame
  BY <1>1, Framed
<1>3. ~Rebased /\ ~Process
  <2>1. flow \in Flows(PicksOnly)
    BY DEF Typed, FlowPart
  <2>2. flow.at = "rebased" => flow.kind \in PicksOnly \cap {"Rebase"}
    BY <2>1, FlowFacts
  <2>3. flow.at = "process" => flow.kind \in PicksOnly \cap Rewriting
    BY <2>1, FlowFacts
  <2> QED
    BY <1>1, <2>2, <2>3 DEF Rebased, Process
<1>4. Picked => forcePush' = forcePush
  <2> SUFFICES ASSUME Picked PROVE forcePush' = forcePush
    OBVIOUS
  <2>1. flow.result \in {"Completed", "Conflicts", "UnableToStart", "Error"}
    BY FlowFacts DEF Picked, Typed, FlowPart
  <2>2. Complete \/ forcePush' = forcePush
    BY <2>1 DEF Picked
  <2>3. mco # NoOp => mco.kind \in PicksOnly
    BY OperationFacts DEF Typed, OperationPart
  <2> QED
    BY <2>2, <2>3 DEF Complete, ForcePushList, PicksOnly
<1>5. Undone => forcePush' = forcePush
  <2> SUFFICES ASSUME Undone PROVE forcePush' = forcePush
    OBVIOUS
  <2>1. cleanup.of = "CherryPick"
    BY <1>1, CleanupFacts DEF Undone, Typed, CleanupPart
  <2> QED
    BY <2>1 DEF Undone
<1> QED
  BY <1>2, <1>3, <1>4, <1>5 DEF Frame

\* The scene does not mix cherry-picks with what rewrites a branch, and there
\* is no Git in a terminal.
Unmixed ==
  /\ bound.outside = 0
  /\ "CherryPick" \in bound.kinds => bound.kinds \cap Rewriting = {}

ForcePushInv ==
  \/ Typed(NoPicks) /\ Steady
  \/ Typed(PicksOnly) /\ forcePush = [b \in Branches |-> 0]

LEMMA ForcePushInvInit ==
  ASSUME Unmixed, Init
  PROVE  ForcePushInv
<1>1. PICK scene \in Scenes : bound.kinds = scene.kinds
  BY DEF Init
<1>2. /\ bound.kinds \subseteq Kinds /\ bound.outside = 0 /\ ~(bound.outside > 0)
      /\ "CherryPick" \in bound.kinds => bound.kinds \cap Rewriting = {}
  BY <1>1, MultiCommitAssumption DEF Unmixed, Scene, Kinds, Rewriting
<1>3. CASE "CherryPick" \in bound.kinds
  <2>1. bound.kinds \subseteq PicksOnly /\ World(PicksOnly)
    BY <1>2, <1>3 DEF PicksOnly, World, Kinds
  <2>2. Typed(PicksOnly)
    BY <1>2, <2>1, TypedInit
  <2> QED
    BY <2>2 DEF ForcePushInv, Init
<1>4. CASE "CherryPick" \notin bound.kinds
  <2>1. bound.kinds \subseteq NoPicks /\ World(NoPicks)
    BY <1>2, <1>4 DEF NoPicks, World
  <2>2. Typed(NoPicks)
    BY <1>2, <2>1, TypedInit
  <2>3. ForcePushRewritten
    <3>1. \A b \in Branches : forcePush[b] = 0 /\ tips[b] # 0
      BY <2>2 DEF Init, Typed, TipsPart, Shas, NextPart
    <3> QED
      BY <3>1 DEF ForcePushRewritten
  <2>4. Steady
    BY <2>3 DEF Init, Steady, Ends, Idle
  <2> QED
    BY <2>2, <2>4 DEF ForcePushInv
<1> QED
  BY <1>3, <1>4

(* Where cherry-picks do not meet operations that rewrite, and no terminal *)
(* is at work, a branch that is listed at its tip was moved to that tip by *)
(* a rebase, reorder, squash or undo, never by a merge, pull or commit,    *)
(* however these overlap and in whatever order statuses are read and       *)
(* applied.  The hypothesis is needed: with a cherry-pick in between the   *)
(* status that ends an operation can be that of another branch, and then   *)
(* the code lists a branch that was not rewritten.                         *)
THEOREM OnlyRewrittenForcePushed == Spec /\ Unmixed => []ForcePushRewritten
<1>1. Init /\ Unmixed => ForcePushInv
  BY ForcePushInvInit
<1>2. ForcePushInv /\ [Next]_vars => ForcePushInv'
  <2> SUFFICES ASSUME ForcePushInv, [Next]_vars PROVE ForcePushInv'
    OBVIOUS
  <2>1. CASE Typed(NoPicks) /\ Steady
    <3>1. Typed(NoPicks)'
      BY <2>1, NoPicksFacts, TypedStep
    <3>2. Steady'
      BY <2>1, SteadyStep
    <3> QED
      BY <3>1, <3>2 DEF ForcePushInv
  <2>2. CASE Typed(PicksOnly) /\ forcePush = [b \in Branches |-> 0]
    <3>1. World(PicksOnly)
      BY DEF World, PicksOnly
    <3>2. Typed(PicksOnly)'
      BY <2>2, <3>1, TypedStep
    <3>3. (forcePush = [b \in Branches |-> 0])'
      BY <2>2, PicksListNothing
    <3> QED
      BY <3>2, <3>3 DEF ForcePushInv
  <2> QED
    BY <2>1, <2>2 DEF ForcePushInv
<1>3. ForcePushInv => ForcePushRewritten
  <2> SUFFICES ASSUME Typed(PicksOnly), forcePush = [b \in Branches |-> 0] PROVE ForcePushRewritten
    BY DEF ForcePushInv, Steady
  <2>1. \A b \in Branches : forcePush[b] = 0 /\ tips[b] # 0
    BY DEF Typed, TipsPart, Shas, NextPart
  <2> QED
    BY <2>1 DEF ForcePushRewritten
<1> QED
  BY <1>1, <1>2, <1>3, PTL DEF Spec
=============================================================================
