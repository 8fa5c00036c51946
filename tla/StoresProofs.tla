----------------------------- MODULE StoresProofs ----------------------------
(***************************************************************************)
(* What is proved of five parts of the application that share nothing: the *)
(* history view (CommitView), the indicators in the list of repositories   *)
(* (RepositoryIndicators), the commit status (CommitStatus), the todo      *)
(* lists of a reordering or squashing (RebaseTodo) and the lines chosen    *)
(* for a commit (PartialCommit), and at the end of MCStores, which puts    *)
(* them side by side: for any commits, files, repositories, finite number  *)
(* of refs, histories, diffs and bounds.  That every repository is         *)
(* refreshed and every ref is fetched needs fairness and is checked by TLC *)
(* only.                                                                   *)
(***************************************************************************)
EXTENDS MCStores, ListProofs

-----------------------------------------------------------------------------
(* The history view.                                                       *)
FileLoads == [Id -> {Free} \cup FileLoad]

DiffLoads == [Id -> {Free} \cup DiffLoad]

(* Processes are started for selections that have a diff, and read files   *)
(* of the list.                                                            *)
ViewTypes ==
  /\ picked \in Selections \cup {NoCommit}
  /\ files \in Seq(FileSet)
  /\ file \in FileSet \cup {None}
  /\ fileLoads \in FileLoads
  /\ diffLoads \in DiffLoads

ViewInv == ViewTypes /\ DiffOfSelection /\ DiffExpected

LEMMA ViewInitInv == ViewInit => ViewInv
BY DEF ViewInit, ViewInv, ViewTypes, DiffOfSelection, DiffExpected, FileLoads, FileLoad, DiffLoads, DiffLoad

(* Selecting a file forgets the diff on screen and, if there is one to     *)
(* show, starts a process that will show it.                               *)
LEMMA SelectFileKeeps ==
  ASSUME ViewInv, NEW f \in FileSet, SelectFile(f), UNCHANGED picked
  PROVE  /\ file' \in FileSet /\ diffLoads' \in DiffLoads
         /\ DiffOfSelection' /\ DiffExpected'
<1>1. file' = f /\ diff' = None /\ picked' = picked
  BY DEF SelectFile
<1>2. CASE ~HasDiff(picked)
  BY <1>1, <1>2 DEF SelectFile, ViewInv, ViewTypes, DiffOfSelection, DiffExpected, HasDiff
<1>3. CASE HasDiff(picked)
  <2>1. PICK id \in Id : diffLoads' = [diffLoads EXCEPT ![id] =
                            [at |-> "git", of |-> picked, file |-> f]]
    BY <1>3 DEF SelectFile
  <2>2. picked \in Selections
    BY <1>3 DEF HasDiff, ViewInv, ViewTypes
  <2>3. diffLoads' \in DiffLoads
    BY <2>1, <2>2 DEF ViewInv, ViewTypes, DiffLoads, DiffLoad
  <2>4. diffLoads'[id] = [at |-> "git", of |-> picked, file |-> f]
    BY <2>1 DEF ViewInv, ViewTypes, DiffLoads, DiffLoad
  <2>5. DiffExpected'
    BY <2>4, <1>1 DEF DiffExpected, StillShown
  <2> QED
    BY <1>1, <2>3, <2>5 DEF DiffOfSelection
<1> QED
  BY <1>2, <1>3

(* A step that leaves what is on screen and the processes that read diffs. *)
LEMMA SameScreen ==
  ASSUME ViewInv, UNCHANGED <<picked, file, diff, diffLoads>>
  PROVE  DiffOfSelection' /\ DiffExpected'
BY DEF ViewInv, DiffOfSelection, DiffExpected, StillShown

(* A step that clears the screen.                                          *)
LEMMA Cleared ==
  ASSUME file' = None, diff' = None
  PROVE  DiffOfSelection' /\ DiffExpected'
BY DEF DiffOfSelection, DiffExpected

LEMMA ViewStepInv == ViewInv /\ [ViewNext]_viewVars => ViewInv'
<1> SUFFICES ASSUME ViewInv, [ViewNext]_viewVars PROVE ViewInv'
  OBVIOUS
<1> USE DEF ViewTypes
<1>0. ViewTypes
  BY DEF ViewInv
<1>1. ASSUME NEW commits \in Selections, ChangeCommitSelection(commits)
      PROVE  ViewInv'
  <2>1. file' = None /\ diff' = None
    BY <1>1 DEF ChangeCommitSelection
  <2>2. ViewTypes'
    BY <1>0, <1>1 DEF ChangeCommitSelection
  <2> QED
    BY <2>1, <2>2, Cleared DEF ViewInv
<1>2. ASSUME NEW f \in FileSet, ChangeFileSelection(f)
      PROVE  ViewInv'
  <2>1. SelectFile(f) /\ UNCHANGED <<picked, files, fileLoads>>
    BY <1>2 DEF ChangeFileSelection
  <2>2. /\ file' \in FileSet /\ diffLoads' \in DiffLoads
        /\ DiffOfSelection' /\ DiffExpected'
    BY <2>1, SelectFileKeeps
  <2> QED
    BY <1>0, <2>1, <2>2 DEF ViewInv
<1>3. ASSUME NEW id \in Id, FilesFail(id)
      PROVE  ViewInv'
  <2>1. UNCHANGED <<picked, files, file, diff, diffLoads>>
    BY <1>3 DEF FilesFail
  <2>2. fileLoads' \in FileLoads
    BY <1>0, <1>3 DEF FilesFail, FileLoads, FileLoad
  <2> QED
    BY <1>0, <2>1, <2>2, SameScreen DEF ViewInv
<1>4. ASSUME NEW id \in Id, FilesArrive(id)
      PROVE  ViewInv'
  <2> DEFINE load == fileLoads[id]
             found == FilesOf[load.of]
             first == IF load.file = None /\ found # <<>> THEN found[1] ELSE load.file
  <2>1. load \in [at : {"git"}, of : Selections, file : FileSet \cup {None}]
    BY <1>0, <1>4 DEF FilesArrive, FileLoads, FileLoad, Free
  <2>2. found \in Seq(FileSet)
    BY <2>1, FilesAssumption
  <2>3. first \in FileSet \cup {None}
    BY <2>1, <2>2
  <2>4. /\ files' = found /\ ReadDiff(first, load)
        /\ fileLoads' = [fileLoads EXCEPT ![id] = Free] /\ UNCHANGED picked
    BY <1>4 DEF FilesArrive
  <2>5. fileLoads' \in FileLoads
    BY <1>0, <2>4 DEF FileLoads, FileLoad
  <2>6. CASE first # None
    <3> HIDE DEF first, found, load
    <3>1. SelectFile(first) /\ first \in FileSet
      BY <2>3, <2>4, <2>6 DEF ReadDiff
    <3>2. /\ file' \in FileSet /\ diffLoads' \in DiffLoads
          /\ DiffOfSelection' /\ DiffExpected'
      BY <2>4, <3>1, SelectFileKeeps
    <3> QED
      BY <1>0, <2>2, <2>4, <2>5, <3>2 DEF ViewInv
  <2>7. CASE first = None
    <3> HIDE DEF first, found, load
    <3>1. file' = None /\ diff' = None /\ UNCHANGED diffLoads
      BY <2>4, <2>7 DEF ReadDiff
    <3> QED
      BY <1>0, <2>2, <2>4, <2>5, <3>1, Cleared DEF ViewInv
  <2> QED
    BY <2>6, <2>7
<1>5. ASSUME NEW id \in Id, DiffFails(id)
      PROVE  ViewInv'
  <2>1. UNCHANGED <<picked, files, file, diff, fileLoads>>
    BY <1>5 DEF DiffFails
  <2>2. diffLoads[id] \in [at : {"git", "failed"}, of : Selections, file : FileSet]
    BY <1>0, <1>5 DEF DiffFails, DiffLoads, DiffLoad, Free
  <2>3. diffLoads' = [diffLoads EXCEPT ![id] = [diffLoads[id] EXCEPT !.at = "failed"]]
    BY <1>5 DEF DiffFails
  <2>4. diffLoads' \in DiffLoads
    BY <1>0, <2>2, <2>3 DEF DiffLoads, DiffLoad
  <2>5. \A i \in Id : diffLoads[i].at # "free" =>
                      /\ diffLoads'[i].at # "free"
                      /\ diffLoads'[i].of = diffLoads[i].of
                      /\ diffLoads'[i].file = diffLoads[i].file
    BY <1>0, <2>2, <2>3 DEF DiffLoads, DiffLoad
  <2>6. DiffOfSelection'
    BY <2>1 DEF ViewInv, DiffOfSelection
  <2>7. DiffExpected'
    BY <2>1, <2>5 DEF ViewInv, DiffExpected, StillShown
  <2> QED
    BY <1>0, <2>1, <2>4, <2>6, <2>7 DEF ViewInv
<1>6. ASSUME NEW id \in Id, DiffArrives(id)
      PROVE  ViewInv'
  <2>1. UNCHANGED <<picked, files, file, fileLoads>>
    BY <1>6 DEF DiffArrives
  <2>2. diffLoads[id] \in [at : {"git", "failed"}, of : Selections, file : FileSet]
    BY <1>0, <1>6 DEF DiffArrives, DiffLoads, DiffLoad, Free
  <2>3. diffLoads' = [diffLoads EXCEPT ![id] = Free] /\ diffLoads' \in DiffLoads
    BY <1>0, <1>6 DEF DiffArrives, DiffLoads, DiffLoad
  <2>4. CASE StillShown(diffLoads[id])
    <3>1. diff' = [of |-> diffLoads[id].of.shas, file |-> diffLoads[id].file]
      BY <1>6, <2>4 DEF DiffArrives
    <3>2. diff' # None
      BY <2>2, <3>1, NoneAssumption
    <3>3. diff' = [of |-> picked'.shas, file |-> file']
      BY <2>1, <2>4, <3>1 DEF StillShown
    <3> QED
      BY <1>0, <2>1, <2>3, <3>2, <3>3 DEF ViewInv, DiffOfSelection, DiffExpected
  <2>5. CASE ~StillShown(diffLoads[id])
    <3>1. diff' = diff
      BY <1>6, <2>5 DEF DiffArrives
    <3>2. \A i \in Id : StillShown(diffLoads[i]) => diffLoads'[i] = diffLoads[i]
      BY <1>0, <2>3, <2>5 DEF DiffLoads, DiffLoad
    <3>3. DiffOfSelection' /\ DiffExpected'
      BY <2>1, <3>1, <3>2 DEF ViewInv, DiffOfSelection, DiffExpected, StillShown
    <3> QED
      BY <1>0, <2>1, <2>3, <3>3 DEF ViewInv
  <2> QED
    BY <2>4, <2>5
<1>7. ASSUME NEW id \in Id, Forget(id)
      PROVE  ViewInv'
  <2>1. UNCHANGED <<picked, files, file, diff, fileLoads>>
    BY <1>7 DEF Forget
  <2>2. diffLoads' = [diffLoads EXCEPT ![id] = Free] /\ diffLoads' \in DiffLoads
    BY <1>0, <1>7 DEF Forget, DiffLoads, DiffLoad
  <2>3. \A i \in Id : StillShown(diffLoads[i]) => diffLoads'[i] = diffLoads[i]
    BY <1>0, <1>7, <2>2 DEF Forget, DiffLoads, DiffLoad
  <2>4. DiffOfSelection' /\ DiffExpected'
    BY <2>1, <2>3 DEF ViewInv, DiffOfSelection, DiffExpected, StillShown
  <2> QED
    BY <1>0, <2>1, <2>2, <2>4 DEF ViewInv
<1>8. ASSUME NEW first \in {NoCommit} \cup Selections, SelectFirstCommit(first)
      PROVE  ViewInv'
  <2>1. /\ picked' = first /\ files' = <<>> /\ file' = None /\ diff' = None
        /\ UNCHANGED diffLoads
    BY <1>8 DEF SelectFirstCommit
  <2>2. fileLoads' \in FileLoads
    BY <1>0, <1>8 DEF SelectFirstCommit, FileLoads, FileLoad
  <2> QED
    BY <1>0, <2>1, <2>2, Cleared DEF ViewInv
<1>9. CASE LoadChangedFiles
  <2>1. UNCHANGED <<picked, files, file, diff, diffLoads>>
    BY <1>9 DEF LoadChangedFiles
  <2>2. picked \in Selections
    BY <1>0, <1>9 DEF LoadChangedFiles, HasDiff
  <2>3. fileLoads' \in FileLoads
    BY <1>0, <1>9, <2>2 DEF LoadChangedFiles, FileLoads, FileLoad
  <2> QED
    BY <1>0, <2>1, <2>3, SameScreen DEF ViewInv
<1>10. CASE SetHideWhitespace
  <2>1. SelectFile(file) /\ file \in FileSet /\ UNCHANGED <<picked, files, fileLoads>>
    BY <1>0, <1>10 DEF SetHideWhitespace
  <2>2. /\ file' \in FileSet /\ diffLoads' \in DiffLoads
        /\ DiffOfSelection' /\ DiffExpected'
    BY <2>1, SelectFileKeeps
  <2> QED
    BY <1>0, <2>1, <2>2 DEF ViewInv
<1>11. CASE UNCHANGED viewVars
  BY <1>0, <1>11, SameScreen DEF viewVars, ViewInv
<1> QED
  BY <1>1, <1>2, <1>3, <1>4, <1>5, <1>6, <1>7, <1>8, <1>9, <1>10, <1>11 DEF ViewNext

(* The inductive invariant of the history view.                            *)
THEOREM ViewInvariance == ViewSpec => []ViewInv
BY ViewInitInv, ViewStepInv, PTL DEF ViewSpec

(* Type correctness of the history view: processes read the files of       *)
(* commits that can be selected and the diffs of files that commits have   *)
(* changed (app-store.ts:1718-1859).                                       *)
THEOREM ViewTyped == ViewSpec => []ViewTypeOK
<1>1. ViewInv => ViewTypeOK
  BY DEF ViewInv, ViewTypes, ViewTypeOK, FileLoads, FileLoad, DiffLoads, DiffLoad, Free
<1> QED
  BY ViewInvariance, <1>1, PTL

(* The diff on screen is the one of the file and the commits selected.     *)
THEOREM DiffIsOfSelection == ViewSpec => []DiffOfSelection
<1>1. ViewInv => DiffOfSelection
  BY DEF ViewInv
<1> QED
  BY ViewInvariance, <1>1, PTL

(* A selected file without a diff has one coming, unless it has failed.    *)
THEOREM DiffIsExpected == ViewSpec => []DiffExpected
<1>1. ViewInv => DiffExpected
  BY DEF ViewInv
<1> QED
  BY ViewInvariance, <1>1, PTL

-----------------------------------------------------------------------------
(* The indicators in the list of repositories.                             *)
LoopState ==
  [at : {"none", "starting"}, done : SUBSET Repos]
    \cup [at : {"refreshing", "waiting"}, done : SUBSET Repos, repo : Repos]

IndicatorTypes ==
  /\ running \in BOOLEAN /\ timer \in BOOLEAN /\ paused \in BOOLEAN
  /\ opened \in Repos /\ throws \in Nat /\ throws <= MaxThrows
  /\ loops \in [Loop -> LoopState]
  /\ timer => running

(* A loop that waits before its first refresh was started by a timer; it   *)
(* may have been stopped since, and then a start has set another timer.    *)
IndicatorInv == IndicatorTypes /\ ChainUnbroken

(* Each repository that is left gives a state of a loop that refreshes it. *)
LEMMA RefreshingType ==
  ASSUME NEW done \in SUBSET Repos, NEW r \in Repos
  PROVE  /\ Refreshing(done, r) \in LoopState /\ Waiting(done, r) \in LoopState
         /\ WithDone(done, r) \in SUBSET Repos
         /\ Refreshing(done, r).at = "refreshing" /\ Waiting(done, r).at = "waiting"
BY DEF Refreshing, Waiting, LoopState, WithDone

LEMMA IdleType ==
  /\ Idle \in LoopState /\ Starting \in LoopState
  /\ Idle.at = "none" /\ Starting.at = "starting"
BY DEF Idle, Starting, LoopState

LEMMA IndicatorInitInv == IndicatorInit => IndicatorInv
<1> SUFFICES ASSUME IndicatorInit PROVE IndicatorInv
  OBVIOUS
<1>1. /\ running = FALSE /\ timer = FALSE /\ paused = FALSE /\ opened \in Repos
      /\ loops = [l \in Loop |-> Idle] /\ throws = 0
  BY DEF IndicatorInit
<1>2. loops \in [Loop -> LoopState] /\ throws \in Nat /\ throws <= MaxThrows
  BY <1>1, IdleType, MaxThrowsAssumption
<1>3. IndicatorTypes
  BY <1>1, <1>2, Zenon DEF IndicatorTypes
<1>4. ChainUnbroken
  BY <1>1, Zenon DEF ChainUnbroken
<1> QED
  BY <1>3, <1>4 DEF IndicatorInv

LEMMA LoopType ==
  ASSUME NEW loop \in LoopState
  PROVE  /\ loop.done \in SUBSET Repos
         /\ loop.at \in {"none", "starting", "refreshing", "waiting"}
         /\ loop.at \in {"refreshing", "waiting"} => loop.repo \in Repos
BY DEF LoopState

(* A loop that goes on refreshes another repository; one that ends leaves  *)
(* a timer behind.                                                         *)
LEMMA GoOnKeeps ==
  ASSUME IndicatorTypes, NEW l \in Loop, NEW done \in SUBSET Repos, GoOn(l, done)
  PROVE  /\ loops' \in [Loop -> LoopState] /\ timer' \in BOOLEAN
         /\ timer' => running
         /\ running => timer' \/ loops'[l].at # "none"
<1>1. CASE running /\ Remaining(done) # {}
  <2>1. PICK r \in Remaining(done) : loops' = [loops EXCEPT ![l] = Refreshing(done, r)]
    BY <1>1 DEF GoOn
  <2>2. r \in Repos
    BY DEF Remaining
  <2> QED
    BY <1>1, <2>1, <2>2, RefreshingType DEF GoOn, IndicatorTypes
<1>2. CASE ~(running /\ Remaining(done) # {})
  BY <1>2, IdleType DEF GoOn, ScheduleRefresh, IndicatorTypes
<1> QED
  BY <1>1, <1>2

LEMMA ResumedType ==
  ASSUME NEW loop \in LoopState, NEW next \in Resumed(loop, running)
  PROVE  next \in LoopState
<1> DEFINE done == IF loop.at = "waiting" THEN WithDone(loop.done, loop.repo) ELSE {}
<1>1. done \in SUBSET Repos
  BY LoopType, RefreshingType
<1>2. Remaining(done) \subseteq Repos
  BY DEF Remaining
<1>3. next \in {Refreshing(done, r) : r \in Remaining(done)} \cup {Idle}
  BY DEF Resumed
<1> HIDE DEF done
<1> QED
  BY <1>1, <1>2, <1>3, RefreshingType, IdleType

LEMMA IndicatorStepInv == IndicatorInv /\ [IndicatorNext]_indicatorVars => IndicatorInv'
<1> SUFFICES ASSUME IndicatorInv, [IndicatorNext]_indicatorVars PROVE IndicatorInv'
  OBVIOUS
<1>0. IndicatorTypes /\ ChainUnbroken
  BY DEF IndicatorInv
<1>1. CASE Start
  BY <1>0, <1>1 DEF Start, IndicatorInv, IndicatorTypes, ChainUnbroken
<1>2. CASE Stop
  BY <1>0, <1>2 DEF Stop, IndicatorInv, IndicatorTypes, ChainUnbroken
<1>3. CASE Pause
  BY <1>0, <1>3 DEF Pause, IndicatorInv, IndicatorTypes, ChainUnbroken
<1>4. CASE Resume
  <2> DEFINE waits == {l \in Loop : loops[l].at \in {"starting", "waiting"}}
  <2>1. PICK next :
           /\ next \in [Loop -> UNION {Resumed(loops[l], running) : l \in waits}
                                  \cup {loops[l] : l \in Loop \ waits}]
           /\ \A l \in waits : next[l] \in Resumed(loops[l], running)
           /\ \A l \in Loop \ waits : next[l] = loops[l]
           /\ loops' = next
           /\ timer' = (timer \/ (running /\ \E l \in waits : next[l] = Idle))
    BY <1>4 DEF Resume
  <2>2. /\ paused' = FALSE /\ UNCHANGED <<running, opened, throws>>
    BY <1>4 DEF Resume
  <2>3. \A l \in Loop : next[l] \in LoopState
    BY <1>0, <2>1, ResumedType DEF IndicatorTypes
  <2>4. loops' \in [Loop -> LoopState] /\ timer' \in BOOLEAN /\ (timer' => running)
    BY <1>0, <2>1, <2>3 DEF IndicatorTypes
  <2>5. \A l \in waits : next[l] = Idle \/ next[l].at = "refreshing"
    <3> TAKE l \in waits
    <3>1. PICK done \in SUBSET Repos :
             next[l] \in {Refreshing(done, r) : r \in Remaining(done)} \cup {Idle}
      <4> DEFINE d == IF loops[l].at = "waiting"
                      THEN WithDone(loops[l].done, loops[l].repo) ELSE {}
      <4>1. d \in SUBSET Repos
        BY <1>0, LoopType, RefreshingType DEF IndicatorTypes
      <4>2. next[l] \in {Refreshing(d, r) : r \in Remaining(d)} \cup {Idle}
        BY <2>1 DEF Resumed
      <4> QED
        BY <4>1, <4>2
    <3>2. Remaining(done) \subseteq Repos
      BY DEF Remaining
    <3>3. ASSUME NEW r \in Remaining(done)
          PROVE  Refreshing(done, r).at = "refreshing"
      BY <3>2, RefreshingType
    <3> QED
      BY <3>1, <3>3
  <2>6. ChainUnbroken'
    <3> SUFFICES ASSUME running, throws = 0, ~timer'
                 PROVE  \E l \in Loop : loops'[l].at # "none"
      BY <2>2 DEF ChainUnbroken
    <3>1. PICK l \in Loop : loops[l].at # "none"
      BY <1>0, <2>1 DEF ChainUnbroken
    <3>2. CASE l \in waits
      BY <2>1, <2>5, <3>2
    <3>3. CASE l \notin waits
      BY <2>1, <3>1, <3>3
    <3> QED
      BY <3>2, <3>3
  <2> QED
    BY <1>0, <2>2, <2>4, <2>6 DEF IndicatorInv, IndicatorTypes
<1>5. ASSUME NEW l \in Loop, Fire(l)
      PROVE  IndicatorInv'
  <2>1. /\ timer /\ loops[l] = Idle /\ UNCHANGED <<running, paused, opened, throws>>
    BY <1>5 DEF Fire
  <2>2. CASE paused
    <3>1. loops' = [loops EXCEPT ![l] = Starting] /\ timer' = FALSE
      BY <1>5, <2>2 DEF Fire
    <3> QED
      BY <1>0, <2>1, <3>1, IdleType DEF IndicatorInv, IndicatorTypes, ChainUnbroken
  <2>3. CASE ~paused /\ Remaining({}) = {}
    BY <1>0, <1>5, <2>1, <2>3 DEF Fire, IndicatorInv, IndicatorTypes, ChainUnbroken
  <2>4. CASE ~paused /\ Remaining({}) # {}
    <3>1. PICK r \in Remaining({}) : loops' = [loops EXCEPT ![l] = Refreshing({}, r)]
      BY <1>5, <2>4 DEF Fire
    <3>2. timer' = FALSE
      BY <1>5, <2>4 DEF Fire
    <3>3. Refreshing({}, r) \in LoopState /\ Refreshing({}, r).at = "refreshing"
      BY RefreshingType DEF Remaining
    <3> QED
      BY <1>0, <2>1, <3>1, <3>2, <3>3 DEF IndicatorInv, IndicatorTypes, ChainUnbroken
  <2> QED
    BY <2>2, <2>3, <2>4
<1>6. ASSUME NEW l \in Loop, RefreshEnds(l)
      PROVE  IndicatorInv'
  <2>1. loops[l].at = "refreshing" /\ UNCHANGED <<running, paused, opened, throws>>
    BY <1>6 DEF RefreshEnds
  <2>2. loops[l].done \in SUBSET Repos /\ loops[l].repo \in Repos
    BY <1>0, <2>1, LoopType DEF IndicatorTypes
  <2>3. CASE PauseSeen
    <3>1. loops' = [loops EXCEPT ![l] = Waiting(loops[l].done, loops[l].repo)] /\ timer' = timer
      BY <1>6, <2>3 DEF RefreshEnds
    <3>2. /\ Waiting(loops[l].done, loops[l].repo) \in LoopState
          /\ Waiting(loops[l].done, loops[l].repo).at = "waiting"
      BY <2>2, RefreshingType
    <3> QED
      BY <1>0, <2>1, <3>1, <3>2 DEF IndicatorInv, IndicatorTypes, ChainUnbroken
  <2>4. CASE ~PauseSeen
    <3>1. GoOn(l, WithDone(loops[l].done, loops[l].repo))
      BY <1>6, <2>4 DEF RefreshEnds
    <3>2. WithDone(loops[l].done, loops[l].repo) \in SUBSET Repos
      BY <2>2, RefreshingType
    <3>3. /\ loops' \in [Loop -> LoopState] /\ timer' \in BOOLEAN
          /\ timer' => running
          /\ running => timer' \/ loops'[l].at # "none"
      BY <1>0, <3>1, <3>2, GoOnKeeps
    <3> QED
      BY <1>0, <2>1, <3>3 DEF IndicatorInv, IndicatorTypes, ChainUnbroken
  <2> QED
    BY <2>3, <2>4
<1>7. ASSUME NEW l \in Loop, RefreshThrows(l)
      PROVE  IndicatorInv'
  BY <1>0, <1>7, IdleType, MaxThrowsAssumption
  DEF RefreshThrows, IndicatorInv, IndicatorTypes, ChainUnbroken
<1>8. ASSUME NEW r \in Repos, Open(r)
      PROVE  IndicatorInv'
  BY <1>0, <1>8 DEF Open, IndicatorInv, IndicatorTypes, ChainUnbroken
<1>9. CASE UNCHANGED indicatorVars
  BY <1>0, <1>9 DEF indicatorVars, IndicatorInv, IndicatorTypes, ChainUnbroken
<1> QED
  BY <1>1, <1>2, <1>3, <1>4, <1>5, <1>6, <1>7, <1>8, <1>9 DEF IndicatorNext

LEMMA IndicatorInvariance == IndicatorSpec => []IndicatorInv
BY IndicatorInitInv, IndicatorStepInv, PTL DEF IndicatorSpec

(* Type correctness of the indicators: no timer is set once they are       *)
(* stopped, and a loop is done with repositories only.                     *)
THEOREM IndicatorsTyped == IndicatorSpec => []IndicatorTypeOK
<1>1. IndicatorInv => IndicatorTypeOK
  <2> SUFFICES ASSUME IndicatorInv PROVE IndicatorTypeOK
    OBVIOUS
  <2>1. \A l \in Loop : /\ loops[l].at \in {"none", "starting", "refreshing", "waiting"}
                       /\ loops[l].done \subseteq Repos
    BY LoopType DEF IndicatorInv, IndicatorTypes
  <2>2. throws \in 0..MaxThrows /\ opened \in Repos /\ {running, timer, paused} \subseteq BOOLEAN
    BY MaxThrowsAssumption DEF IndicatorInv, IndicatorTypes
  <2> QED
    BY <2>1, <2>2 DEF IndicatorInv, IndicatorTypes, IndicatorTypeOK
<1> QED
  BY IndicatorInvariance, <1>1, PTL

(* Between start and stop there is always a timer or a loop, unless a      *)
(* refresh has thrown.                                                     *)
THEOREM NothingBreaksTheChain == IndicatorSpec => []ChainUnbroken
<1>1. IndicatorInv => ChainUnbroken
  BY DEF IndicatorInv
<1> QED
  BY IndicatorInvariance, <1>1, PTL

(* No refresh begins while the window stays in the background.             *)
THEOREM PauseHolds == IndicatorSpec => PausedStartsNothing
<1>1. ASSUME IndicatorInv, [IndicatorNext]_indicatorVars, paused, paused', NEW l \in Loop,
             loops'[l].at = "refreshing"
      PROVE  loops'[l] = loops[l]
  <2>0. IndicatorTypes
    BY <1>1 DEF IndicatorInv
  <2>1. CASE loops' = loops
    BY <2>1
  <2>2. ASSUME NEW k \in Loop, Fire(k)
        PROVE  loops'[l] = loops[l]
    <3>1. loops' = [loops EXCEPT ![k] = Starting]
      BY <1>1, <2>2 DEF Fire
    <3> QED
      BY <1>1, <2>0, <3>1, IdleType DEF IndicatorTypes
  <2>3. ASSUME NEW k \in Loop, RefreshEnds(k)
        PROVE  loops'[l] = loops[l]
    <3>1. loops[k].at = "refreshing"
      BY <2>3 DEF RefreshEnds
    <3>2. loops[k].done \in SUBSET Repos /\ loops[k].repo \in Repos
      BY <2>0, <3>1, LoopType DEF IndicatorTypes
    <3>3. loops' = [loops EXCEPT ![k] = Waiting(loops[k].done, loops[k].repo)]
      BY <1>1, <2>3 DEF RefreshEnds, PauseSeen
    <3> QED
      BY <1>1, <2>0, <3>2, <3>3, RefreshingType DEF IndicatorTypes
  <2>4. ASSUME NEW k \in Loop, RefreshThrows(k)
        PROVE  loops'[l] = loops[l]
    BY <1>1, <2>0, <2>4, IdleType DEF RefreshThrows, IndicatorTypes
  <2>5. ~Pause /\ ~Resume
    BY <1>1 DEF Pause, Resume
  <2>6. ASSUME Start \/ Stop \/ (\E r \in Repos : Open(r)) \/ UNCHANGED indicatorVars
        PROVE  loops' = loops
    BY <2>6 DEF Start, Stop, Open, indicatorVars
  <2> QED
    BY <1>1, <2>1, <2>2, <2>3, <2>4, <2>5, <2>6 DEF IndicatorNext
<1>2. IndicatorInv /\ [IndicatorNext]_indicatorVars =>
        [paused /\ paused' =>
           \A l \in Loop : loops'[l].at = "refreshing" => loops'[l] = loops[l]]_indicatorVars
  BY <1>1
<1> QED
  BY IndicatorInvariance, <1>2, PTL DEF IndicatorSpec, PausedStartsNothing

-----------------------------------------------------------------------------
(* The commit status of refs.                                              *)
Subscription == [set : SetId, branch : BranchNames]

StatusTypes ==
  /\ subscriptions \in [Refs -> {NoSubscription} \cup Subscription]
  /\ callbackSets \in [SetId -> SUBSET StatusCallbacks]
  /\ disposables \in [StatusCallbacks -> {NoSubscription} \cup [ref : Refs, set : SetId]]
  /\ fetches \in [Refs -> {NoFetch} \cup
                     [at : {"checks", "workflows"}, branch : BranchNames]]
  /\ limited \in Seq(Refs)

\* No two refs share a set of callbacks.
OwnSets ==
  \A ref, other \in Subscribed :
    ref # other => subscriptions[ref].set # subscriptions[other].set

\* A component disposes of the set that the subscription of its ref has now.
HoldsCurrent ==
  \A cb \in StatusCallbacks :
    disposables[cb] # NoSubscription =>
      /\ disposables[cb].ref \in Subscribed
      /\ subscriptions[disposables[cb].ref].set = disposables[cb].set
      /\ cb \in callbackSets[disposables[cb].set]

StatusInv == StatusTypes /\ OwnSets /\ HoldsCurrent
-----------------------------------------------------------------------------
LEMMA SubscriptionType ==
  /\ NoSubscription \notin Subscription
  /\ NoSubscription \notin [ref : Refs, set : SetId]
BY NoSubscriptionAssumption DEF Subscription, SetId

(* The image of a finite set is no larger than the set.                    *)
LEMMA ImageBound ==
  ASSUME NEW S, IsFiniteSet(S), NEW f, f = [x \in S |-> f[x]]
  PROVE  /\ IsFiniteSet({f[x] : x \in S})
         /\ Cardinality({f[x] : x \in S}) <= Cardinality(S)
<1>1. f \in Surjection(S, {f[x] : x \in S})
  BY DEF Surjection
<1> QED
  BY <1>1, FS_Surjection

(* As long as a ref has no subscription, there is a set left for it.       *)
LEMMA NewSetIsNew ==
  ASSUME StatusTypes, NEW ref \in Refs, ref \notin Subscribed
  PROVE  NewSet \in SetId /\ NewSet \notin SetsInUse
<1> DEFINE n == Cardinality(Refs)
<1>1. /\ IsFiniteSet(Subscribed) /\ Cardinality(Subscribed) \in Nat
      /\ n \in Nat /\ Cardinality(Subscribed) < n
  <2>1. IsFiniteSet(Refs \ {ref}) /\ Cardinality(Refs \ {ref}) = n - 1
    BY RefsAssumption, FS_RemoveElement
  <2>2. Subscribed \in SUBSET (Refs \ {ref})
    BY DEF Subscribed
  <2>3. IsFiniteSet(Subscribed) /\ Cardinality(Subscribed) <= Cardinality(Refs \ {ref})
    BY <2>1, <2>2, FS_Subset
  <2> QED
    BY <2>1, <2>3, RefsAssumption, FS_CardinalityType
<1>2. IsFiniteSet(SetsInUse) /\ Cardinality(SetsInUse) < n
  <2> DEFINE f == [r \in Subscribed |-> subscriptions[r].set]
  <2>1. SetsInUse = {f[r] : r \in Subscribed} /\ f = [r \in Subscribed |-> f[r]]
    BY DEF SetsInUse
  <2> HIDE DEF f
  <2>2. IsFiniteSet(SetsInUse) /\ Cardinality(SetsInUse) <= Cardinality(Subscribed)
    BY <1>1, <2>1, ImageBound
  <2>3. Cardinality(SetsInUse) \in Nat
    BY <2>2, FS_CardinalityType
  <2> HIDE DEF n
  <2> QED
    BY <1>1, <2>2, <2>3
<1>3. Cardinality(SetId) = n
  BY <1>1, FS_Interval DEF SetId
<1>4. \E id \in SetId : id \notin SetsInUse
  <2> SUFFICES ASSUME SetId \subseteq SetsInUse PROVE FALSE
    OBVIOUS
  <2>1. Cardinality(SetId) <= Cardinality(SetsInUse)
    BY <1>2, FS_Subset
  <2>2. Cardinality(SetsInUse) \in Nat
    BY <1>2, FS_CardinalityType
  <2> HIDE DEF n
  <2> QED
    BY <1>1, <1>2, <1>3, <2>1, <2>2
<1> QED
  BY <1>4 DEF NewSet
-----------------------------------------------------------------------------
LEMMA StatusInitInv == StatusInit => StatusInv
BY DEF StatusInit, StatusInv, StatusTypes, OwnSets, HoldsCurrent, Subscribed

(* A step that does not touch subscriptions, their sets or disposables.    *)
LEMMA SameSubscriptions ==
  ASSUME StatusInv, UNCHANGED <<subscriptions, callbackSets, disposables>>,
         fetches' \in [Refs -> {NoFetch} \cup
                     [at : {"checks", "workflows"}, branch : BranchNames]],
         limited' \in Seq(Refs)
  PROVE  StatusInv'
BY DEF StatusInv, StatusTypes, OwnSets, HoldsCurrent, Subscribed

LEMMA FetchKeeps ==
  ASSUME StatusInv, NEW ref \in Refs,
         FetchEnds(ref) \/ FetchWorkflows(ref) \/ FetchThrows(ref)
  PROVE  StatusInv'
<1>1. UNCHANGED <<subscriptions, callbackSets, disposables, limited>>
  BY DEF FetchEnds, FetchWorkflows, FetchThrows
<1>2. limited' \in Seq(Refs)
  BY <1>1 DEF StatusInv, StatusTypes
<1>3. CASE fetches' = [fetches EXCEPT ![ref] = NoFetch]
  BY <1>1, <1>2, <1>3, SameSubscriptions DEF StatusInv, StatusTypes
<1>4. CASE FetchWorkflows(ref)
  <2>1. fetches[ref] \in [at : {"checks", "workflows"}, branch : BranchNames]
    BY <1>4 DEF FetchWorkflows, StatusInv, StatusTypes, NoFetch
  <2>2. fetches' = [fetches EXCEPT ![ref] = [fetches[ref] EXCEPT !.at = "workflows"]]
    BY <1>4 DEF FetchWorkflows
  <2>3. fetches' \in [Refs -> {NoFetch} \cup
                     [at : {"checks", "workflows"}, branch : BranchNames]]
    BY <2>1, <2>2 DEF StatusInv, StatusTypes
  <2> QED
    BY <1>1, <1>2, <2>3, SameSubscriptions
<1> QED
  BY <1>3, <1>4 DEF FetchEnds, FetchThrows, AfterCatch, EndFetch

LEMMA BeginFetchKeeps ==
  ASSUME StatusInv, BeginFetch
  PROVE  StatusInv'
<1> DEFINE ref == Head(limited)
<1>1. UNCHANGED <<subscriptions, callbackSets, disposables>>
  BY DEF BeginFetch
<1>2. ref \in Refs /\ limited' \in Seq(Refs)
  BY DEF BeginFetch, StatusInv, StatusTypes
<1>3. CASE UNCHANGED fetches
  BY <1>1, <1>2, <1>3, SameSubscriptions DEF StatusInv, StatusTypes
<1>4. CASE ~UNCHANGED fetches
  <2>1. /\ subscriptions[ref] # NoSubscription
        /\ fetches' = [fetches EXCEPT ![ref] =
                        [at |-> "checks", branch |-> subscriptions[ref].branch]]
    BY <1>4 DEF BeginFetch
  <2>2. subscriptions[ref] \in Subscription
    BY <1>2, <2>1 DEF StatusInv, StatusTypes
  <2>3. fetches' \in [Refs -> {NoFetch} \cup
                     [at : {"checks", "workflows"}, branch : BranchNames]]
    BY <1>2, <2>1, <2>2 DEF StatusInv, StatusTypes, Subscription
  <2> QED
    BY <1>1, <1>2, <2>3, SameSubscriptions
<1> QED
  BY <1>3, <1>4

LEMMA RefreshEligibleKeeps ==
  ASSUME StatusInv, RefreshEligibleSubscriptions
  PROVE  StatusInv'
<1> DEFINE eligible == {ref \in Refs : Eligible(ref)}
<1>1. IsFiniteSet(eligible) /\ Cardinality(eligible) \in Nat
  BY RefsAssumption, FS_Subset, FS_CardinalityType
<1>2. PICK order \in [1..Cardinality(eligible) -> eligible] : limited' = limited \o order
  BY DEF RefreshEligibleSubscriptions
<1> HIDE DEF eligible
<1>3. order \in Seq(eligible)
  BY <1>1, <1>2
<1>4. order \in Seq(Refs)
  <2>1. eligible \subseteq Refs
    BY DEF eligible
  <2> QED
    BY <1>3, <2>1
<1>5. limited' \in Seq(Refs)
  BY <1>2, <1>4 DEF StatusInv, StatusTypes
<1> QED
  BY <1>5, SameSubscriptions DEF RefreshEligibleSubscriptions, StatusInv, StatusTypes
-----------------------------------------------------------------------------
(* A component subscribes to a ref that has a subscription: the set stays. *)
LEMMA SubscribeAgainKeeps ==
  ASSUME StatusInv, NEW cb \in StatusCallbacks, NEW ref \in Refs, NEW branch \in BranchNames,
         Subscribe(cb, ref, branch), ref \in Subscribed
  PROVE  StatusInv'
<1> DEFINE set == subscriptions[ref].set
<1>1. subscriptions[ref] \in Subscription /\ set \in SetId /\ subscriptions[ref] # NoSubscription
  BY DEF StatusInv, StatusTypes, Subscribed, Subscription
<1>2. /\ subscriptions' = [subscriptions EXCEPT ![ref] = [set |-> set, branch |-> branch]]
      /\ callbackSets' = [callbackSets EXCEPT ![set] = callbackSets[set] \cup {cb}]
      /\ disposables' = [disposables EXCEPT ![cb] = [ref |-> ref, set |-> set]]
      /\ UNCHANGED <<fetches, limited>>
  BY <1>1 DEF Subscribe, CallbacksShared
<1> HIDE DEF set
<1>3. StatusTypes'
  BY <1>1, <1>2 DEF StatusInv, StatusTypes, Subscription
<1>4. [set |-> set, branch |-> branch] # NoSubscription /\ [ref |-> ref, set |-> set] # NoSubscription
  BY <1>1, SubscriptionType DEF Subscription
<1>5. /\ Subscribed' = Subscribed
      /\ \A r \in Refs : r \in Subscribed => subscriptions'[r].set = subscriptions[r].set
  BY <1>1, <1>2, <1>4 DEF Subscribed, StatusInv, StatusTypes, set
<1>6. OwnSets'
  BY <1>5 DEF OwnSets, StatusInv, Subscribed
<1>7. HoldsCurrent'
  <2> SUFFICES ASSUME NEW c \in StatusCallbacks, disposables'[c] # NoSubscription
               PROVE  /\ disposables'[c].ref \in Subscribed'
                      /\ subscriptions'[disposables'[c].ref].set = disposables'[c].set
                      /\ c \in callbackSets'[disposables'[c].set]
    BY DEF HoldsCurrent
  <2>1. CASE c = cb
    BY <1>1, <1>2, <1>5, <2>1 DEF StatusInv, StatusTypes, set
  <2>2. CASE c # cb
    <3>1. disposables'[c] = disposables[c] /\ disposables[c] \in [ref : Refs, set : SetId]
      BY <1>2, <2>2 DEF StatusInv, StatusTypes
    <3>2. /\ disposables[c].ref \in Subscribed
          /\ subscriptions[disposables[c].ref].set = disposables[c].set
          /\ c \in callbackSets[disposables[c].set]
      BY <3>1 DEF StatusInv, HoldsCurrent
    <3>3. c \in callbackSets'[disposables[c].set]
      BY <1>1, <1>2, <3>1, <3>2 DEF StatusInv, StatusTypes
    <3> QED
      BY <1>5, <3>1, <3>2, <3>3
  <2> QED
    BY <2>1, <2>2
<1> QED
  BY <1>3, <1>6, <1>7 DEF StatusInv

(* A component subscribes to a ref that has none: it gets a set of its own.*)
LEMMA SubscribeFirstKeeps ==
  ASSUME StatusInv, NEW cb \in StatusCallbacks, NEW ref \in Refs, NEW branch \in BranchNames,
         Subscribe(cb, ref, branch), ref \notin Subscribed
  PROVE  StatusInv'
<1> DEFINE set == NewSet
<1>1. set \in SetId /\ set \notin SetsInUse /\ subscriptions[ref] = NoSubscription
  BY NewSetIsNew DEF StatusInv, Subscribed
<1>2. /\ subscriptions' = [subscriptions EXCEPT ![ref] = [set |-> set, branch |-> branch]]
      /\ callbackSets' = [callbackSets EXCEPT ![set] = {} \cup {cb}]
      /\ disposables' = [disposables EXCEPT ![cb] = [ref |-> ref, set |-> set]]
      /\ UNCHANGED <<fetches, limited>>
  BY <1>1 DEF Subscribe
<1> HIDE DEF set
<1>3. StatusTypes'
  BY <1>1, <1>2 DEF StatusInv, StatusTypes, Subscription
<1>4. [set |-> set, branch |-> branch] # NoSubscription
  BY <1>1, SubscriptionType DEF Subscription
<1>5. /\ Subscribed' = Subscribed \cup {ref}
      /\ \A r \in Subscribed : subscriptions'[r] = subscriptions[r] /\ subscriptions[r].set # set
      /\ subscriptions'[ref].set = set
  BY <1>1, <1>2, <1>4 DEF Subscribed, SetsInUse, StatusInv, StatusTypes
<1>6. OwnSets'
  BY <1>5 DEF OwnSets, StatusInv
<1>7. HoldsCurrent'
  <2> SUFFICES ASSUME NEW c \in StatusCallbacks, disposables'[c] # NoSubscription
               PROVE  /\ disposables'[c].ref \in Subscribed'
                      /\ subscriptions'[disposables'[c].ref].set = disposables'[c].set
                      /\ c \in callbackSets'[disposables'[c].set]
    BY DEF HoldsCurrent
  <2>1. CASE c = cb
    BY <1>1, <1>2, <1>5, <2>1 DEF StatusInv, StatusTypes
  <2>2. CASE c # cb
    <3>1. disposables'[c] = disposables[c] /\ disposables[c] \in [ref : Refs, set : SetId]
      BY <1>2, <2>2 DEF StatusInv, StatusTypes
    <3>2. /\ disposables[c].ref \in Subscribed
          /\ subscriptions[disposables[c].ref].set = disposables[c].set
          /\ c \in callbackSets[disposables[c].set]
      BY <3>1 DEF StatusInv, HoldsCurrent
    <3>3. c \in callbackSets'[disposables[c].set]
      BY <1>1, <1>2, <1>5, <3>1, <3>2 DEF StatusInv, StatusTypes
    <3> QED
      BY <1>5, <3>1, <3>2, <3>3
  <2> QED
    BY <2>1, <2>2
<1> QED
  BY <1>3, <1>6, <1>7 DEF StatusInv

(* A component that disposes takes the subscription away only when nobody  *)
(* else holds it.                                                          *)
LEMMA DisposeKeeps ==
  ASSUME StatusInv, NEW cb \in StatusCallbacks, Dispose(cb)
  PROVE  StatusInv'
<1> DEFINE mine == disposables[cb]
           left == callbackSets[mine.set] \ {cb}
<1>1. /\ mine \in [ref : Refs, set : SetId]
      /\ mine.ref \in Subscribed /\ subscriptions[mine.ref].set = mine.set
  BY DEF Dispose, StatusInv, StatusTypes, HoldsCurrent
<1>2. /\ callbackSets' = [callbackSets EXCEPT ![mine.set] = left]
      /\ subscriptions' = IF left = {}
                          THEN [subscriptions EXCEPT ![mine.ref] = NoSubscription]
                          ELSE subscriptions
      /\ disposables' = [disposables EXCEPT ![cb] = NoSubscription]
      /\ UNCHANGED <<fetches, limited>>
  BY DEF Dispose
<1>3. StatusTypes'
  BY <1>1, <1>2 DEF StatusInv, StatusTypes, Subscription
<1>4. OwnSets'
  BY <1>1, <1>2 DEF OwnSets, Subscribed, StatusInv, StatusTypes
<1>5. HoldsCurrent'
  <2> SUFFICES ASSUME NEW c \in StatusCallbacks, disposables'[c] # NoSubscription
               PROVE  /\ disposables'[c].ref \in Subscribed'
                      /\ subscriptions'[disposables'[c].ref].set = disposables'[c].set
                      /\ c \in callbackSets'[disposables'[c].set]
    BY DEF HoldsCurrent
  <2>1. c # cb /\ disposables'[c] = disposables[c] /\ disposables[c] \in [ref : Refs, set : SetId]
    BY <1>2 DEF StatusInv, StatusTypes
  <2>2. /\ disposables[c].ref \in Subscribed
        /\ subscriptions[disposables[c].ref].set = disposables[c].set
        /\ c \in callbackSets[disposables[c].set]
    BY <2>1 DEF StatusInv, HoldsCurrent
  <2>3. CASE disposables[c].ref = mine.ref
    <3>1. c \in left
      BY <1>1, <2>1, <2>2, <2>3
    <3>2. subscriptions' = subscriptions
      BY <1>2, <3>1
    <3>3. c \in callbackSets'[disposables[c].set]
      BY <1>1, <1>2, <2>1, <2>2, <2>3, <3>1 DEF StatusInv, StatusTypes
    <3> QED
      BY <2>1, <2>2, <3>2, <3>3 DEF Subscribed
  <2>4. CASE disposables[c].ref # mine.ref
    <3>1. disposables[c].set # mine.set
      BY <1>1, <2>2, <2>4 DEF StatusInv, OwnSets
    <3>2. subscriptions'[disposables[c].ref] = subscriptions[disposables[c].ref]
      BY <1>1, <1>2, <2>1, <2>4 DEF StatusInv, StatusTypes
    <3>3. c \in callbackSets'[disposables[c].set]
      BY <1>1, <1>2, <2>1, <2>2, <3>1 DEF StatusInv, StatusTypes
    <3> QED
      BY <2>1, <2>2, <3>2, <3>3 DEF Subscribed
  <2> QED
    BY <2>3, <2>4
<1> QED
  BY <1>3, <1>4, <1>5 DEF StatusInv
-----------------------------------------------------------------------------
LEMMA StatusStepInv ==
  ASSUME StatusInv, [StatusNext]_statusVars
  PROVE  StatusInv'
<1> DEFINE Quiet == UNCHANGED <<subscriptions, callbackSets, disposables, fetches, limited>>
<1>1. Quiet => StatusInv'
  BY SameSubscriptions DEF StatusInv, StatusTypes
<1>2. StartBackgroundRefresh \/ StopBackgroundRefresh \/ Interval \/ OnAccountsUpdated => Quiet
  BY DEF StartBackgroundRefresh, StopBackgroundRefresh, Interval, OnAccountsUpdated
<1>3. \A ref \in Refs : Age(ref) \/ ManualRefresh(ref) => Quiet
  BY DEF Age, ManualRefresh
<1>4. UNCHANGED statusVars => Quiet
  BY DEF statusVars
<1> HIDE DEF Quiet
<1>5. CASE RefreshEligibleSubscriptions
  BY <1>5, RefreshEligibleKeeps
<1>6. CASE BeginFetch
  BY <1>6, BeginFetchKeeps
<1>7. ASSUME NEW ref \in Refs, FetchEnds(ref) \/ FetchWorkflows(ref) \/ FetchThrows(ref)
      PROVE  StatusInv'
  BY <1>7, FetchKeeps
<1>8. ASSUME NEW ref \in Refs, NEW cb \in StatusCallbacks, NEW branch \in BranchNames,
             Subscribe(cb, ref, branch)
      PROVE  StatusInv'
  BY <1>8, SubscribeAgainKeeps, SubscribeFirstKeeps
<1>9. ASSUME NEW cb \in StatusCallbacks, Dispose(cb)
      PROVE  StatusInv'
  BY <1>9, DisposeKeeps
<1> QED
  BY <1>1, <1>2, <1>3, <1>4, <1>5, <1>6, <1>7, <1>8, <1>9 DEF StatusNext

(* The bookkeeping of subscriptions: the sets are told apart, and whoever  *)
(* has to dispose is a callback of the current subscription of its ref     *)
(* (commit-status-store.ts:407-483).                                       *)
THEOREM StatusInvariance == StatusSpec => []StatusInv
<1>1. StatusInv /\ [StatusNext]_statusVars => StatusInv'
  BY StatusStepInv
<1> QED
  BY StatusInitInv, <1>1, PTL DEF StatusSpec

(* Whoever subscribes is told by the next refresh of its ref, however many *)
(* refs, components and branch names there are.                            *)
THEOREM SubscribersStayReached == StatusSpec => []SubscribersReached
<1>1. StatusInv => SubscribersReached
  BY DEF StatusInv, HoldsCurrent, SubscribersReached, Subscribed
<1> QED
  BY StatusInvariance, <1>1, PTL
-----------------------------------------------------------------------------
(* The queue of the commit status: what waits for a slot or runs, each ref *)
(* once, and no more than the limit runs.                                  *)
Waits == {limited[i] : i \in DOMAIN limited}

QueueInv ==
  /\ queue = Running \cup Waits /\ Running \cap Waits = {}
  /\ \A i, j \in DOMAIN limited : i # j => limited[i] # limited[j]
  /\ Cardinality(Running) <= MaxConcurrentFetches
  /\ \A ref \in Refs : cached[ref] \in {"none", "fresh", "stale"}
  /\ DOMAIN cached = Refs

LEMMA RunningFinite ==
  /\ IsFiniteSet(Running) /\ Cardinality(Running) \in Nat
  /\ IsFiniteSet(Running') /\ Cardinality(Running') \in Nat
<1>1. Running \subseteq Refs /\ Running' \subseteq Refs
  BY DEF Running
<1> QED
  BY <1>1, RefsAssumption, FS_Subset, FS_CardinalityType

LEMMA SameQueue ==
  ASSUME QueueInv, UNCHANGED <<queue, limited, fetches>>, DOMAIN cached' = Refs,
         \A ref \in Refs : cached'[ref] \in {"none", "fresh", "stale"}
  PROVE  QueueInv'
BY DEF QueueInv, Running, Waits

\* A fetch is over: its slot is free, and the ref may be queued again.
LEMMA EndKeeps ==
  ASSUME StatusInv, QueueInv, NEW ref \in Running, EndFetch(ref), UNCHANGED limited,
         DOMAIN cached' = Refs, \A r \in Refs : cached'[r] \in {"none", "fresh", "stale"}
  PROVE  QueueInv'
<1>1. fetches' = [fetches EXCEPT ![ref] = NoFetch] /\ queue' = queue \ {ref}
  BY DEF EndFetch, Dequeue
<1>2. Running' = Running \ {ref}
  BY <1>1 DEF StatusInv, StatusTypes, Running
<1>3. Waits' = Waits /\ ref \notin Waits
  BY DEF Waits, QueueInv
<1>4. Cardinality(Running') <= MaxConcurrentFetches
  <2>1. Cardinality(Running \ {ref}) = Cardinality(Running) - 1
    BY RunningFinite, FS_RemoveElement
  <2> QED
    BY <1>2, <2>1, RunningFinite, LimitAssumption DEF QueueInv
<1> QED
  BY <1>1, <1>2, <1>3, <1>4 DEF QueueInv

LEMMA WorkflowsKeep ==
  ASSUME StatusInv, QueueInv, NEW ref \in Refs, FetchWorkflows(ref)
  PROVE  QueueInv'
<1>1. fetches[ref] # NoFetch /\ UNCHANGED <<queue, limited, cached>>
  BY DEF FetchWorkflows, NoFetch
<1>2. fetches[ref] \in [at : {"checks", "workflows"}, branch : BranchNames]
  BY <1>1 DEF StatusInv, StatusTypes
<1>3. fetches' = [fetches EXCEPT ![ref] = [fetches[ref] EXCEPT !.at = "workflows"]]
  BY DEF FetchWorkflows
<1>4. fetches'[ref] # NoFetch
  BY <1>2, <1>3 DEF StatusInv, StatusTypes, NoFetch
<1>5. Running' = Running
  BY <1>1, <1>3, <1>4 DEF StatusInv, StatusTypes, Running
<1> QED
  BY <1>1, <1>5 DEF QueueInv, Waits

\* The first ref that waits leaves the queue or takes a slot.
LEMMA BeginKeeps ==
  ASSUME StatusInv, QueueInv, BeginFetch
  PROVE  QueueInv'
<1> DEFINE ref == Head(limited)
<1>1. /\ limited \in Seq(Refs) /\ limited # <<>> /\ limited' = Tail(limited)
      /\ Cardinality(Running) < MaxConcurrentFetches /\ UNCHANGED cached
  BY DEF BeginFetch, StatusInv, StatusTypes
<1>2. /\ ref \in Refs /\ ref = limited[1] /\ 1 \in DOMAIN limited
      /\ DOMAIN limited' = 1..(Len(limited) - 1) /\ DOMAIN limited = 1..Len(limited)
      /\ \A i \in 1..(Len(limited) - 1) : limited'[i] = limited[i + 1]
  BY <1>1
<1>3. \A i, j \in DOMAIN limited' : i # j => limited'[i] # limited'[j]
  <2>1. \A i \in 1..(Len(limited) - 1) : i + 1 \in 1..Len(limited)
    BY <1>1
  <2> QED
    BY <1>2, <2>1 DEF QueueInv
<1>4. Waits' = Waits \ {ref}
  <2>1. \A i \in DOMAIN limited' : i + 1 \in DOMAIN limited /\ i + 1 # 1 /\ limited'[i] = limited[i + 1]
    BY <1>1, <1>2
  <2>2. \A i \in DOMAIN limited : i # 1 => i - 1 \in DOMAIN limited' /\ limited'[i - 1] = limited[i]
    BY <1>1, <1>2
  <2>3. \A i \in DOMAIN limited : i # 1 => limited[i] # ref
    BY <1>2 DEF QueueInv
  <2> HIDE DEF ref
  <2>4. Waits' \subseteq Waits \ {ref}
    BY <2>1, <2>3 DEF Waits
  <2>5. Waits \ {ref} \subseteq Waits'
    BY <1>2, <2>2 DEF Waits
  <2> QED
    BY <2>4, <2>5
<1>5. ref \in Waits /\ ref \notin Running
  BY <1>2 DEF Waits, QueueInv
<1>6. CASE Dequeue(ref) /\ UNCHANGED fetches
  <2>1. Running' = Running /\ queue' = queue \ {ref}
    BY <1>6 DEF Running, Dequeue
  <2> HIDE DEF ref
  <2> QED
    BY <1>1, <1>3, <1>4, <1>5, <2>1 DEF QueueInv
<1>7. CASE /\ fetches' = [fetches EXCEPT ![ref] =
                            [at |-> "checks", branch |-> subscriptions[ref].branch]]
           /\ UNCHANGED queue
  <2> HIDE DEF ref
  <2>1. fetches'[ref] # NoFetch
    BY <1>2, <1>7 DEF StatusInv, StatusTypes, NoFetch
  <2>2. Running' = Running \cup {ref}
    BY <1>2, <1>7, <2>1 DEF StatusInv, StatusTypes, Running
  <2>3. Cardinality(Running') <= MaxConcurrentFetches
    <3>1. Cardinality(Running \cup {ref}) = Cardinality(Running) + 1
      BY <1>5, RunningFinite, FS_AddElement
    <3> QED
      BY <1>1, <2>2, <3>1, RunningFinite, LimitAssumption
  <2> QED
    BY <1>1, <1>3, <1>4, <1>5, <1>7, <2>2, <2>3 DEF QueueInv
<1> QED
  BY <1>6, <1>7 DEF BeginFetch

\* An order that names every eligible ref names none twice.
LEMMA OrderOnce ==
  ASSUME NEW S, IsFiniteSet(S), NEW order \in [1..Cardinality(S) -> S],
         \A x \in S : \E i \in DOMAIN order : order[i] = x
  PROVE  \A i, j \in DOMAIN order : i # j => order[i] # order[j]
<1> DEFINE n == Cardinality(S)
<1>1. n \in Nat
  BY FS_CardinalityType
<1>2. IsFiniteSet(1..n) /\ Cardinality(1..n) = n
  BY <1>1, FS_Interval
<1>3. order \in Surjection(1..n, S)
  BY DEF Surjection
<1> HIDE DEF n
<1>4. Cardinality(S) = Cardinality(1..n) => order \in Injection(1..n, S)
  BY <1>2, <1>3, FS_Surjection
<1>5. order \in Injection(1..n, S)
  BY <1>2, <1>4 DEF n
<1>6. DOMAIN order = 1..n
  BY DEF n
<1>7. \A i, j \in 1..n : order[i] = order[j] => i = j
  BY <1>5 DEF Injection, IsInjective
<1> QED
  BY <1>6, <1>7

LEMMA EligibleKeeps ==
  ASSUME StatusInv, QueueInv, RefreshEligibleSubscriptions
  PROVE  QueueInv'
<1> DEFINE eligible == {ref \in Refs : Eligible(ref)}
<1>1. IsFiniteSet(eligible) /\ Cardinality(eligible) \in Nat
  BY RefsAssumption, FS_Subset, FS_CardinalityType
<1>2. PICK order \in [1..Cardinality(eligible) -> eligible] :
        /\ \A ref \in eligible : \E i \in DOMAIN order : order[i] = ref
        /\ limited' = limited \o order
  BY DEF RefreshEligibleSubscriptions
<1>3. queue' = queue \cup eligible /\ UNCHANGED <<fetches, cached>> /\ limited \in Seq(Refs)
  BY DEF RefreshEligibleSubscriptions, StatusInv, StatusTypes
<1>4. eligible \cap queue = {} /\ eligible \subseteq Refs
  BY DEF Eligible
<1> HIDE DEF eligible
<1>5. \A i, j \in DOMAIN order : i # j => order[i] # order[j]
  BY <1>1, <1>2, OrderOnce
<1>6. /\ order \in Seq(eligible) /\ Len(order) = Cardinality(eligible)
      /\ DOMAIN order = 1..Cardinality(eligible) /\ \A i \in DOMAIN order : order[i] \in eligible
  <2>1. order \in Seq(eligible)
    BY <1>1, <1>2
  <2>2. DOMAIN order = 1..Cardinality(eligible)
    BY <1>2
  <2> QED
    BY <1>1, <2>1, <2>2
<1> DEFINE m == Len(limited)
           n == Len(order)
<1>7. m \in Nat /\ n \in Nat /\ DOMAIN limited = 1..m /\ DOMAIN order = 1..n
  BY <1>1, <1>3, <1>6
<1>8. DOMAIN limited' = 1..(m + n)
  <2>1. limited \in Seq(Refs) /\ order \in Seq(Refs)
    BY <1>3, <1>4, <1>6
  <2> QED
    BY <1>2, <2>1
<1>9. \A i \in 1..m : i \in DOMAIN limited' /\ limited'[i] = limited[i]
  BY <1>2, <1>3, <1>6, <1>7, <1>8
<1>10. \A i \in 1..n : m + i \in DOMAIN limited' /\ limited'[m + i] = order[i]
  BY <1>2, <1>3, <1>6, <1>7, <1>8
<1> HIDE DEF m, n
<1>11. \A i \in DOMAIN limited' : i \in 1..m \/ (i - m \in 1..n /\ m + (i - m) = i)
  BY <1>7, <1>8
<1>12. ASSUME NEW i \in DOMAIN limited', NEW j \in DOMAIN limited', i # j
       PROVE  limited'[i] # limited'[j]
  <2>1. CASE i \in 1..m /\ j \in 1..m
    BY <1>7, <1>9, <1>12, <2>1 DEF QueueInv
  <2>2. CASE i \in 1..m /\ j - m \in 1..n /\ m + (j - m) = j
    <3>1. limited'[i] \in Waits /\ limited'[j] \in eligible
      BY <1>6, <1>7, <1>9, <1>10, <2>2 DEF Waits
    <3> QED
      BY <1>4, <3>1 DEF QueueInv
  <2>3. CASE j \in 1..m /\ i - m \in 1..n /\ m + (i - m) = i
    <3>1. limited'[j] \in Waits /\ limited'[i] \in eligible
      BY <1>6, <1>7, <1>9, <1>10, <2>3 DEF Waits
    <3> QED
      BY <1>4, <3>1 DEF QueueInv
  <2>4. CASE i - m \in 1..n /\ m + (i - m) = i /\ j - m \in 1..n /\ m + (j - m) = j
    <3>1. i - m # j - m
      BY <1>12, <2>4
    <3>2. order[i - m] # order[j - m]
      BY <1>5, <1>7, <2>4, <3>1
    <3> QED
      BY <1>10, <2>4, <3>2
  <2> QED
    BY <1>11, <2>1, <2>2, <2>3, <2>4
<1>13. Waits' = Waits \cup eligible
  <2>1. Waits' \subseteq Waits \cup eligible
    <3> SUFFICES ASSUME NEW i \in DOMAIN limited' PROVE limited'[i] \in Waits \cup eligible
      BY DEF Waits
    <3>1. CASE i \in 1..m
      BY <1>7, <1>9, <3>1 DEF Waits
    <3>2. CASE i - m \in 1..n /\ m + (i - m) = i
      BY <1>6, <1>7, <1>10, <3>2
    <3> QED
      BY <1>11, <3>1, <3>2
  <2>2. Waits \subseteq Waits'
    BY <1>7, <1>9 DEF Waits
  <2>3. eligible \subseteq Waits'
    BY <1>2, <1>7, <1>10 DEF Waits
  <2> QED
    BY <2>1, <2>2, <2>3
<1>14. Running' = Running
  BY <1>3 DEF Running
<1> QED
  BY <1>3, <1>4, <1>12, <1>13, <1>14 DEF QueueInv

LEMMA QueueStep ==
  ASSUME StatusInv, QueueInv, [StatusNext]_statusVars
  PROVE  QueueInv'
<1>0. DOMAIN cached = Refs /\ \A ref \in Refs : cached[ref] \in {"none", "fresh", "stale"}
  BY DEF QueueInv
<1>1. CASE \/ StartBackgroundRefresh \/ StopBackgroundRefresh \/ Interval \/ OnAccountsUpdated
           \/ UNCHANGED statusVars
  <2>1. UNCHANGED <<queue, limited, fetches, cached>>
    BY <1>1 DEF StartBackgroundRefresh, StopBackgroundRefresh, Interval, OnAccountsUpdated,
                statusVars
  <2> QED
    BY <1>0, <2>1, SameQueue
<1>2. ASSUME NEW ref \in Refs, Age(ref) \/ ManualRefresh(ref)
      PROVE  QueueInv'
  <2>1. UNCHANGED <<queue, limited, fetches>>
    BY <1>2 DEF Age, ManualRefresh
  <2>2. DOMAIN cached' = Refs /\ \A r \in Refs : cached'[r] \in {"none", "fresh", "stale"}
    BY <1>0, <1>2 DEF Age, ManualRefresh
  <2> QED
    BY <2>1, <2>2, SameQueue
<1>3. CASE RefreshEligibleSubscriptions
  BY <1>3, EligibleKeeps
<1>4. CASE BeginFetch
  BY <1>4, BeginKeeps
<1>5. ASSUME NEW ref \in Refs, FetchEnds(ref)
      PROVE  QueueInv'
  <2>1. DOMAIN cached' = Refs /\ \A r \in Refs : cached'[r] \in {"none", "fresh", "stale"}
    BY <1>0, <1>5 DEF FetchEnds
  <2> QED
    BY <1>5, <2>1, EndKeeps DEF FetchEnds
<1>6. ASSUME NEW ref \in Refs, FetchThrows(ref)
      PROVE  QueueInv'
  BY <1>0, <1>6, EndKeeps DEF FetchThrows, AfterCatch
<1>7. ASSUME NEW ref \in Refs, FetchWorkflows(ref)
      PROVE  QueueInv'
  BY <1>7, WorkflowsKeep
<1>8. ASSUME NEW ref \in Refs, NEW cb \in StatusCallbacks, NEW branch \in BranchNames,
             Subscribe(cb, ref, branch)
      PROVE  QueueInv'
  <2>1. UNCHANGED <<queue, limited, fetches>>
    BY <1>8 DEF Subscribe
  <2>2. cached' = cached \/ cached' = [cached EXCEPT ![ref] = "stale"]
    BY <1>8 DEF Subscribe
  <2>3. DOMAIN cached' = Refs /\ \A r \in Refs : cached'[r] \in {"none", "fresh", "stale"}
    BY <1>0, <2>2
  <2> QED
    BY <2>1, <2>3, SameQueue
<1>9. ASSUME NEW cb \in StatusCallbacks, Dispose(cb)
      PROVE  QueueInv'
  <2>1. UNCHANGED <<queue, limited, fetches, cached>>
    BY <1>9 DEF Dispose
  <2> QED
    BY <1>0, <2>1, SameQueue
<1> QED
  BY <1>1, <1>2, <1>3, <1>4, <1>5, <1>6, <1>7, <1>8, <1>9 DEF StatusNext

(* The queue names exactly the refs that wait for a slot or are fetched,   *)
(* each once, through refreshes, exceptions and accounts that change, and  *)
(* never more than the limit are fetched: so no ref is left in the queue   *)
(* that nothing will take out, which would stop its refreshes for good     *)
(* (commit-status-store.ts:184-329).                                       *)
THEOREM QueueIsWhatRuns == StatusSpec => []StatusTypeOK
<1>1. StatusInit => QueueInv
  <2> SUFFICES ASSUME StatusInit PROVE QueueInv
    OBVIOUS
  <2>1. Running = {} /\ Waits = {} /\ Cardinality({}) = 0
    BY FS_EmptySet DEF StatusInit, Running, Waits
  <2> QED
    BY <2>1, LimitAssumption DEF StatusInit, QueueInv
<1>2. StatusInv /\ QueueInv /\ [StatusNext]_statusVars => QueueInv'
  BY QueueStep
<1>3. StatusInv /\ QueueInv => StatusTypeOK
  BY DEF StatusInv, StatusTypes, QueueInv, Waits, StatusTypeOK, Subscription
<1> QED
  BY StatusInvariance, <1>1, <1>2, <1>3, PTL DEF StatusSpec

-----------------------------------------------------------------------------
(* RebaseTodo: reordering and squashing.                                   *)

\* A commit is what it changes, at least one change.
OneCommit == Seq(Nat \ {0}) \ {<<>>}

Typed == log \in Histories /\ listed \in Histories

TodoLine == [action : {"pick", "squash"}, commit : OneCommit]

Walk == [todo : Seq(TodoLine), before : Seq(1..Len(log)), after : Seq(1..Len(log)),
         found : BOOLEAN]

LEMMA HistoryFacts ==
  ASSUME NEW h \in Histories
  PROVE  /\ h \in Seq(OneCommit) /\ Len(h) \in Nat \ {0} /\ DOMAIN h = 1..Len(h)
         /\ \A i \in 1..Len(h) : h[i] \in OneCommit
BY DEF Histories, OneCommit

LEMMA LineFacts ==
  ASSUME Typed, NEW i \in 1..Len(log), NEW action \in {"pick", "squash"}
  PROVE  /\ Line(action, i) \in TodoLine
         /\ Line(action, i).action = action /\ Line(action, i).commit = log[i]
BY HistoryFacts DEF Typed, Line, TodoLine

LEMMA PicksFacts ==
  ASSUME Typed, NEW q \in Seq(1..Len(log))
  PROVE  /\ Picks(q) \in Seq(TodoLine) /\ Len(Picks(q)) = Len(q)
         /\ \A j \in 1..Len(q) : Picks(q)[j] = Line("pick", q[j])
         /\ Squashed(q) \in Seq(TodoLine) /\ Len(Squashed(q)) = Len(q)
         /\ \A j \in 1..Len(q) :
              Squashed(q)[j] = Line(IF j = 1 THEN "pick" ELSE "squash", q[j])
<1>1. DOMAIN q = 1..Len(q) /\ Len(q) \in Nat /\ \A j \in 1..Len(q) : q[j] \in 1..Len(log)
  OBVIOUS
<1>2. \A j \in 1..Len(q) : /\ Line("pick", q[j]) \in TodoLine
                           /\ Line(IF j = 1 THEN "pick" ELSE "squash", q[j]) \in TodoLine
  <2> TAKE j \in 1..Len(q)
  <2>1. q[j] \in 1..Len(log)
    BY <1>1
  <2>2. Line("pick", q[j]) \in TodoLine /\ Line("squash", q[j]) \in TodoLine
    BY <2>1, LineFacts
  <2> QED
    BY <2>2
<1>3. Picks(q) = [j \in 1..Len(q) |-> Line("pick", q[j])]
  BY <1>1 DEF Picks
<1>4. Squashed(q) = [j \in 1..Len(q) |-> Line(IF j = 1 THEN "pick" ELSE "squash", q[j])]
  BY <1>1 DEF Squashed
<1>5. Picks(q) \in Seq(TodoLine) /\ Len(Picks(q)) = Len(q)
  BY <1>1, <1>2, <1>3
<1>6. Squashed(q) \in Seq(TodoLine) /\ Len(Squashed(q)) = Len(q)
  BY <1>1, <1>2, <1>4
<1> QED
  BY <1>3, <1>4, <1>5, <1>6, Zenon

TheStep(kind, moved, at, t, i) ==
  IF kind = "squash" THEN SquashStep(moved, at, t, i) ELSE ReorderStep(moved, at, t, i)

Of4(todo, before, after, found) ==
  [todo |-> todo, before |-> before, after |-> after, found |-> found]

\* A step of a traversal is one of five.
StepForm(kind, moved, at, t, i, next) ==
  \/ /\ i \in moved /\ t.found
     /\ next = Of4(Append(t.todo, Line(IF kind = "squash" THEN "squash" ELSE "pick", i)),
                   t.before, t.after, TRUE)
  \/ /\ i \in moved /\ ~t.found
     /\ next = Of4(t.todo, Append(t.before, i), t.after, FALSE)
  \/ /\ i \notin moved /\ i \in at /\ kind = "squash"
     /\ next = Of4(t.todo \o Squashed(Append(t.before, i)), Append(t.before, i), t.after, TRUE)
  \/ /\ i \notin moved /\ i \in at /\ kind # "squash"
     /\ next = Of4(t.todo \o Picks(t.before), t.before, Append(t.after, i), TRUE)
  \/ /\ i \notin moved /\ i \notin at /\ t.found
     /\ next = Of4(t.todo, t.before, Append(t.after, i), TRUE)
  \/ /\ i \notin moved /\ i \notin at /\ ~t.found
     /\ next = Of4(Append(t.todo, Line("pick", i)), t.before, t.after, FALSE)

LEMMA StepIs ==
  ASSUME NEW kind, NEW moved, NEW at, NEW t \in Walk, NEW i
  PROVE  StepForm(kind, moved, at, t, i, TheStep(kind, moved, at, t, i))
<1> USE DEF StepForm
<1>1. t = Of4(t.todo, t.before, t.after, t.found) /\ t.found \in BOOLEAN
  BY DEF Walk, Of4
<1>2. CASE kind = "squash"
  <2>1. TheStep(kind, moved, at, t, i) = SquashStep(moved, at, t, i)
    BY <1>2, Zenon DEF TheStep
  <2>2. CASE i \in moved /\ t.found
    <3>1. SquashStep(moved, at, t, i) = [t EXCEPT !.todo = Append(@, Line("squash", i))]
      BY <1>1, <2>2 DEF SquashStep
    <3> QED
      BY <1>1, <1>2, <2>1, <2>2, <3>1 DEF Of4
  <2>3. CASE i \in moved /\ ~t.found
    BY <1>1, <2>1, <2>3 DEF SquashStep, Of4
  <2>4. CASE i \notin moved /\ i \in at
    BY <1>1, <1>2, <2>1, <2>4 DEF SquashStep, Of4
  <2>5. CASE i \notin moved /\ i \notin at /\ t.found
    BY <1>1, <2>1, <2>5 DEF SquashStep, Unchanged, Of4
  <2>6. CASE i \notin moved /\ i \notin at /\ ~t.found
    BY <1>1, <2>1, <2>6 DEF SquashStep, Unchanged, Of4
  <2> QED
    BY <1>1, <2>2, <2>3, <2>4, <2>5, <2>6
<1>3. CASE kind # "squash"
  <2>1. TheStep(kind, moved, at, t, i) = ReorderStep(moved, at, t, i)
    BY <1>3, Zenon DEF TheStep
  <2>2. CASE i \in moved /\ t.found
    <3>1. ReorderStep(moved, at, t, i) = [t EXCEPT !.todo = Append(@, Line("pick", i))]
      BY <1>1, <2>2 DEF ReorderStep
    <3> QED
      BY <1>1, <1>3, <2>1, <2>2, <3>1 DEF Of4
  <2>3. CASE i \in moved /\ ~t.found
    BY <1>1, <2>1, <2>3 DEF ReorderStep, Of4
  <2>4. CASE i \notin moved /\ i \in at
    BY <1>1, <1>3, <2>1, <2>4 DEF ReorderStep, Of4
  <2>5. CASE i \notin moved /\ i \notin at /\ t.found
    BY <1>1, <2>1, <2>5 DEF ReorderStep, Unchanged, Of4
  <2>6. CASE i \notin moved /\ i \notin at /\ ~t.found
    BY <1>1, <2>1, <2>6 DEF ReorderStep, Unchanged, Of4
  <2> QED
    BY <1>1, <2>2, <2>3, <2>4, <2>5, <2>6
<1> QED
  BY <1>2, <1>3

LEMMA StepTyped ==
  ASSUME Typed, NEW kind, NEW moved, NEW at, NEW t \in Walk, NEW i \in 1..Len(log)
  PROVE  TheStep(kind, moved, at, t, i) \in Walk
<1> DEFINE next == TheStep(kind, moved, at, t, i)
<1>1. /\ t.todo \in Seq(TodoLine) /\ t.before \in Seq(1..Len(log))
      /\ t.after \in Seq(1..Len(log)) /\ t.found \in BOOLEAN
  BY DEF Walk
<1>2. /\ Append(t.before, i) \in Seq(1..Len(log)) /\ Append(t.after, i) \in Seq(1..Len(log))
      /\ Line("pick", i) \in TodoLine /\ Line("squash", i) \in TodoLine
  BY <1>1, LineFacts
<1>3. /\ Append(t.todo, Line("pick", i)) \in Seq(TodoLine)
      /\ Append(t.todo, Line("squash", i)) \in Seq(TodoLine)
  BY <1>1, <1>2
<1>4. Picks(t.before) \in Seq(TodoLine) /\ Squashed(Append(t.before, i)) \in Seq(TodoLine)
  BY <1>1, <1>2, PicksFacts, Zenon
<1>5. /\ t.todo \o Picks(t.before) \in Seq(TodoLine)
      /\ t.todo \o Squashed(Append(t.before, i)) \in Seq(TodoLine)
  BY <1>1, <1>4
<1>6. \A todo \in Seq(TodoLine), before, after \in Seq(1..Len(log)), found \in BOOLEAN :
        Of4(todo, before, after, found) \in Walk
  BY DEF Of4, Walk
<1>7. StepForm(kind, moved, at, t, i, next)
  BY StepIs
<1>8. Append(t.todo, Line(IF kind = "squash" THEN "squash" ELSE "pick", i)) \in Seq(TodoLine)
  BY <1>3, Zenon
<1> QED
  BY <1>1, <1>2, <1>3, <1>5, <1>6, <1>7, <1>8, ZenonT(60) DEF StepForm

-----------------------------------------------------------------------------
\* The function Traversed is defined by.
Walks(t, kind, moved, at, from) ==
  t = [i \in 0..Len(log) |-> IF i <= from THEN Traversal
                             ELSE IF kind = "squash" THEN SquashStep(moved, at, t[i - 1], i)
                             ELSE ReorderStep(moved, at, t[i - 1], i)]

(* What a traversal returns: the value, at the last commit, of a function  *)
(* of the commits that starts empty and takes a step for each in range.    *)
Travels(t, kind, moved, at, retained) ==
  /\ t \in [0..Len(log) -> Walk]
  /\ Traversed(kind, moved, at, retained) = t[Len(log)]
  /\ \A i \in 0..Reachable(retained) : t[i] = Traversal
  /\ \A i \in (Reachable(retained) + 1)..Len(log) :
       t[i] = TheStep(kind, moved, at, t[i - 1], i)

LEMMA TraversedIs ==
  ASSUME Typed, NEW kind, NEW moved, NEW at, NEW retained, Reachable(retained) \in 0..Len(log)
  PROVE  \E t : Travels(t, kind, moved, at, retained)
<1> DEFINE N == Len(log)
           from == Reachable(retained)
           step == [p \in (1..N) \X Walk |-> IF p[1] <= from THEN Traversal
                                            ELSE TheStep(kind, moved, at, p[2], p[1])]
           t == CHOOSE g : Walks(g, kind, moved, at, from)
<1>1. N \in Nat /\ N \in 0..N /\ from \in 0..N
  BY HistoryFacts DEF Typed
<1>2. Traversal \in Walk
  BY DEF Traversal, Walk
<1>3. step \in [(1..N) \X Walk -> Walk]
  <2>1. \A i \in 1..N, w \in Walk : TheStep(kind, moved, at, w, i) \in Walk
    BY StepTyped
  <2>2. \A p \in (1..N) \X Walk : p[1] \in 1..N /\ p[2] \in Walk
    OBVIOUS
  <2> QED
    BY <1>2, <2>1, <2>2
<1>4. \A i \in 1..N, w \in Walk :
        step[<<i, w>>] = IF i <= from THEN Traversal ELSE TheStep(kind, moved, at, w, i)
  OBVIOUS
<1> HIDE DEF step
<1>5. PICK f : Recurs(f, N, Walk, Traversal, step)
  BY <1>1, <1>2, <1>3, Recursion
<1>6. \A i \in 1..N : f[i] = IF i <= from THEN Traversal ELSE TheStep(kind, moved, at, f[i - 1], i)
  <2> TAKE i \in 1..N
  <2>1. f[i - 1] \in Walk
    BY <1>5 DEF Recurs
  <2> QED
    BY <1>4, <1>5, <2>1 DEF Recurs
<1>7. Walks(f, kind, moved, at, from)
  <2>1. \A i \in 0..N : f[i] = IF i <= from THEN Traversal
                               ELSE IF kind = "squash" THEN SquashStep(moved, at, f[i - 1], i)
                               ELSE ReorderStep(moved, at, f[i - 1], i)
    <3> TAKE i \in 0..N
    <3>1. CASE i = 0
      BY <1>1, <1>5, <3>1 DEF Recurs
    <3>2. CASE i # 0
      <4>1. i \in 1..N
        BY <3>2
      <4> QED
        BY <1>6, <4>1 DEF TheStep
    <3> QED
      BY <3>1, <3>2
  <2> QED
    BY <1>5, <2>1 DEF Walks, Recurs
<1>8. Walks(t, kind, moved, at, from)
  BY <1>7
<1>9. Traversed(kind, moved, at, retained) = t[N]
  BY DEF Traversed, Walks
<1> HIDE DEF t
<1>10. \A i \in 0..N : t[i] = IF i <= from THEN Traversal ELSE TheStep(kind, moved, at, t[i - 1], i)
  BY <1>8 DEF Walks, TheStep
<1>11. t \in [0..N -> Walk]
  <2> DEFINE P == {i \in 0..N : t[i] \in Walk}
  <2>1. 0 \in P
    BY <1>1, <1>2, <1>10
  <2>2. ASSUME NEW i \in 1..N, i - 1 \in P PROVE i \in P
    <3>1. t[i - 1] \in Walk /\ i \in 0..N
      BY <2>2
    <3>2. TheStep(kind, moved, at, t[i - 1], i) \in Walk
      BY <3>1, StepTyped
    <3> QED
      BY <1>2, <1>10, <3>1, <3>2
  <2>3. \A i \in 0..N : i \in P
    <3> HIDE DEF P
    <3> QED
      BY <1>1, <2>1, <2>2, UpTo
  <2>4. t = [i \in 0..N |-> t[i]]
    BY <1>8 DEF Walks
  <2> QED
    BY <2>3, <2>4
<1>12. \A i \in 0..from : t[i] = Traversal
  BY <1>1, <1>10
<1>13. \A i \in (from + 1)..N : t[i] = TheStep(kind, moved, at, t[i - 1], i)
  BY <1>1, <1>10
<1> QED
  BY <1>9, <1>11, <1>12, <1>13 DEF Travels

-----------------------------------------------------------------------------
(* The commits that the list and the branch share.                         *)
LEMMA CommonFacts ==
  ASSUME Typed
  PROVE  /\ Common \in 0..Len(log) /\ Common <= Len(listed)
         /\ \A i \in 1..Common : log[i] = listed[i]
         /\ listed = log => Common = Len(log)
<1> DEFINE differ == {i \in DOMAIN log \cap DOMAIN listed : log[i] # listed[i]}
<1>1. /\ Len(log) \in Nat \ {0} /\ DOMAIN log = 1..Len(log)
      /\ Len(listed) \in Nat \ {0} /\ DOMAIN listed = 1..Len(listed)
  BY HistoryFacts DEF Typed
<1>2. Common = IF differ # {} THEN Min(differ) - 1 ELSE Min({Len(log), Len(listed)})
  BY DEF Common
<1>3. CASE differ # {}
  <2>1. differ \subseteq Nat
    BY <1>1
  <2>2. Min(differ) \in differ /\ \A i \in differ : Min(differ) <= i
    <3> HIDE DEF differ
    <3> QED
      BY <1>3, <2>1, MinIn
  <2>3. listed # log
    BY <1>3
  <2>4. Common = Min(differ) - 1
    BY <1>2, <1>3
  <2>5. Min(differ) \in 1..Len(log) /\ Min(differ) \in 1..Len(listed)
    BY <1>1, <2>2
  <2>6. \A i \in 1..Common : i \in DOMAIN log \cap DOMAIN listed /\ i \notin differ
    <3> TAKE i \in 1..Common
    <3>1. i \in Nat /\ ~(Min(differ) <= i) /\ i \in 1..Len(log) /\ i \in 1..Len(listed)
      BY <1>1, <2>4, <2>5
    <3> QED
      BY <1>1, <2>2, <3>1, Zenon
  <2> QED
    BY <2>3, <2>4, <2>5, <2>6
<1>4. CASE differ = {}
  <2>1. {Len(log), Len(listed)} \subseteq Nat /\ {Len(log), Len(listed)} # {}
    BY <1>1
  <2>2. /\ Min({Len(log), Len(listed)}) \in {Len(log), Len(listed)}
        /\ \A i \in {Len(log), Len(listed)} : Min({Len(log), Len(listed)}) <= i
    BY <2>1, MinIn
  <2>3. Common = Min({Len(log), Len(listed)})
    BY <1>2, <1>4
  <2>4. Common \in 0..Len(log) /\ Common <= Len(listed) /\ (listed = log => Common = Len(log))
    BY <1>1, <2>2, <2>3
  <2>5. \A i \in 1..Common : log[i] = listed[i]
    <3> TAKE i \in 1..Common
    <3> DEFINE c == Common
               m == Len(log)
               n == Len(listed)
    <3>1. c \in 0..m /\ c <= n /\ m \in Nat /\ n \in Nat /\ i \in 1..c
      BY <1>1, <2>4
    <3> HIDE DEF c, m, n
    <3>2. i \in 1..m /\ i \in 1..n
      BY <3>1
    <3>3. i \in 1..Len(log) /\ i \in 1..Len(listed)
      BY <3>2 DEF m, n
    <3>4. i \in DOMAIN log \cap DOMAIN listed
      BY <1>1, <3>3, Zenon
    <3> QED
      BY <1>4, <3>4, Zenon
  <2> QED
    BY <2>4, <2>5
<1> QED
  BY <1>3, <1>4

LEMMA ReachableFacts ==
  ASSUME Typed, NEW retained \in 0..Len(listed)
  PROVE  /\ Reachable(retained) \in 0..Len(log) /\ Reachable(retained) <= retained
         /\ Reachable(retained) <= Common
         /\ \A i \in 1..Reachable(retained) : i \in 1..Common /\ log[i] = listed[i]
         /\ listed = log => Reachable(retained) = retained
<1>1. Len(log) \in Nat /\ Len(listed) \in Nat
  BY HistoryFacts DEF Typed
<1>2. Reachable(retained) = IF retained <= Common THEN retained ELSE Common
  BY DEF Reachable
<1>3. listed = log => Len(log) = Len(listed)
  OBVIOUS
<1> QED
  BY <1>1, <1>2, <1>3, CommonFacts

\* The parent of the oldest of some commits of the list.
LEMMA RetainedFacts ==
  ASSUME Typed, NEW concerned, concerned \subseteq 1..Len(listed), concerned # {}
  PROVE  /\ Retained(concerned) \in 0..(Len(listed) - 1)
         /\ Retained(concerned) + 1 \in concerned
         /\ \A i \in concerned : Retained(concerned) < i
<1>1. Min(concerned) \in concerned /\ \A i \in concerned : Min(concerned) <= i
  <2>1. concerned \subseteq Nat
    OBVIOUS
  <2> QED
    BY <2>1, MinIn
<1>2. Len(listed) \in Nat /\ Min(concerned) \in 1..Len(listed)
  BY <1>1, HistoryFacts DEF Typed
<1> QED
  BY <1>1, <1>2 DEF Retained

-----------------------------------------------------------------------------
(* Nothing is left out of a todo list.                                     *)
Written(todo, p) == \E j \in 1..Len(todo) : todo[j].commit = log[p]

Holds(s, p) == \E j \in 1..Len(s) : s[j] = p

LEMMA WrittenMore ==
  ASSUME NEW a \in Seq(TodoLine), NEW b \in Seq(TodoLine), NEW p
  PROVE  Written(a \o b, p) <=> Written(a, p) \/ Written(b, p)
<1>1. /\ Len(a) \in Nat /\ Len(b) \in Nat /\ Len(a \o b) = Len(a) + Len(b)
      /\ \A i \in 1..(Len(a) + Len(b)) :
           (a \o b)[i] = IF i <= Len(a) THEN a[i] ELSE b[i - Len(a)]
  BY ConcatProperties
<1>2. ASSUME NEW j \in 1..Len(a), a[j].commit = log[p] PROVE Written(a \o b, p)
  BY <1>1, <1>2 DEF Written
<1>3. ASSUME NEW j \in 1..Len(b), b[j].commit = log[p] PROVE Written(a \o b, p)
  <2>1. j + Len(a) \in 1..(Len(a) + Len(b)) /\ ~(j + Len(a) <= Len(a)) /\ (j + Len(a)) - Len(a) = j
    BY <1>1
  <2>2. (a \o b)[j + Len(a)] = b[j]
    BY <1>1, <2>1
  <2> QED
    BY <1>1, <1>3, <2>1, <2>2 DEF Written
<1>4. ASSUME NEW j \in 1..Len(a \o b), (a \o b)[j].commit = log[p]
      PROVE  Written(a, p) \/ Written(b, p)
  <2>1. j \in 1..Len(a) \/ j - Len(a) \in 1..Len(b)
    BY <1>1
  <2>2. CASE j \in 1..Len(a)
    BY <1>1, <1>4, <2>2 DEF Written
  <2>3. CASE j \notin 1..Len(a)
    <3>1. (a \o b)[j] = b[j - Len(a)] /\ j - Len(a) \in 1..Len(b)
      BY <1>1, <2>3
    <3> QED
      BY <1>4, <3>1 DEF Written
  <2> QED
    BY <2>2, <2>3
<1> QED
  BY <1>2, <1>3, <1>4 DEF Written

LEMMA WrittenOne ==
  ASSUME Typed, NEW a \in Seq(TodoLine), NEW action \in {"pick", "squash"}, NEW i \in 1..Len(log)
  PROVE  /\ Written(Append(a, Line(action, i)), i)
         /\ \A p : Written(a, p) => Written(Append(a, Line(action, i)), p)
<1> DEFINE line == Line(action, i)
<1>1. line \in TodoLine /\ line.commit = log[i]
  BY LineFacts
<1> HIDE DEF line
<1>2. /\ Len(a) \in Nat /\ Len(Append(a, line)) = Len(a) + 1
      /\ \A j \in 1..Len(a) : Append(a, line)[j] = a[j]
      /\ Append(a, line)[Len(a) + 1] = line
  BY <1>1
<1>3. Written(Append(a, line), i)
  BY <1>1, <1>2 DEF Written
<1>4. ASSUME NEW p, NEW j \in 1..Len(a), a[j].commit = log[p] PROVE Written(Append(a, line), p)
  BY <1>2, <1>4 DEF Written
<1> QED
  BY <1>3, <1>4 DEF Written, line

LEMMA HoldsOne ==
  ASSUME NEW s \in Seq(1..Len(log)), NEW i \in 1..Len(log)
  PROVE  Holds(Append(s, i), i) /\ \A p : Holds(s, p) => Holds(Append(s, i), p)
<1>1. /\ Len(s) \in Nat /\ Len(Append(s, i)) = Len(s) + 1
      /\ \A j \in 1..Len(s) : Append(s, i)[j] = s[j]
      /\ Append(s, i)[Len(s) + 1] = i
  OBVIOUS
<1> QED
  BY <1>1 DEF Holds

LEMMA WrittenPicks ==
  ASSUME Typed, NEW q \in Seq(1..Len(log)), NEW p, Holds(q, p)
  PROVE  Written(Picks(q), p) /\ Written(Squashed(q), p)
<1>1. PICK j \in 1..Len(q) : q[j] = p
  BY DEF Holds
<1>2. q[j] \in 1..Len(log)
  OBVIOUS
<1>3. /\ Picks(q)[j] = Line("pick", p) /\ Len(Picks(q)) = Len(q) /\ Len(Squashed(q)) = Len(q)
      /\ \E action \in {"pick", "squash"} : Squashed(q)[j] = Line(action, p)
  BY <1>1, PicksFacts
<1>4. \A action \in {"pick", "squash"} : Line(action, p).commit = log[p]
  BY <1>1, <1>2, LineFacts
<1> QED
  BY <1>3, <1>4 DEF Written

\* The commits from one on up to i are in the todo list or will be, and it
\* starts with a pick.
KeepsAll(kind, t, from, i) ==
  /\ \A p \in (from + 1)..i :
       Written(t.todo, p) \/ Holds(t.after, p) \/ (~t.found /\ Holds(t.before, p))
  /\ t.todo # <<>> => t.todo[1].action = "pick"
  /\ kind = "squash" /\ t.found => t.todo # <<>>

LEMMA KeepsAllStep ==
  ASSUME Typed, NEW kind, NEW moved, NEW at, NEW t \in Walk, NEW i \in 1..Len(log),
         NEW from \in 0..(i - 1), KeepsAll(kind, t, from, i - 1)
  PROVE  KeepsAll(kind, TheStep(kind, moved, at, t, i), from, i)
<1> DEFINE next == TheStep(kind, moved, at, t, i)
<1>1. /\ t.todo \in Seq(TodoLine) /\ t.before \in Seq(1..Len(log))
      /\ t.after \in Seq(1..Len(log)) /\ t.found \in BOOLEAN
  BY DEF Walk
<1>2. \A todo, before, after, found :
        LET w == Of4(todo, before, after, found)
        IN  w.todo = todo /\ w.before = before /\ w.after = after /\ w.found = found
  BY DEF Of4
<1>3. SUFFICES /\ next.todo # <<>> => next.todo[1].action = "pick"
               /\ kind = "squash" /\ next.found => next.todo # <<>>
               /\ \A p : Written(t.todo, p) => Written(next.todo, p)
               /\ \A p : Holds(t.after, p) => Holds(next.after, p)
               /\ \A p : ~t.found /\ Holds(t.before, p) =>
                    Written(next.todo, p) \/ (~next.found /\ Holds(next.before, p))
               /\ Written(next.todo, i) \/ Holds(next.after, i) \/ (~next.found /\ Holds(next.before, i))
  <2> HIDE DEF next
  <2>1. \A p \in (from + 1)..i : p = i \/ p \in (from + 1)..(i - 1)
    OBVIOUS
  <2> QED
    BY <1>3, <2>1, Zenon DEF KeepsAll, next
<1>4. StepForm(kind, moved, at, t, i, next)
  BY StepIs
<1>5. \A a \in Seq(TodoLine), action \in {"pick", "squash"} :
        /\ Append(a, Line(action, i)) # <<>>
        /\ Append(a, Line(action, i))[1].action = IF a = <<>> THEN action ELSE a[1].action
  <2> TAKE a \in Seq(TodoLine), action \in {"pick", "squash"}
  <2> DEFINE line == Line(action, i)
  <2>1. line \in TodoLine /\ line.action = action
    BY LineFacts
  <2> HIDE DEF line
  <2>2. /\ Append(a, line) # <<>> /\ Len(a) \in Nat
        /\ \A j \in 1..Len(a) : Append(a, line)[j] = a[j]
        /\ Append(a, line)[Len(a) + 1] = line
    BY <2>1, AppendProperties
  <2>3. a = <<>> => Append(a, line)[1].action = action
    BY <2>1, <2>2
  <2>4. a # <<>> => Append(a, line)[1] = a[1]
    BY <2>2
  <2> QED
    BY <2>2, <2>3, <2>4 DEF line
<1>6. \A a, b \in Seq(TodoLine) :
        (a \o b) # <<>> => (a \o b)[1] = IF a = <<>> THEN b[1] ELSE a[1]
  OBVIOUS
<1> HIDE DEF next
<1>7. CASE i \in moved /\ t.found
  <2> DEFINE action == IF kind = "squash" THEN "squash" ELSE "pick"
  <2>0. next = Of4(Append(t.todo, Line(action, i)), t.before, t.after, TRUE)
    BY <1>4, <1>7, Zenon DEF StepForm
  <2>1. /\ next.todo = Append(t.todo, Line(action, i)) /\ next.before = t.before
        /\ next.after = t.after /\ next.found = TRUE
    BY <2>0 DEF Of4
  <2>2. action \in {"pick", "squash"} /\ (action # "pick" => t.todo # <<>>)
    BY <1>7 DEF KeepsAll
  <2> HIDE DEF action
  <2>3. /\ Written(next.todo, i) /\ \A p : Written(t.todo, p) => Written(next.todo, p)
    BY <1>1, <2>1, <2>2, WrittenOne
  <2>4. /\ Append(t.todo, Line(action, i)) # <<>>
        /\ Append(t.todo, Line(action, i))[1].action =
             IF t.todo = <<>> THEN action ELSE t.todo[1].action
    BY <1>1, <1>5, <2>2, ZenonT(60)
  <2>5. next.todo # <<>> /\ next.todo[1].action = "pick"
    <3>1. t.todo # <<>> => t.todo[1].action = "pick"
      BY DEF KeepsAll
    <3>2. next.todo = Append(t.todo, Line(action, i))
      BY <2>1
    <3> QED
      BY <2>2, <2>4, <3>1, <3>2, ZenonT(60)
  <2> QED
    BY <1>7, <2>1, <2>3, <2>5, Zenon
<1>8. CASE i \in moved /\ ~t.found
  <2>0. next = Of4(t.todo, Append(t.before, i), t.after, FALSE)
    BY <1>4, <1>8, Zenon DEF StepForm
  <2>1. /\ next.todo = t.todo /\ next.before = Append(t.before, i)
        /\ next.after = t.after /\ next.found = FALSE
    BY <2>0 DEF Of4
  <2>2. Holds(next.before, i) /\ \A p : Holds(t.before, p) => Holds(next.before, p)
    BY <1>1, <2>1, HoldsOne
  <2> QED
    BY <2>1, <2>2, Zenon DEF KeepsAll
<1>9. CASE i \notin moved /\ i \in at /\ kind = "squash"
  <2> DEFINE q == Append(t.before, i)
  <2>0. next = Of4(t.todo \o Squashed(q), q, t.after, TRUE)
    BY <1>4, <1>9, Zenon DEF StepForm
  <2>1. next.todo = t.todo \o Squashed(q) /\ next.after = t.after /\ next.found = TRUE
    BY <2>0 DEF Of4
  <2>2. q \in Seq(1..Len(log)) /\ Len(q) \in Nat \ {0} /\ q[1] \in 1..Len(log)
    BY <1>1
  <2>3. Holds(q, i) /\ \A p : Holds(t.before, p) => Holds(q, p)
    BY <1>1, HoldsOne
  <2> HIDE DEF q
  <2>4. /\ Squashed(q) \in Seq(TodoLine) /\ Len(Squashed(q)) = Len(q)
        /\ Squashed(q)[1] = Line("pick", q[1])
    BY <2>2, PicksFacts
  <2>5. \A p : Holds(q, p) => Written(Squashed(q), p)
    BY <2>2, WrittenPicks
  <2>6. \A p : Written(t.todo, p) \/ Written(Squashed(q), p) => Written(next.todo, p)
    BY <1>1, <2>1, <2>4, WrittenMore
  <2>7. next.todo # <<>> /\ next.todo[1].action = "pick"
    <3>1. Squashed(q)[1].action = "pick"
      BY <2>2, <2>4, LineFacts
    <3>2. next.todo # <<>>
      BY <1>1, <2>1, <2>2, <2>4
    <3> QED
      BY <1>1, <1>6, <2>1, <2>4, <3>1, <3>2 DEF KeepsAll
  <2> QED
    BY <2>1, <2>3, <2>5, <2>6, <2>7, Zenon
<1>10. CASE i \notin moved /\ i \in at /\ kind # "squash"
  <2> DEFINE q == t.before
  <2>0. next = Of4(t.todo \o Picks(q), q, Append(t.after, i), TRUE)
    BY <1>4, <1>10, Zenon DEF StepForm
  <2>1. next.todo = t.todo \o Picks(q) /\ next.after = Append(t.after, i) /\ next.found = TRUE
    BY <2>0 DEF Of4
  <2>2. q \in Seq(1..Len(log))
    BY <1>1
  <2>3. Holds(next.after, i) /\ \A p : Holds(t.after, p) => Holds(next.after, p)
    BY <1>1, <2>1, HoldsOne
  <2> HIDE DEF q
  <2>4. /\ Picks(q) \in Seq(TodoLine) /\ Len(Picks(q)) = Len(q)
        /\ \A j \in 1..Len(q) : Picks(q)[j] = Line("pick", q[j])
    BY <2>2, PicksFacts
  <2>5. \A p : Holds(q, p) => Written(Picks(q), p)
    BY <2>2, WrittenPicks
  <2>6. \A p : Written(t.todo, p) \/ Written(Picks(q), p) => Written(next.todo, p)
    BY <1>1, <2>1, <2>4, WrittenMore
  <2>7. next.todo # <<>> => next.todo[1].action = "pick"
    <3>1. CASE t.todo # <<>>
      BY <1>1, <1>6, <2>1, <2>4, <3>1 DEF KeepsAll
    <3>2. CASE t.todo = <<>> /\ Len(q) # 0
      <4>1. 1 \in 1..Len(q) /\ q[1] \in 1..Len(log)
        BY <2>2, <3>2
      <4>2. Picks(q)[1].action = "pick"
        BY <2>4, <4>1, LineFacts
      <4>3. next.todo = Picks(q)
        BY <2>1, <2>4, <3>2
      <4> QED
        BY <4>2, <4>3
    <3>3. CASE t.todo = <<>> /\ Len(q) = 0
      BY <2>1, <2>4, <3>3
    <3> QED
      BY <3>1, <3>2, <3>3
  <2> QED
    BY <1>10, <2>1, <2>3, <2>5, <2>6, <2>7, Zenon DEF q
<1>11. CASE i \notin moved /\ i \notin at /\ t.found
  <2>0. next = Of4(t.todo, t.before, Append(t.after, i), TRUE)
    BY <1>4, <1>11, Zenon DEF StepForm
  <2>1. /\ next.todo = t.todo /\ next.after = Append(t.after, i) /\ next.found = TRUE
    BY <2>0 DEF Of4
  <2>2. Holds(next.after, i) /\ \A p : Holds(t.after, p) => Holds(next.after, p)
    BY <1>1, <2>1, HoldsOne
  <2> QED
    BY <1>11, <2>1, <2>2, Zenon DEF KeepsAll
<1>12. CASE i \notin moved /\ i \notin at /\ ~t.found
  <2>0. next = Of4(Append(t.todo, Line("pick", i)), t.before, t.after, FALSE)
    BY <1>4, <1>12, Zenon DEF StepForm
  <2>1. /\ next.todo = Append(t.todo, Line("pick", i)) /\ next.before = t.before
        /\ next.after = t.after /\ next.found = FALSE
    BY <2>0 DEF Of4
  <2>2. /\ Written(next.todo, i) /\ \A p : Written(t.todo, p) => Written(next.todo, p)
    BY <1>1, <2>1, WrittenOne
  <2>3. next.todo # <<>> /\ next.todo[1].action = "pick"
    BY <1>1, <1>5, <2>1 DEF KeepsAll
  <2> QED
    BY <2>1, <2>2, <2>3, Zenon
<1> QED
  BY <1>7, <1>8, <1>9, <1>10, <1>11, <1>12, Zenon

-----------------------------------------------------------------------------
(* What git makes of a todo list.                                          *)
\* The first line is not a squash without a commit to squash onto.
Begins(onto, todo) == todo # <<>> /\ onto = <<>> => todo[1].action = "pick"

\* A change of a commit.
Changes(c) == {c[j] : j \in DOMAIN c}

LEMMA ChangesAre ==
  ASSUME NEW h \in Seq(OneCommit), NEW x
  PROVE  x \in ChangesIn(h) <=> \E i \in 1..Len(h) : x \in Changes(h[i])
BY DEF ChangesIn, Changes

LEMMA LineReplayed ==
  ASSUME NEW h \in Seq(OneCommit), NEW line \in TodoLine, line.action = "pick" \/ h # <<>>
  PROVE  /\ ReplayLine(h, line) \in Seq(OneCommit) /\ ReplayLine(h, line) # <<>>
         /\ ChangesIn(h) \subseteq ChangesIn(ReplayLine(h, line))
         /\ Changes(line.commit) \subseteq ChangesIn(ReplayLine(h, line))
<1>0. line.action \in {"pick", "squash"} /\ line.commit \in OneCommit /\ Len(h) \in Nat
  BY DEF TodoLine
<1>1. ASSUME NEW g \in Seq(OneCommit), NEW c \in OneCommit
      PROVE  /\ Append(g, c) \in Seq(OneCommit) /\ Append(g, c) # <<>>
             /\ ChangesIn(g) \subseteq ChangesIn(Append(g, c))
             /\ Changes(c) \subseteq ChangesIn(Append(g, c))
  <2>1. /\ Append(g, c) \in Seq(OneCommit) /\ Append(g, c) # <<>> /\ Len(g) \in Nat
        /\ Len(Append(g, c)) = Len(g) + 1 /\ Append(g, c)[Len(g) + 1] = c
        /\ \A i \in 1..Len(g) : Append(g, c)[i] = g[i]
    BY AppendProperties
  <2>2. ASSUME NEW x \in ChangesIn(g) PROVE x \in ChangesIn(Append(g, c))
    <3>1. PICK i \in 1..Len(g) : x \in Changes(g[i])
      BY ChangesAre
    <3>2. i \in 1..Len(Append(g, c)) /\ x \in Changes(Append(g, c)[i])
      BY <2>1, <3>1
    <3> QED
      BY <2>1, <3>2, ChangesAre
  <2>3. ASSUME NEW x \in Changes(c) PROVE x \in ChangesIn(Append(g, c))
    <3>1. Len(g) + 1 \in 1..Len(Append(g, c)) /\ x \in Changes(Append(g, c)[Len(g) + 1])
      BY <2>1
    <3> QED
      BY <2>1, <3>1, ChangesAre
  <2> QED
    BY <2>1, <2>2, <2>3
<1>2. CASE line.action = "pick"
  <2>1. ReplayLine(h, line) = Append(h, line.commit)
    BY <1>2 DEF ReplayLine
  <2> QED
    BY <1>0, <1>1, <2>1
<1>3. CASE line.action # "pick"
  <2> DEFINE f == Front(h)
             l == Last(h)
             c == l \o line.commit
  <2>1. ReplayLine(h, line) = Append(f, c)
    BY <1>3 DEF ReplayLine
  <2>2. /\ f \in Seq(OneCommit) /\ l \in OneCommit /\ Len(f) = Len(h) - 1
        /\ \A i \in 1..(Len(h) - 1) : f[i] = h[i]
        /\ l = h[Len(h)]
    BY <1>3, LastOf
  <2> HIDE DEF f, l
  <2>3. /\ c \in OneCommit /\ Changes(l) \subseteq Changes(c) /\ Changes(line.commit) \subseteq Changes(c)
    <3> DEFINE m == line.commit
    <3>0. /\ l \in Seq(Nat \ {0}) /\ m \in Seq(Nat \ {0})
          /\ DOMAIN l = 1..Len(l) /\ DOMAIN m = 1..Len(m) /\ Len(l) \in Nat \ {0} /\ Len(m) \in Nat
      <4>1. l \in Seq(Nat \ {0}) /\ l # <<>> /\ m \in Seq(Nat \ {0})
        BY <1>0, <2>2 DEF OneCommit
      <4> HIDE DEF m
      <4> QED
        BY <4>1
    <3> HIDE DEF m
    <3>1. /\ l \o m \in Seq(Nat \ {0}) /\ Len(l \o m) = Len(l) + Len(m)
          /\ \A i \in 1..(Len(l) + Len(m)) : (l \o m)[i] = IF i <= Len(l) THEN l[i] ELSE m[i - Len(l)]
      BY <3>0, ConcatProperties
    <3>2. DOMAIN (l \o m) = 1..(Len(l) + Len(m)) /\ l \o m # <<>>
      BY <3>0, <3>1
    <3>3. \A i \in 1..Len(l) : i \in 1..(Len(l) + Len(m)) /\ (l \o m)[i] = l[i]
      BY <3>0, <3>1
    <3>4. \A i \in 1..Len(m) : i + Len(l) \in 1..(Len(l) + Len(m)) /\ (l \o m)[i + Len(l)] = m[i]
      <4> TAKE i \in 1..Len(m)
      <4>1. i + Len(l) \in 1..(Len(l) + Len(m)) /\ ~(i + Len(l) <= Len(l)) /\ (i + Len(l)) - Len(l) = i
        BY <3>0
      <4> QED
        BY <3>1, <4>1
    <3>5. l \o m \in OneCommit
      BY <3>1, <3>2 DEF OneCommit
    <3>6. Changes(l) \subseteq Changes(l \o m) /\ Changes(m) \subseteq Changes(l \o m)
      BY <3>0, <3>2, <3>3, <3>4 DEF Changes
    <3> QED
      BY <3>5, <3>6 DEF m
  <2> HIDE DEF c
  <2>4. /\ Append(f, c) \in Seq(OneCommit) /\ Append(f, c) # <<>>
        /\ ChangesIn(f) \subseteq ChangesIn(Append(f, c)) /\ Changes(c) \subseteq ChangesIn(Append(f, c))
    BY <1>1, <2>2, <2>3
  <2>5. ASSUME NEW x \in ChangesIn(h) PROVE x \in ChangesIn(Append(f, c))
    <3>1. PICK i \in 1..Len(h) : x \in Changes(h[i])
      BY ChangesAre
    <3>2. CASE i = Len(h)
      BY <2>2, <2>3, <2>4, <3>1, <3>2
    <3>3. CASE i # Len(h)
      <4>1. i \in 1..(Len(h) - 1) /\ i \in 1..Len(f)
        BY <1>0, <2>2, <3>3
      <4>2. x \in Changes(f[i])
        BY <2>2, <3>1, <4>1
      <4>3. x \in ChangesIn(f)
        BY <2>2, <4>1, <4>2, ChangesAre
      <4> QED
        BY <2>4, <4>3
    <3> QED
      BY <3>2, <3>3
  <2> QED
    BY <2>1, <2>3, <2>4, <2>5
<1> QED
  BY <1>2, <1>3

Replays(c, onto, todo) ==
  c = [n \in 0..Len(todo) |-> IF n = 0 THEN onto ELSE ReplayLine(c[n - 1], todo[n])]

\* The histories a replay goes through.
Replayed(c, onto, todo) ==
  /\ c \in [0..Len(todo) -> Seq(OneCommit)] /\ c[0] = onto
  /\ \A n \in 1..Len(todo) :
       /\ c[n] = ReplayLine(c[n - 1], todo[n])
       /\ todo[n].action = "pick" \/ c[n - 1] # <<>>
  /\ Replay(onto, todo) = c[Len(todo)]

LEMMA ReplayIs ==
  ASSUME NEW onto \in Seq(OneCommit), NEW todo \in Seq(TodoLine), Begins(onto, todo)
  PROVE  \E c : Replayed(c, onto, todo)
<1> DEFINE N == Len(todo)
           V == Seq(OneCommit)
           Safe(h, n) == IF todo[n].action = "pick" \/ h # <<>> THEN ReplayLine(h, todo[n]) ELSE <<>>
           step == [p \in (1..N) \X V |-> Safe(p[2], p[1])]
           c == CHOOSE g : Replays(g, onto, todo)
<1>1. N \in Nat /\ N \in 0..N /\ \A n \in 1..N : todo[n] \in TodoLine
  OBVIOUS
<1>2. step \in [(1..N) \X V -> V]
  <2>1. \A n \in 1..N, h \in V : Safe(h, n) \in V
    BY <1>1, LineReplayed
  <2>2. \A p \in (1..N) \X V : p[1] \in 1..N /\ p[2] \in V
    OBVIOUS
  <2> HIDE DEF Safe
  <2> QED
    BY <2>1, <2>2
<1>3. \A n \in 1..N, h \in V : step[<<n, h>>] = Safe(h, n)
  OBVIOUS
<1> HIDE DEF step
<1>4. PICK f : Recurs(f, N, V, onto, step)
  BY <1>1, <1>2, Recursion
<1>5. f[0] = onto /\ f = [n \in 0..N |-> f[n]] /\ \A n \in 1..N : f[n] = step[<<n, f[n - 1]>>]
  BY <1>4 DEF Recurs
<1>6. \A n \in 0..N : f[n] \in V
  BY <1>4 DEF Recurs
<1>7. \A n \in 1..N : n \in 0..N /\ n # 0 /\ n - 1 \in 0..N
  OBVIOUS
<1>8. \A n \in 1..N : f[n] = Safe(f[n - 1], n)
  BY <1>3, <1>5, <1>6, <1>7
<1> DEFINE Right(n) ==
             n # 0 => /\ f[n] # <<>>
                      /\ f[n] = ReplayLine(f[n - 1], todo[n])
                      /\ todo[n].action = "pick" \/ f[n - 1] # <<>>
           P == {n \in 0..N : Right(n)}
<1>9. \A n \in 0..N : Right(n)
  <2>1. 0 \in P
    BY <1>1
  <2>2. ASSUME NEW n \in 1..N, n - 1 \in P PROVE n \in P
    <3>1. todo[n].action = "pick" \/ f[n - 1] # <<>>
      <4>1. CASE n = 1
        <5>1. todo # <<>> /\ f[n - 1] = onto
          BY <1>1, <1>5, <4>1
        <5> QED
          BY <4>1, <5>1 DEF Begins
      <4>2. CASE n # 1
        <5>1. n - 1 # 0
          BY <4>2
        <5> QED
          BY <2>2, <5>1
      <4> QED
        BY <4>1, <4>2
    <3>2. f[n] = ReplayLine(f[n - 1], todo[n])
      BY <1>8, <3>1
    <3>3. f[n - 1] \in Seq(OneCommit) /\ todo[n] \in TodoLine
      BY <1>1, <1>6, <1>7
    <3>4. ReplayLine(f[n - 1], todo[n]) # <<>>
      BY <3>1, <3>3, LineReplayed, Zenon
    <3> QED
      BY <1>7, <3>1, <3>2, <3>4
  <2>3. \A n \in 0..N : n \in P
    <3> HIDE DEF P
    <3> QED
      BY <1>1, <2>1, <2>2, UpTo
  <2> QED
    BY <2>3
<1> HIDE DEF Right, P
<1>10. Replays(f, onto, todo)
  <2>1. \A n \in 0..N : f[n] = IF n = 0 THEN onto ELSE ReplayLine(f[n - 1], todo[n])
    <3> TAKE n \in 0..N
    <3>1. Right(n)
      BY <1>9
    <3> QED
      BY <1>5, <3>1 DEF Right
  <2>2. f = [n \in 0..N |-> f[n]]
    BY <1>5
  <2> QED
    BY <2>1, <2>2 DEF Replays
<1>11. Replays(c, onto, todo) /\ Replay(onto, todo) = c[N]
  BY <1>10 DEF Replay, Replays
<1> HIDE DEF c
<1>12. \A n \in 0..N : c[n] = IF n = 0 THEN onto ELSE ReplayLine(c[n - 1], todo[n])
  BY <1>11 DEF Replays
<1>13. \A n \in 0..N : c[n] = f[n]
  <2> DEFINE Q == {k \in 0..N : c[k] = f[k]}
  <2>1. 0 \in Q
    BY <1>1, <1>5, <1>12
  <2>2. ASSUME NEW n \in 1..N, n - 1 \in Q PROVE n \in Q
    <3>1. n \in 0..N /\ n # 0 /\ c[n - 1] = f[n - 1] /\ Right(n)
      BY <1>9, <1>7, <2>2
    <3>2. c[n] = ReplayLine(c[n - 1], todo[n])
      BY <1>12, <3>1
    <3>3. f[n] = ReplayLine(f[n - 1], todo[n])
      BY <3>1, Zenon DEF Right
    <3> QED
      BY <3>1, <3>2, <3>3
  <2>3. \A n \in 0..N : n \in Q
    <3> HIDE DEF Q
    <3> QED
      BY <1>1, <2>1, <2>2, UpTo
  <2> QED
    BY <2>3
<1>14. c \in [0..N -> V]
  <2>1. \A n \in 0..N : c[n] \in V
    BY <1>6, <1>13
  <2>2. c = [n \in 0..N |-> c[n]]
    BY <1>11 DEF Replays
  <2> QED
    BY <2>1, <2>2
<1>15. ASSUME NEW n \in 1..N
       PROVE  c[n] = ReplayLine(c[n - 1], todo[n]) /\ (todo[n].action = "pick" \/ c[n - 1] # <<>>)
  <2>1. n \in 0..N /\ n - 1 \in 0..N /\ n # 0 /\ Right(n)
    BY <1>9, <1>7
  <2>2. c[n - 1] = f[n - 1] /\ c[n] = ReplayLine(c[n - 1], todo[n])
    BY <1>12, <1>13, <2>1
  <2> QED
    BY <2>1, <2>2 DEF Right
<1>16. c[0] = onto
  BY <1>1, <1>12
<1> QED
  BY <1>11, <1>14, <1>15, <1>16 DEF Replayed

(* Whatever git replays it keeps: the changes of the commits it starts     *)
(* from and those of each line.                                            *)
LEMMA ReplayKeeps ==
  ASSUME NEW onto \in Seq(OneCommit), NEW todo \in Seq(TodoLine), Begins(onto, todo)
  PROVE  /\ Replay(onto, todo) \in Seq(OneCommit)
         /\ ChangesIn(onto) \subseteq ChangesIn(Replay(onto, todo))
         /\ \A j \in 1..Len(todo) : Changes(todo[j].commit) \subseteq ChangesIn(Replay(onto, todo))
<1> DEFINE N == Len(todo)
<1>1. PICK c : Replayed(c, onto, todo)
  BY ReplayIs
<1>2. /\ N \in Nat /\ N \in 0..N /\ c[0] = onto /\ Replay(onto, todo) = c[N]
      /\ \A n \in 0..N : c[n] \in Seq(OneCommit)
      /\ \A n \in 1..N : todo[n] \in TodoLine
  BY <1>1 DEF Replayed
<1> DEFINE Right(n) == /\ ChangesIn(onto) \subseteq ChangesIn(c[n])
                      /\ \A j \in 1..n : Changes(todo[j].commit) \subseteq ChangesIn(c[n])
           P == {n \in 0..N : Right(n)}
<1>3. 0 \in P
  BY <1>2
<1>4. ASSUME NEW n \in 1..N, n - 1 \in P PROVE n \in P
  <2>1. /\ c[n] = ReplayLine(c[n - 1], todo[n])
        /\ todo[n].action = "pick" \/ c[n - 1] # <<>>
    BY <1>1 DEF Replayed
  <2>2. c[n - 1] \in Seq(OneCommit) /\ todo[n] \in TodoLine /\ n \in 0..N
    BY <1>2
  <2>3. /\ ChangesIn(c[n - 1]) \subseteq ChangesIn(c[n])
        /\ Changes(todo[n].commit) \subseteq ChangesIn(c[n])
    BY <2>1, <2>2, LineReplayed
  <2>4. Right(n - 1)
    BY <1>4
  <2>5. \A j \in 1..n : j = n \/ j \in 1..(n - 1)
    OBVIOUS
  <2>6. Right(n)
    BY <2>3, <2>4, <2>5
  <2> QED
    BY <2>2, <2>6
<1>5. Right(N)
  <2>1. \A n \in 0..N : n \in P
    <3> HIDE DEF P
    <3> QED
      BY <1>2, <1>3, <1>4, UpTo
  <2>2. N \in P
    BY <1>2, <2>1
  <2> HIDE DEF Right
  <2> QED
    BY <2>2
<1> QED
  BY <1>2, <1>5

\* The value of a traversal at its end, and at its first step.
LEMMA TraversedKeeps ==
  ASSUME Typed, NEW kind, NEW moved, NEW at, NEW retained, Reachable(retained) \in 0..Len(log)
  PROVE  LET t == Traversed(kind, moved, at, retained)
         IN  t \in Walk /\ KeepsAll(kind, t, Reachable(retained), Len(log))
<1> DEFINE N == Len(log)
           from == Reachable(retained)
<1>0. PICK t : Travels(t, kind, moved, at, retained)
  BY TraversedIs
<1>1. /\ t \in [0..N -> Walk]
      /\ Traversed(kind, moved, at, retained) = t[N]
      /\ \A i \in 0..from : t[i] = Traversal
      /\ \A i \in (from + 1)..N : t[i] = TheStep(kind, moved, at, t[i - 1], i)
  BY <1>0 DEF Travels
<1>2. N \in Nat /\ N \in 0..N /\ from \in 0..N /\ from \in Nat
  BY HistoryFacts DEF Typed
<1> DEFINE P == {i \in 0..N : i >= from => KeepsAll(kind, t[i], from, i)}
<1>3. KeepsAll(kind, Traversal, from, from)
  <2>1. (from + 1)..from = {}
    BY <1>2
  <2> QED
    BY <2>1 DEF KeepsAll, Traversal
<1> HIDE DEF N, from
<1>4. 0 \in P
  <2>1. 0 >= from => from = 0
    BY <1>2
  <2>2. t[from] = Traversal
    BY <1>1, <1>2
  <2> QED
    BY <1>2, <1>3, <2>1, <2>2
<1>5. ASSUME NEW i \in 1..N, i - 1 \in P PROVE i \in P
  <2>0. i \in 0..N
    OBVIOUS
  <2>1. CASE i > from
    <3>1. /\ i \in (from + 1)..N /\ from \in 0..(i - 1) /\ i \in 1..Len(log) /\ t[i - 1] \in Walk
          /\ KeepsAll(kind, t[i - 1], from, i - 1)
      <4>1. i - 1 >= from /\ i - 1 \in 0..N
        BY <1>2, <2>1
      <4> QED
        BY <1>1, <1>2, <1>5, <2>1, <4>1 DEF N
    <3>2. KeepsAll(kind, TheStep(kind, moved, at, t[i - 1], i), from, i)
      BY <3>1, KeepsAllStep
    <3>3. t[i] = TheStep(kind, moved, at, t[i - 1], i)
      BY <1>1, <3>1
    <3> QED
      BY <2>0, <3>2, <3>3
  <2>2. CASE i = from
    <3>1. t[i] = Traversal
      BY <1>1, <1>2, <2>2
    <3> QED
      BY <1>3, <2>0, <2>2, <3>1
  <2>3. CASE i < from
    BY <1>2, <2>0, <2>3
  <2> QED
    BY <1>2, <2>1, <2>2, <2>3
<1>6. KeepsAll(kind, t[N], from, N)
  <2>1. \A i \in 0..N : i \in P
    <3> HIDE DEF P
    <3> QED
      BY <1>2, <1>4, <1>5, UpTo
  <2> QED
    BY <1>2, <2>1
<1>7. t[N] \in Walk
  BY <1>1, <1>2
<1> QED
  BY <1>1, <1>6, <1>7 DEF N, from

(* A rebase, whether it starts or not, leaves a history that has all the   *)
(* changes of the one it was asked for.                                    *)
LEMMA RebaseKeeps ==
  ASSUME Typed, NEW kind, NEW moved, NEW at, NEW base, NEW retained \in 0..Len(listed),
         RebaseInteractive(Traversed(kind, moved, at, retained), base, retained)
  PROVE  log' \in Histories /\ ChangesIn(log) \subseteq ChangesIn(log')
<1> DEFINE t == Traversed(kind, moved, at, retained)
           from == Reachable(retained)
           rest == IF base = Null THEN Picks(t.before) ELSE <<>>
           todo == t.todo \o Picks(t.after) \o rest
           onto == SubSeq(listed, 1, retained)
           done == from < Len(log) /\ HasOnto(t, base)
<1>1. /\ log \in Seq(OneCommit) /\ Len(log) \in Nat \ {0} /\ listed \in Seq(OneCommit)
      /\ \A i \in 1..Len(log) : log[i] \in OneCommit
  BY HistoryFacts DEF Typed
<1>2. log' = IF done THEN Replay(onto, todo) ELSE log
  BY DEF RebaseInteractive
<1>3. CASE ~done
  BY <1>2, <1>3 DEF Typed
<1>4. CASE done
  <2>1. /\ from \in 0..Len(log) /\ from <= retained
        /\ \A i \in 1..from : log[i] = listed[i]
    BY ReachableFacts
  <2>2. t \in Walk /\ KeepsAll(kind, t, from, Len(log))
    BY <2>1, TraversedKeeps
  <2>3. t.found \/ base = Null
    BY <1>4 DEF HasOnto
  <2> DEFINE a == t.todo
             b == Picks(t.after)
  <2>4. /\ a \in Seq(TodoLine) /\ t.before \in Seq(1..Len(log)) /\ t.after \in Seq(1..Len(log))
        /\ t.found \in BOOLEAN
    BY <2>2 DEF Walk
  <2>5. /\ onto \in Seq(OneCommit) /\ Len(onto) = retained
        /\ \A i \in 1..retained : onto[i] = listed[i]
    <3>1. /\ 1 \in Int /\ retained \in Int /\ retained <= Len(listed)
          /\ \A i \in 1..retained : listed[i] \in OneCommit
      BY <1>1
    <3>2. /\ onto \in Seq(OneCommit) /\ Len(onto) = IF 1 <= retained THEN retained - 1 + 1 ELSE 0
          /\ \A i \in 1..(retained - 1 + 1) : onto[i] = listed[1 + i - 1]
      BY <3>1, SubSeqProperties
    <3> QED
      BY <3>2
  <2> HIDE DEF t, onto
  <2>6. /\ b \in Seq(TodoLine) /\ Len(b) = Len(t.after)
        /\ \A j \in 1..Len(t.after) : b[j] = Line("pick", t.after[j])
    BY <2>4, PicksFacts
  <2>7. /\ Picks(t.before) \in Seq(TodoLine) /\ Len(Picks(t.before)) = Len(t.before)
        /\ \A j \in 1..Len(t.before) : Picks(t.before)[j] = Line("pick", t.before[j])
    BY <2>4, PicksFacts
  <2>8. rest \in Seq(TodoLine) /\ a \o b \in Seq(TodoLine) /\ todo = (a \o b) \o rest
    BY <2>4, <2>6, <2>7
  <2>9. todo \in Seq(TodoLine)
    BY <2>8, ConcatProperties
  <2>10. \A p : Written(todo, p) <=> Written(a, p) \/ Written(b, p) \/ Written(rest, p)
    <3> HIDE DEF a, b, rest
    <3> QED
      BY <2>4, <2>6, <2>8, WrittenMore, Zenon
  <2>11. \A p \in (from + 1)..Len(log) : Written(todo, p)
    <3> TAKE p \in (from + 1)..Len(log)
    <3>1. Written(a, p) \/ Holds(t.after, p) \/ (~t.found /\ Holds(t.before, p))
      BY <2>2 DEF KeepsAll
    <3>2. Holds(t.after, p) => Written(b, p)
      BY <2>4, WrittenPicks
    <3>3. ~t.found /\ Holds(t.before, p) => Written(rest, p)
      BY <2>3, <2>4, WrittenPicks
    <3> QED
      BY <2>10, <3>1, <3>2, <3>3, Zenon
  <2>12. Begins(onto, todo)
    <3>1. \A q \in Seq(1..Len(log)) : Len(q) # 0 => Picks(q)[1].action = "pick"
      <4> TAKE q \in Seq(1..Len(log))
      <4> HAVE Len(q) # 0
      <4>1. 1 \in 1..Len(q) /\ q[1] \in 1..Len(log)
        OBVIOUS
      <4>2. Picks(q)[1] = Line("pick", q[1])
        BY <4>1, PicksFacts
      <4> QED
        BY <4>1, <4>2, LineFacts
    <3>2. /\ a # <<>> => a[1].action = "pick"
          /\ b # <<>> => b[1].action = "pick"
          /\ rest # <<>> => rest[1].action = "pick"
      <4>1. a # <<>> => a[1].action = "pick"
        BY <2>2 DEF KeepsAll
      <4>2. b # <<>> => b[1].action = "pick"
        BY <2>4, <2>6, <3>1
      <4>3. Picks(t.before) # <<>> => Picks(t.before)[1].action = "pick"
        BY <2>4, <2>7, <3>1
      <4> QED
        BY <4>1, <4>2, <4>3
    <3>3. \A x, y \in Seq(TodoLine) :
            (x # <<>> => x[1].action = "pick") /\ (y # <<>> => y[1].action = "pick")
            => (x \o y # <<>> => (x \o y)[1].action = "pick")
      OBVIOUS
    <3>4. a \o b # <<>> => (a \o b)[1].action = "pick"
      BY <2>4, <2>6, <3>2, <3>3
    <3>5. todo # <<>> => todo[1].action = "pick"
      <4> HIDE DEF a, b, rest
      <4> QED
        BY <2>8, <3>2, <3>3, <3>4
    <3> QED
      BY <3>5 DEF Begins
  <2> HIDE DEF todo
  <2>13. /\ Replay(onto, todo) \in Seq(OneCommit)
         /\ ChangesIn(onto) \subseteq ChangesIn(Replay(onto, todo))
         /\ \A j \in 1..Len(todo) : Changes(todo[j].commit) \subseteq ChangesIn(Replay(onto, todo))
    BY <2>5, <2>9, <2>12, ReplayKeeps
  <2>14. log' = Replay(onto, todo)
    BY <1>2, <1>4
  <2>15. ASSUME NEW x \in ChangesIn(log) PROVE x \in ChangesIn(log')
    <3>1. PICK p \in 1..Len(log) : x \in Changes(log[p])
      BY <1>1, ChangesAre
    <3>2. CASE p \in 1..from
      <4>1. p \in 1..Len(onto) /\ onto[p] = log[p]
        BY <2>1, <2>5, <3>2
      <4>2. x \in ChangesIn(onto)
        BY <2>5, <3>1, <4>1, ChangesAre
      <4> QED
        BY <2>13, <2>14, <4>2
    <3>3. CASE p \notin 1..from
      <4>1. p \in (from + 1)..Len(log)
        BY <2>1, <3>3
      <4>2. PICK j \in 1..Len(todo) : todo[j].commit = log[p]
        BY <2>11, <4>1 DEF Written
      <4> QED
        BY <2>13, <2>14, <3>1, <4>2
    <3> QED
      BY <3>2, <3>3
  <2>16. log' # <<>>
    <3>1. 1 \in 1..Len(log) /\ log[1] \in OneCommit
      BY <1>1
    <3>2. 1 \in DOMAIN log[1]
      BY <3>1 DEF OneCommit
    <3>3. log[1][1] \in ChangesIn(log)
      BY <1>1, <3>1, <3>2, ChangesAre DEF Changes
    <3>4. log[1][1] \in ChangesIn(log')
      BY <2>15, <3>3
    <3>5. ChangesIn(<<>>) = {}
      BY DEF ChangesIn
    <3> QED
      BY <3>4, <3>5
  <2>17. log' \in Histories
    BY <2>13, <2>14, <2>16 DEF Histories, OneCommit
  <2> QED
    BY <2>15, <2>17
<1> QED
  BY <1>3, <1>4

(* A history of at least one commit has a greatest change, so that another *)
(* program has a change to make that is in none of them.                   *)
LEMMA Bounded ==
  ASSUME NEW s \in Seq(Nat)
  PROVE  \E b \in Nat : \A i \in 1..Len(s) : s[i] <= b
<1> DEFINE N == Len(s)
           P == {n \in 0..N : \E b \in Nat : \A i \in 1..n : s[i] <= b}
<1>1. N \in Nat /\ N \in 0..N /\ \A i \in 1..N : s[i] \in Nat
  OBVIOUS
<1> HIDE DEF N
<1>2. 0 \in P
  <2>1. 0 \in Nat /\ \A i \in 1..0 : s[i] <= 0
    OBVIOUS
  <2> QED
    BY <1>1, <2>1
<1>3. ASSUME NEW n \in 1..N, n - 1 \in P PROVE n \in P
  <2>1. PICK b \in Nat : \A i \in 1..(n - 1) : s[i] <= b
    BY <1>3
  <2>2. s[n] \in Nat /\ n \in 0..N /\ \A i \in 1..n : s[i] \in Nat
    BY <1>1
  <2> DEFINE c == IF s[n] <= b THEN b ELSE s[n]
  <2>3. c \in Nat /\ b <= c /\ s[n] <= c
    BY <2>2
  <2>4. \A i \in 1..n : i = n \/ i \in 1..(n - 1)
    OBVIOUS
  <2> HIDE DEF c
  <2>5. \A i \in 1..n : s[i] <= c
    BY <2>1, <2>2, <2>3, <2>4
  <2> QED
    BY <2>2, <2>3, <2>5
<1>4. \A n \in 0..N : n \in P
  <2> HIDE DEF P
  <2> QED
    BY <1>1, <1>2, <1>3, UpTo
<1> QED
  BY <1>1, <1>4 DEF N

LEMMA GreatestChange ==
  ASSUME NEW h \in Histories
  PROVE  Max(ChangesIn(h)) \in Nat \ {0} /\ \A x \in ChangesIn(h) : x \in Nat /\ x <= Max(ChangesIn(h))
<1> DEFINE Bounds(i) == {b \in Nat : \A x \in Changes(h[i]) : x <= b}
           bounds == [i \in 1..Len(h) |-> CHOOSE b \in Bounds(i) : TRUE]
<1>1. /\ h \in Seq(OneCommit) /\ Len(h) \in Nat \ {0}
      /\ \A i \in 1..Len(h) : h[i] \in Seq(Nat \ {0}) /\ h[i] # <<>>
  BY HistoryFacts DEF OneCommit
<1>2. \A i \in 1..Len(h) : Changes(h[i]) \subseteq Nat \ {0} /\ Changes(h[i]) # {}
  <2> TAKE i \in 1..Len(h)
  <2> DEFINE c == h[i]
  <2>1. c \in Seq(Nat \ {0}) /\ c # <<>>
    BY <1>1
  <2> HIDE DEF c
  <2>2. DOMAIN c = 1..Len(c) /\ 1 \in 1..Len(c) /\ \A j \in 1..Len(c) : c[j] \in Nat \ {0}
    BY <2>1
  <2>3. Changes(c) \subseteq Nat \ {0} /\ Changes(c) # {}
    BY <2>2 DEF Changes
  <2> QED
    BY <2>3 DEF c
<1>3. \A i \in 1..Len(h) : \E b : b \in Bounds(i)
  <2> TAKE i \in 1..Len(h)
  <2> DEFINE c == h[i]
  <2>1. c \in Seq(Nat) /\ DOMAIN c = 1..Len(c)
    <3>1. c \in Seq(Nat \ {0})
      BY <1>1
    <3> HIDE DEF c
    <3> QED
      BY <3>1
  <2> HIDE DEF c
  <2>2. PICK b \in Nat : \A j \in 1..Len(c) : c[j] <= b
    BY <2>1, Bounded
  <2>3. \A x \in Changes(c) : x <= b
    BY <2>1, <2>2 DEF Changes
  <2> QED
    BY <2>3 DEF c
<1>4. \A i \in 1..Len(h) : bounds[i] \in Bounds(i)
  BY <1>3
<1>5. bounds \in Seq(Nat) /\ Len(bounds) = Len(h)
  <2>1. \A i \in 1..Len(h) : bounds[i] \in Nat
    BY <1>4
  <2>2. bounds = [i \in 1..Len(h) |-> bounds[i]]
    OBVIOUS
  <2> HIDE DEF bounds
  <2>3. bounds \in [1..Len(h) -> Nat]
    BY <2>1, <2>2
  <2> QED
    BY <1>1, <2>3
<1>6. \A i \in 1..Len(h) : bounds[i] \in Nat /\ \A x \in Changes(h[i]) : x <= bounds[i]
  BY <1>4
<1> HIDE DEF bounds
<1>7. PICK b \in Nat : \A i \in 1..Len(h) : bounds[i] <= b
  BY <1>5, Bounded
<1>8. ASSUME NEW x \in ChangesIn(h) PROVE x \in Nat \ {0} /\ x <= b
  <2>1. PICK i \in 1..Len(h) : x \in Changes(h[i])
    BY <1>1, ChangesAre
  <2>2. x \in Nat \ {0} /\ x <= bounds[i] /\ bounds[i] <= b /\ bounds[i] \in Nat
    BY <1>2, <1>6, <1>7, <2>1
  <2> QED
    BY <2>2
<1>9. ChangesIn(h) # {}
  <2>1. 1 \in 1..Len(h)
    BY <1>1
  <2>2. PICK x : x \in Changes(h[1])
    BY <1>2, <2>1
  <2> QED
    BY <1>1, <2>1, <2>2, ChangesAre
<1> DEFINE C == ChangesIn(h)
<1>10. C \subseteq Nat /\ C # {} /\ (\A x \in C : x <= b) /\ C \subseteq Nat \ {0}
  BY <1>8, <1>9
<1> HIDE DEF C
<1>11. Max(C) \in C /\ \A x \in C : x <= Max(C)
  BY <1>10, MaxIn
<1> QED
  BY <1>10, <1>11 DEF C

-----------------------------------------------------------------------------
\* What is asked for is of commits of the list.
LEMMA Concerned ==
  ASSUME Typed, NEW moved \in Moves, NEW at \in {Null} \cup DOMAIN listed
  PROVE  /\ Retained(moved \cup ({at} \ {Null})) \in 0..(Len(listed) - 1)
         /\ Retained(moved \cup ({at} \ {Null})) \in 0..Len(listed)
         /\ at # Null => Retained(moved \cup {at}) \in 0..Len(listed)
         /\ moved # {} /\ moved \subseteq 1..Len(listed) /\ DOMAIN listed = 1..Len(listed)
<1>1. DOMAIN listed = 1..Len(listed) /\ Len(listed) \in Nat \ {0}
  BY HistoryFacts DEF Typed
<1>2. moved # {} /\ moved \subseteq 1..Len(listed)
  BY <1>1 DEF Moves
<1> DEFINE some == moved \cup ({at} \ {Null})
<1>3. some \subseteq 1..Len(listed) /\ some # {} /\ (at # Null => some = moved \cup {at})
  BY <1>1, <1>2
<1> HIDE DEF some
<1>4. Retained(some) \in 0..(Len(listed) - 1)
  BY <1>3, RetainedFacts
<1>5. Retained(some) \in 0..Len(listed)
  BY <1>1, <1>4
<1>6. at # Null => Retained(moved \cup {at}) \in 0..Len(listed)
  BY <1>3, <1>5
<1>7. /\ Retained(moved \cup ({at} \ {Null})) \in 0..(Len(listed) - 1)
      /\ Retained(moved \cup ({at} \ {Null})) \in 0..Len(listed)
  BY <1>4, <1>5 DEF some
<1> QED
  BY <1>1, <1>2, <1>6, <1>7

(* Reordering and squashing keep all changes, whatever the list is.        *)
LEMMA OperationKeeps ==
  ASSUME Typed, NEW moved \in Moves, NEW at \in {Null} \cup DOMAIN listed,
         Reorder(moved, at) \/ (at # Null /\ Squash(moved, at))
  PROVE  log' \in Histories /\ ChangesIn(log) \subseteq ChangesIn(log')
<1>1. CASE Reorder(moved, at)
  <2> DEFINE retained == Retained(moved \cup ({at} \ {Null}))
  <2>1. retained \in 0..Len(listed)
    BY Concerned
  <2>2. RebaseInteractive(Traversed("reorder", OnBranch(moved), OnBranch({at}), retained), at, retained)
    BY <1>1 DEF Reorder
  <2> HIDE DEF retained
  <2> QED
    BY <2>1, <2>2, RebaseKeeps
<1>2. CASE at # Null /\ Squash(moved, at)
  <2> DEFINE retained == Retained(moved \cup {at})
  <2>1. retained \in 0..Len(listed)
    BY <1>2, Concerned
  <2>2. RebaseInteractive(Traversed("squash", OnBranch(moved), OnBranch({at}), retained), at, retained)
    BY <1>2 DEF Squash
  <2> HIDE DEF retained
  <2> QED
    BY <2>1, <2>2, RebaseKeeps
<1> QED
  BY <1>1, <1>2

\* The inductive invariant: the branch and the list are histories.
LEMMA TodoInitTyped == TodoInit => TodoTypeOK
BY HistoryAssumption DEF TodoInit, TodoTypeOK

LEMMA TodoStepTyped ==
  ASSUME TodoTypeOK, [TodoNext]_todoVars
  PROVE  TodoTypeOK'
<1>0. Typed /\ rewrites \in 0..MaxRewrites /\ MaxRewrites \in Nat
  BY HistoryAssumption DEF TodoTypeOK, Typed
<1>1. ASSUME NEW moved \in Moves, NEW at \in {Null} \cup DOMAIN listed,
             Reorder(moved, at) \/ (at # Null /\ Squash(moved, at))
      PROVE  TodoTypeOK'
  <2>1. listed' = listed /\ rewrites < MaxRewrites /\ rewrites' = rewrites + 1
    BY <1>1 DEF Reorder, Squash, RebaseInteractive
  <2>2. log' \in Histories
    BY <1>0, <1>1, OperationKeeps
  <2> QED
    BY <1>0, <2>1, <2>2 DEF TodoTypeOK, Typed
<1>2. CASE LoadHistory
  BY <1>2 DEF LoadHistory, TodoTypeOK
<1>3. CASE CommitElsewhere
  <2>1. log \in Histories /\ rewrites < MaxRewrites /\ rewrites' = rewrites + 1 /\ listed' = listed
        /\ log' = Append(log, <<Max(ChangesIn(log)) + 1>>)
    BY <1>0, <1>3 DEF CommitElsewhere, Typed
  <2> DEFINE new == <<Max(ChangesIn(log)) + 1>>
  <2>2. Max(ChangesIn(log)) \in Nat \ {0}
    BY <2>1, GreatestChange
  <2>3. new \in Seq(Nat \ {0}) \ {<<>>}
    BY <2>2
  <2> HIDE DEF new
  <2>4. Append(log, new) \in Histories
    BY <2>1, <2>3 DEF Histories
  <2> QED
    BY <1>0, <2>1, <2>4 DEF TodoTypeOK, Typed, new
<1>4. CASE ResetElsewhere
  <2>1. log \in Histories /\ rewrites < MaxRewrites /\ rewrites' = rewrites + 1 /\ listed' = listed
        /\ log' = Front(log) /\ Len(log) > 1
    BY <1>0, <1>4 DEF ResetElsewhere, Typed
  <2>2. log \in Seq(OneCommit) /\ log # <<>>
    BY <2>1, HistoryFacts
  <2>3. Front(log) \in Seq(OneCommit) /\ Len(Front(log)) = Len(log) - 1
    BY <2>2, LastOf
  <2>4. Front(log) \in Histories
    BY <2>1, <2>3 DEF Histories, OneCommit
  <2> QED
    BY <1>0, <2>1, <2>4 DEF TodoTypeOK, Typed
<1>5. CASE UNCHANGED todoVars
  BY <1>5 DEF todoVars, TodoTypeOK
<1>6. ASSUME NEW moved \in Moves, NEW base \in {Null} \cup DOMAIN listed, Reorder(moved, base)
      PROVE  TodoTypeOK'
  BY <1>1, <1>6
<1>7. ASSUME NEW moved \in Moves, NEW onto \in DOMAIN listed, Squash(moved, onto)
      PROVE  TodoTypeOK'
  <2>1. DOMAIN listed = 1..Len(listed) /\ Len(listed) \in Nat
    BY <1>0, HistoryFacts DEF Typed
  <2>2. onto # Null
    BY <2>1 DEF Null
  <2> QED
    BY <1>1, <1>7, <2>2
<1> QED
  BY <1>2, <1>3, <1>4, <1>5, <1>6, <1>7 DEF TodoNext

(* The branch and the list are always histories: no operation leaves a     *)
(* branch without a commit, or a commit without a change.                  *)
THEOREM TodoTyped == TodoSpec => []TodoTypeOK
<1>1. TodoTypeOK /\ [TodoNext]_todoVars => TodoTypeOK'
  BY TodoStepTyped
<1> QED
  BY TodoInitTyped, <1>1, PTL DEF TodoSpec

(* Nothing is lost: a reordering or squashing, of a list of any age and a  *)
(* branch of any length, leaves all changes of the branch on it.           *)
THEOREM NothingIsLost == TodoSpec => NothingLost
<1>1. ASSUME TodoTypeOK, [TodoNext]_todoVars
      PROVE  [rewrites' # rewrites => \A moved \in Moves, at \in {Null} \cup DOMAIN listed :
                Reorder(moved, at) \/ (at # Null /\ Squash(moved, at)) =>
                  ChangesIn(log) \subseteq ChangesIn(log')]_todoVars
  <2>1. Typed
    BY <1>1 DEF TodoTypeOK, Typed
  <2> QED
    BY <2>1, OperationKeeps
<1> QED
  BY TodoTyped, <1>1, PTL DEF TodoSpec, NothingLost

-----------------------------------------------------------------------------
(* What a replay yields, by the histories it goes through.                 *)
Chain(d, onto, todo) ==
  /\ d = [n \in 0..Len(todo) |-> d[n]] /\ d[0] = onto
  /\ \A n \in 1..Len(todo) : d[n] = ReplayLine(d[n - 1], todo[n])

Yields(onto, todo, yielded) == \E d : Chain(d, onto, todo) /\ d[Len(todo)] = yielded

LEMMA ReplayYields ==
  ASSUME NEW onto, NEW todo, Len(todo) \in Nat, NEW yielded, Yields(onto, todo, yielded)
  PROVE  Replay(onto, todo) = yielded
<1> DEFINE N == Len(todo)
           c == CHOOSE g : Replays(g, onto, todo)
<1>1. PICK d : Chain(d, onto, todo) /\ d[N] = yielded
  BY DEF Yields
<1>2. \A n \in 0..N : d[n] = IF n = 0 THEN onto ELSE ReplayLine(d[n - 1], todo[n])
  BY <1>1 DEF Chain
<1>3. Replays(d, onto, todo)
  BY <1>1, <1>2 DEF Replays, Chain
<1>4. Replays(c, onto, todo)
  BY <1>3
<1>5. Replay(onto, todo) = c[N]
  BY DEF Replay, Replays
<1> HIDE DEF c
<1>6. \A n \in 0..N : c[n] = IF n = 0 THEN onto ELSE ReplayLine(c[n - 1], todo[n])
  BY <1>4 DEF Replays
<1> DEFINE P == {n \in 0..N : c[n] = d[n]}
<1>7. 0 \in P
  BY <1>2, <1>6
<1>8. ASSUME NEW n \in 1..N, n - 1 \in P PROVE n \in P
  BY <1>2, <1>6, <1>8
<1>9. \A n \in 0..N : n \in P
  <2> HIDE DEF P
  <2> QED
    BY <1>7, <1>8, UpTo
<1> QED
  BY <1>1, <1>5, <1>9

LEMMA YieldsBoth ==
  ASSUME NEW a \in Seq(TodoLine), NEW b \in Seq(TodoLine), NEW onto, NEW x, NEW y,
         Yields(onto, a, x), Yields(x, b, y)
  PROVE  Yields(onto, a \o b, y)
<1> DEFINE m == Len(a)
           n == Len(b)
<1>1. PICK d : Chain(d, onto, a) /\ d[m] = x
  BY DEF Yields
<1>2. PICK e : Chain(e, x, b) /\ e[n] = y
  BY DEF Yields
<1>3. /\ m \in Nat /\ n \in Nat /\ Len(a \o b) = m + n
      /\ \A i \in 1..(m + n) : (a \o b)[i] = IF i <= m THEN a[i] ELSE b[i - m]
  BY ConcatProperties
<1>4. /\ d[0] = onto /\ \A i \in 1..m : d[i] = ReplayLine(d[i - 1], a[i])
      /\ e[0] = x /\ \A i \in 1..n : e[i] = ReplayLine(e[i - 1], b[i])
  BY <1>1, <1>2 DEF Chain
<1> DEFINE both == [i \in 0..(m + n) |-> IF i <= m THEN d[i] ELSE e[i - m]]
<1> HIDE DEF m, n
<1>5. both[0] = onto /\ both[m + n] = y
  BY <1>1, <1>2, <1>3, <1>4
<1>6. ASSUME NEW i \in 1..(m + n) PROVE both[i] = ReplayLine(both[i - 1], (a \o b)[i])
  <2>1. i \in 0..(m + n) /\ i - 1 \in 0..(m + n)
    BY <1>3
  <2>2. CASE i <= m
    <3>1. i \in 1..m /\ i - 1 <= m
      BY <1>3, <2>2
    <3> QED
      BY <1>3, <1>4, <2>1, <2>2, <3>1
  <2>3. CASE i = m + 1
    <3>1. 1 \in 1..n /\ i - m = 1 /\ ~(i <= m) /\ i - 1 <= m /\ i - 1 = m
      BY <1>3, <2>3
    <3>2. both[i] = e[1] /\ both[i - 1] = d[m] /\ (a \o b)[i] = b[1]
      BY <1>3, <2>1, <3>1
    <3>3. e[1] = ReplayLine(e[1 - 1], b[1])
      BY <1>4, <3>1
    <3>4. 1 - 1 = 0
      OBVIOUS
    <3> QED
      BY <1>1, <1>4, <3>2, <3>3, <3>4
  <2>4. CASE i > m + 1
    <3>1. i - m \in 1..n /\ ~(i <= m) /\ ~(i - 1 <= m) /\ (i - m) - 1 = (i - 1) - m
      BY <1>3, <2>4
    <3>2. both[i] = e[i - m] /\ both[i - 1] = e[(i - m) - 1] /\ (a \o b)[i] = b[i - m]
      BY <1>3, <2>1, <3>1
    <3> QED
      BY <1>4, <3>1, <3>2
  <2> QED
    BY <1>3, <2>2, <2>3, <2>4
<1>7. both = [i \in 0..(m + n) |-> both[i]]
  OBVIOUS
<1> HIDE DEF both
<1>8. Chain(both, onto, a \o b)
  BY <1>3, <1>5, <1>6, <1>7 DEF Chain
<1> QED
  BY <1>3, <1>5, <1>8 DEF Yields

\* The commits at some positions.
At(q) == [j \in 1..Len(q) |-> log[q[j]]]

LEMMA AtTyped ==
  ASSUME Typed, NEW q \in Seq(1..Len(log))
  PROVE  At(q) \in Seq(OneCommit) /\ Len(At(q)) = Len(q) /\ Len(q) \in Nat
<1>1. Len(q) \in Nat /\ \A j \in 1..Len(q) : q[j] \in 1..Len(log)
  OBVIOUS
<1>2. \A i \in 1..Len(log) : log[i] \in OneCommit
  BY HistoryFacts DEF Typed
<1>3. \A j \in 1..Len(q) : log[q[j]] \in OneCommit
  BY <1>1, <1>2
<1> QED
  BY <1>1, <1>3 DEF At

Associates(S) == \A a, b \in Seq(S), x \in S : Append(a \o b, x) = a \o Append(b, x)

LEMMA AppendConcat == ASSUME NEW S PROVE Associates(S)
<1> SUFFICES ASSUME NEW a \in Seq(S), NEW b \in Seq(S), NEW x \in S
             PROVE  Append(a \o b, x) = a \o Append(b, x)
  BY DEF Associates
<1>1. Append(a \o b, x) \in Seq(S) /\ a \o Append(b, x) \in Seq(S)
  OBVIOUS
<1>2. Len(Append(a \o b, x)) = Len(a \o Append(b, x))
  OBVIOUS
<1>3. ASSUME NEW i \in 1..Len(Append(a \o b, x)) PROVE Append(a \o b, x)[i] = (a \o Append(b, x))[i]
  OBVIOUS
<1> QED
  BY <1>1, <1>2, <1>3, SeqEqual

\* A run of lines that pick adds the commits to the end.
LEMMA PicksYield ==
  ASSUME Typed, NEW h \in Seq(OneCommit), NEW q \in Seq(1..Len(log))
  PROVE  Yields(h, Picks(q), h \o At(q))
<1> DEFINE N == Len(q)
           part(n) == [j \in 1..n |-> log[q[j]]]
           d == [n \in 0..N |-> h \o part(n)]
<1>1. N \in Nat /\ Len(Picks(q)) = N /\ \A j \in 1..N : q[j] \in 1..Len(log)
  BY PicksFacts
<1>2. \A i \in 1..Len(log) : log[i] \in OneCommit
  BY HistoryFacts DEF Typed
<1>3. \A n \in 0..N : part(n) \in Seq(OneCommit)
  BY <1>1, <1>2
<1>4. part(0) = <<>>
  OBVIOUS
<1>5. ASSUME NEW n \in 1..N PROVE d[n] = ReplayLine(d[n - 1], Picks(q)[n])
  <2>1. n \in 0..N /\ n - 1 \in 0..N /\ q[n] \in 1..Len(log) /\ log[q[n]] \in OneCommit
    BY <1>1, <1>2
  <2>2. part(n) = Append(part(n - 1), log[q[n]])
    OBVIOUS
  <2>3. Picks(q)[n] = Line("pick", q[n])
    BY PicksFacts
  <2>4. Line("pick", q[n]).action = "pick" /\ Line("pick", q[n]).commit = log[q[n]]
    BY <2>1, LineFacts
  <2>5. d[n] = h \o part(n) /\ d[n - 1] = h \o part(n - 1)
    BY <2>1
  <2>6. part(n - 1) \in Seq(OneCommit)
    BY <1>3, <2>1
  <2> HIDE DEF part, d
  <2>7. Append(h \o part(n - 1), log[q[n]]) = h \o Append(part(n - 1), log[q[n]])
    <3>1. Associates(OneCommit)
      BY AppendConcat
    <3> QED
      BY <2>1, <2>6, <3>1 DEF Associates
  <2>8. ReplayLine(d[n - 1], Picks(q)[n]) = Append(d[n - 1], log[q[n]])
    BY <2>3, <2>4 DEF ReplayLine
  <2> QED
    BY <2>2, <2>5, <2>7, <2>8
<1>6. d[0] = h
  <2>1. d[0] = h \o part(0)
    BY <1>1
  <2> QED
    BY <1>4, <2>1, ConcatEmptySeq
<1>7. d[N] = h \o At(q)
  BY <1>1 DEF At
<1>8. d = [n \in 0..N |-> d[n]]
  OBVIOUS
<1> HIDE DEF d
<1>9. Chain(d, h, Picks(q))
  BY <1>1, <1>5, <1>6, <1>8 DEF Chain
<1> QED
  BY <1>1, <1>7, <1>9 DEF Yields

-----------------------------------------------------------------------------
Flattens(f, s) == f = [i \in 1..Len(s) |-> IF i = 1 THEN s[i] ELSE f[i - 1] \o s[i]]

Flat(f, s) ==
  /\ f \in [1..Len(s) -> OneCommit] /\ f[1] = s[1] /\ f[Len(s)] = FlattenSeq(s)
  /\ \A i \in 2..Len(s) : f[i] = f[i - 1] \o s[i]

\* FlattenSeq, of commits, is a function with one commit more at every number.
LEMMA FlattenIs ==
  ASSUME NEW s \in Seq(OneCommit), s # <<>>
  PROVE  \E f : Flat(f, s)
<1> DEFINE N == Len(s)
           V == OneCommit
           step == [p \in (1..N) \X V |-> IF p[1] = 1 THEN s[1] ELSE p[2] \o s[p[1]]]
           f == CHOOSE g : Flattens(g, s)
<1>1. N \in Nat \ {0} /\ \A i \in 1..N : s[i] \in V
  OBVIOUS
<1>2. \A v, w \in V : v \o w \in V
  BY ConcatProperties DEF OneCommit
<1>3. step \in [(1..N) \X V -> V]
  <2>1. \A p \in (1..N) \X V : p[1] \in 1..N /\ p[2] \in V /\ 1 \in 1..N
    BY <1>1
  <2>2. \A p \in (1..N) \X V : (IF p[1] = 1 THEN s[1] ELSE p[2] \o s[p[1]]) \in V
    BY <1>1, <1>2, <2>1
  <2> QED
    BY <2>2
<1>4. \A i \in 1..N, v \in V : step[<<i, v>>] = IF i = 1 THEN s[1] ELSE v \o s[i]
  OBVIOUS
<1> HIDE DEF step, V
<1>5. s[1] \in V
  BY <1>1
<1>6. PICK r : Recurs(r, N, V, s[1], step)
  BY <1>1, <1>3, <1>5, Recursion
<1>7. /\ r \in [0..N -> V]
      /\ \A i \in 1..N : r[i] = IF i = 1 THEN s[1] ELSE r[i - 1] \o s[i]
  <2>1. r \in [0..N -> V] /\ \A i \in 1..N : r[i] = step[<<i, r[i - 1]>>]
    BY <1>6 DEF Recurs
  <2>2. \A i \in 1..N : r[i - 1] \in V
    BY <2>1
  <2> QED
    BY <1>4, <2>1, <2>2
<1> DEFINE g == [i \in 1..N |-> r[i]]
<1>8. \A i \in 1..N : g[i] = IF i = 1 THEN s[i] ELSE g[i - 1] \o s[i]
  <2> TAKE i \in 1..N
  <2>1. CASE i = 1
    BY <1>7, <2>1
  <2>2. CASE i # 1
    <3>1. i - 1 \in 1..N
      BY <2>2
    <3> QED
      BY <1>7, <2>2, <3>1
  <2> QED
    BY <2>1, <2>2
<1>9. Flattens(g, s)
  BY <1>8 DEF Flattens
<1>10. Flattens(f, s)
  BY <1>9
<1>11. FlattenSeq(s) = f[N]
  BY <1>1 DEF FlattenSeq, Flattens
<1> HIDE DEF f
<1>12. /\ \A i \in 1..N : f[i] = IF i = 1 THEN s[i] ELSE f[i - 1] \o s[i]
       /\ f = [i \in 1..N |-> f[i]]
  BY <1>10 DEF Flattens
<1>13. \A i \in 0..N : i \in {k \in 0..N : k # 0 => f[k] \in V}
  <2> DEFINE P == {k \in 0..N : k # 0 => f[k] \in V}
  <2>1. 0 \in P
    BY <1>1
  <2>2. ASSUME NEW n \in 1..N, n - 1 \in P PROVE n \in P
    <3>1. CASE n = 1
      <4>1. f[n] = s[n] /\ s[n] \in V
        BY <1>1, <1>12, <3>1
      <4> QED
        BY <4>1
    <3>2. CASE n # 1
      <4>1. n - 1 \in 0..N /\ n - 1 # 0 /\ (n - 1 # 0 => f[n - 1] \in V)
        BY <2>2, <3>2
      <4>2. f[n - 1] \in V /\ s[n] \in V /\ f[n] = f[n - 1] \o s[n]
        BY <1>1, <1>12, <3>2, <4>1
      <4>3. f[n] \in V
        BY <1>2, <4>2
      <4> QED
        BY <4>3
    <3> QED
      BY <3>1, <3>2
  <2> HIDE DEF P
  <2>3. \A n \in 0..N : n \in P
    BY <1>1, <2>1, <2>2, UpTo
  <2> QED
    BY <2>3 DEF P
<1>14. \A i \in 1..N : f[i] \in V
  BY <1>13
<1>15. f \in [1..N -> V]
  <2>1. [i \in 1..N |-> f[i]] \in [1..N -> V]
    BY <1>14
  <2>2. f = [i \in 1..N |-> f[i]]
    BY <1>12
  <2> QED
    BY <2>1, <2>2
<1>16. f[1] = s[1] /\ \A i \in 2..N : f[i] = f[i - 1] \o s[i]
  <2>1. \A i \in 1..N : /\ i = 1 => f[i] = s[i]
                        /\ i # 1 => f[i] = f[i - 1] \o s[i]
    BY <1>12, Zenon
  <2>2. 1 \in 1..N /\ \A i \in 2..N : i \in 1..N /\ i # 1
    BY <1>1
  <2> QED
    BY <2>1, <2>2, Zenon
<1> QED
  BY <1>11, <1>15, <1>16 DEF V, Flat

\* A line that picks and lines that squash add one commit to the end.
LEMMA SquashedYields ==
  ASSUME Typed, NEW h \in Seq(OneCommit), NEW q \in Seq(1..Len(log)), q # <<>>
  PROVE  Yields(h, Squashed(q), Append(h, FlattenSeq(At(q)))) /\ FlattenSeq(At(q)) \in OneCommit
<1> DEFINE N == Len(q)
           s == At(q)
<1>1. /\ N \in Nat \ {0} /\ Len(Squashed(q)) = N /\ s \in Seq(OneCommit) /\ Len(s) = N /\ s # <<>>
      /\ \A j \in 1..N : q[j] \in 1..Len(log) /\ s[j] = log[q[j]] /\ s[j] \in OneCommit
  <2>1. N \in Nat \ {0} /\ Len(Squashed(q)) = N /\ s \in Seq(OneCommit) /\ Len(s) = N
    BY PicksFacts, AtTyped
  <2>2. \A j \in 1..N : q[j] \in 1..Len(log) /\ s[j] = log[q[j]]
    BY DEF At
  <2> HIDE DEF s
  <2> QED
    BY <2>1, <2>2
<1> HIDE DEF s
<1>2. PICK f : Flat(f, s)
  BY <1>1, FlattenIs
<1>3. /\ f \in [1..N -> OneCommit] /\ f[1] = s[1] /\ f[N] = FlattenSeq(s)
      /\ \A i \in 2..N : f[i] = f[i - 1] \o s[i]
  BY <1>1, <1>2 DEF Flat
<1> DEFINE d == [n \in 0..N |-> IF n = 0 THEN h ELSE Append(h, f[n])]
<1>4. \A n \in 1..N : /\ Squashed(q)[n].action = IF n = 1 THEN "pick" ELSE "squash"
                      /\ Squashed(q)[n].commit = s[n]
  <2> TAKE n \in 1..N
  <2>1. Squashed(q)[n] = Line(IF n = 1 THEN "pick" ELSE "squash", q[n])
    BY PicksFacts
  <2>2. \A action \in {"pick", "squash"} : Line(action, q[n]).action = action
                                           /\ Line(action, q[n]).commit = log[q[n]]
    BY <1>1, LineFacts
  <2> QED
    BY <1>1, <2>1, <2>2
<1>5. ASSUME NEW n \in 1..N PROVE d[n] = ReplayLine(d[n - 1], Squashed(q)[n])
  <2> DEFINE line == Squashed(q)[n]
  <2>1. n \in 0..N /\ n # 0 /\ n - 1 \in 0..N /\ d[n] = Append(h, f[n])
    OBVIOUS
  <2>2. line.action = (IF n = 1 THEN "pick" ELSE "squash") /\ line.commit = s[n]
    BY <1>4
  <2> HIDE DEF line
  <2>3. CASE n = 1
    <3>1. d[n - 1] = h
      BY <2>3
    <3>2. ReplayLine(h, line) = Append(h, s[1])
      BY <2>2, <2>3 DEF ReplayLine
    <3> QED
      BY <1>3, <2>1, <2>3, <3>1, <3>2 DEF line
  <2>4. CASE n # 1
    <3>1. n - 1 \in 1..N /\ n - 1 # 0 /\ n \in 2..N
      BY <2>4
    <3>2. d[n - 1] = Append(h, f[n - 1]) /\ f[n] = f[n - 1] \o s[n] /\ f[n - 1] \in OneCommit
      BY <1>3, <2>1, <3>1
    <3> DEFINE g == Append(h, f[n - 1])
    <3>3. g \in Seq(OneCommit) /\ g # <<>> /\ Len(g) = Len(h) + 1 /\ g[Len(h) + 1] = f[n - 1]
          /\ Len(h) \in Nat /\ \A i \in 1..Len(h) : g[i] = h[i]
      <4>1. \A x \in OneCommit :
              /\ Append(h, x) \in Seq(OneCommit) /\ Len(Append(h, x)) = Len(h) + 1
              /\ Append(h, x)[Len(h) + 1] = x /\ Len(h) \in Nat
              /\ \A i \in 1..Len(h) : Append(h, x)[i] = h[i]
        BY AppendProperties
      <4>2. \A x \in OneCommit : Append(h, x) # <<>>
        BY <4>1
      <4> QED
        BY <3>2, <4>1, <4>2
    <3>4. Front(g) = h /\ Last(g) = f[n - 1]
      <4> HIDE DEF g
      <4>1. /\ Front(g) \in Seq(OneCommit) /\ Len(Front(g)) = Len(g) - 1 /\ Last(g) = g[Len(g)]
            /\ \A i \in 1..(Len(g) - 1) : Front(g)[i] = g[i]
        BY <3>3, LastOf
      <4>2. Len(Front(g)) = Len(h) /\ \A i \in 1..Len(Front(g)) : Front(g)[i] = h[i]
        BY <3>3, <4>1
      <4>3. Front(g) = h
        BY <4>1, <4>2, SeqEqual
      <4> QED
        BY <3>3, <4>1, <4>3
    <3>5. ReplayLine(g, line) = Append(Front(g), Last(g) \o s[n])
      BY <2>2, <2>4 DEF ReplayLine
    <3> HIDE DEF g
    <3> QED
      BY <2>1, <3>2, <3>4, <3>5 DEF g, line
  <2> QED
    BY <2>3, <2>4
<1>6. d[0] = h /\ d[N] = Append(h, FlattenSeq(s)) /\ d = [n \in 0..N |-> d[n]]
  BY <1>1, <1>3
<1> HIDE DEF d
<1>7. Chain(d, h, Squashed(q))
  BY <1>1, <1>5, <1>6 DEF Chain
<1>8. FlattenSeq(s) \in OneCommit
  BY <1>1, <1>3
<1> QED
  BY <1>1, <1>6, <1>7, <1>8 DEF Yields, s

-----------------------------------------------------------------------------
(* Positions on the branch, in their order.                                *)
Positions == [i \in 1..Len(log) |-> i]

InOrder(I) == Kept(Positions, I)

InOrderFacts(I) ==
  /\ InOrder(I) \in Seq(1..Len(log)) /\ InOrder(I \cap 1..0) = <<>> /\ InOrder({}) = <<>>
  /\ Of(I) = At(InOrder(I)) /\ Of(I) \in Seq(OneCommit)
  /\ \A n \in 1..Len(log) :
       /\ n \in I => InOrder(I \cap 1..n) = Append(InOrder(I \cap 1..(n - 1)), n)
       /\ n \notin I => InOrder(I \cap 1..n) = InOrder(I \cap 1..(n - 1))

LEMMA PositionsFacts ==
  ASSUME Typed
  PROVE  /\ Positions \in Seq(1..Len(log)) /\ Len(Positions) = Len(log)
         /\ \A i \in 1..Len(log) : Positions[i] = i
         /\ Len(log) \in Nat \ {0} /\ log \in Seq(OneCommit) /\ DOMAIN log = 1..Len(log)
BY HistoryFacts DEF Typed, Positions

LEMMA InOrderIs == ASSUME Typed, NEW I PROVE InOrderFacts(I)
<1>1. /\ Positions \in Seq(1..Len(log)) /\ Len(Positions) = Len(log)
      /\ \A i \in 1..Len(log) : Positions[i] = i /\ log[i] = log[Positions[i]]
      /\ Len(log) \in Nat \ {0} /\ log \in Seq(OneCommit)
  BY PositionsFacts
<1>2. InOrder(I) \in Seq(1..Len(log)) /\ Of(I) \in Seq(OneCommit)
  BY <1>1, KeptIn DEF InOrder, Of
<1>3. InOrder(I \cap 1..0) = <<>> /\ InOrder({}) = <<>>
  <2>1. (I \cap 1..0) \cap 1..Len(Positions) = {} /\ {} \cap 1..Len(Positions) = {}
    OBVIOUS
  <2> QED
    BY <1>1, <2>1, KeptNone DEF InOrder
<1>4. Stepwise(Positions, I)
  BY <1>1, KeptSteps
<1>5. \A i \in 1..Len(Positions) : log[i] = log[Positions[i]]
  BY <1>1
<1>6. Kept(log, I) = [j \in 1..Len(Kept(Positions, I)) |-> log[Kept(Positions, I)[j]]]
  BY <1>1, <1>5, KeptMap
<1>7. Of(I) = At(InOrder(I))
  BY <1>6 DEF Of, At, InOrder
<1>8. \A n \in 1..Len(log) :
        /\ n \in I => InOrder(I \cap 1..n) = Append(InOrder(I \cap 1..(n - 1)), n)
        /\ n \notin I => InOrder(I \cap 1..n) = InOrder(I \cap 1..(n - 1))
  <2> TAKE n \in 1..Len(log)
  <2>1. n \in 1..Len(Positions) /\ Positions[n] = n
    BY <1>1
  <2> QED
    BY <1>4, <2>1 DEF Stepwise, InOrder
<1> QED
  BY <1>2, <1>3, <1>7, <1>8 DEF InOrderFacts

\* A line more, for one position more.
LEMMA LinesAppend ==
  ASSUME Typed, NEW q \in Seq(1..Len(log)), NEW i \in 1..Len(log)
  PROVE  /\ Picks(Append(q, i)) = Append(Picks(q), Line("pick", i))
         /\ q # <<>> => Squashed(Append(q, i)) = Append(Squashed(q), Line("squash", i))
<1> DEFINE r == Append(q, i)
           N == Len(q)
<1>1. /\ r \in Seq(1..Len(log)) /\ Len(r) = N + 1 /\ r[N + 1] = i /\ N \in Nat
      /\ \A j \in 1..N : r[j] = q[j]
  OBVIOUS
<1> HIDE DEF r
<1>2. /\ Picks(r) \in Seq(TodoLine) /\ Len(Picks(r)) = N + 1
      /\ Squashed(r) \in Seq(TodoLine) /\ Len(Squashed(r)) = N + 1
      /\ \A j \in 1..(N + 1) :
           /\ Picks(r)[j] = Line("pick", r[j])
           /\ Squashed(r)[j] = Line(IF j = 1 THEN "pick" ELSE "squash", r[j])
  BY <1>1, PicksFacts
<1>3. /\ Picks(q) \in Seq(TodoLine) /\ Len(Picks(q)) = N
      /\ Squashed(q) \in Seq(TodoLine) /\ Len(Squashed(q)) = N
      /\ \A j \in 1..N :
           /\ Picks(q)[j] = Line("pick", q[j])
           /\ Squashed(q)[j] = Line(IF j = 1 THEN "pick" ELSE "squash", q[j])
  BY PicksFacts
<1>4. Line("pick", i) \in TodoLine /\ Line("squash", i) \in TodoLine
  BY LineFacts
<1>5. ASSUME NEW a \in Seq(TodoLine), NEW b \in Seq(TodoLine), NEW line \in TodoLine,
             Len(a) = N + 1, Len(b) = N, a[N + 1] = line, \A j \in 1..N : a[j] = b[j]
      PROVE  a = Append(b, line)
  <2>1. /\ Append(b, line) \in Seq(TodoLine) /\ Len(Append(b, line)) = N + 1
        /\ Append(b, line)[N + 1] = line /\ \A j \in 1..N : Append(b, line)[j] = b[j]
    BY <1>5, AppendProperties
  <2>2. \A j \in 1..(N + 1) : a[j] = Append(b, line)[j]
    <3> TAKE j \in 1..(N + 1)
    <3>1. j \in 1..N \/ j = N + 1
      BY <1>1
    <3> QED
      BY <1>5, <2>1, <3>1
  <2> QED
    BY <1>5, <2>1, <2>2, SeqEqual
<1>6. Picks(r) = Append(Picks(q), Line("pick", i))
  <2>1. Picks(r)[N + 1] = Line("pick", i) /\ \A j \in 1..N : Picks(r)[j] = Picks(q)[j]
    BY <1>1, <1>2, <1>3
  <2> QED
    BY <1>2, <1>3, <1>4, <1>5, <2>1
<1>7. ASSUME q # <<>> PROVE Squashed(r) = Append(Squashed(q), Line("squash", i))
  <2>1. N # 0
    BY <1>7
  <2>2. Squashed(r)[N + 1] = Line("squash", i)
    <3>1. N + 1 \in 1..(N + 1) /\ N + 1 # 1
      BY <1>1, <2>1
    <3> QED
      BY <1>1, <1>2, <3>1
  <2>3. \A j \in 1..N : Squashed(r)[j] = Squashed(q)[j]
    <3> TAKE j \in 1..N
    <3>1. j \in 1..(N + 1)
      BY <1>1
    <3> QED
      BY <1>1, <1>2, <1>3, <3>1
  <2> QED
    BY <1>2, <1>3, <1>4, <1>5, <2>2, <2>3
<1> QED
  BY <1>6, <1>7 DEF r

-----------------------------------------------------------------------------
(* A traversal of an up-to-date branch, before the base commit is found:   *)
(* the others are written, those to move are waiting.                      *)
Seeking(w, moved, rest, i) ==
  w = Of4(Picks(InOrder(rest \cap 1..i)), InOrder(moved \cap 1..i), <<>>, FALSE)

\* after it: those to move follow the ones before the base commit at once
FoundBase(w, moved, rest, b, i) ==
  /\ w.found
  /\ w.todo = Picks(InOrder(rest \cap 1..(b - 1))) \o Picks(InOrder(moved \cap 1..i))
  /\ w.after = InOrder((rest \ 1..(b - 1)) \cap 1..i)

\* the one to squash onto is the first of its group
FoundOnto(w, moved, rest, b, i) ==
  /\ w.found
  /\ w.todo = Picks(InOrder(rest \cap 1..(b - 1))) \o Squashed(InOrder((moved \cup {b}) \cap 1..i))
  /\ w.after = InOrder((rest \ 1..b) \cap 1..i)
  /\ InOrder((moved \cup {b}) \cap 1..i) # <<>>

Found(kind, w, moved, rest, b, i) ==
  IF kind = "squash" THEN FoundOnto(w, moved, rest, b, i) ELSE FoundBase(w, moved, rest, b, i)

LEMMA SeekingStep ==
  ASSUME Typed, NEW kind, NEW moved, NEW at, NEW rest, NEW i \in 1..Len(log),
         i \in rest <=> i \notin moved, i \notin at \/ i \in moved,
         NEW w \in Walk, Seeking(w, moved, rest, i - 1)
  PROVE  Seeking(TheStep(kind, moved, at, w, i), moved, rest, i)
<1> DEFINE next == TheStep(kind, moved, at, w, i)
<1>1. /\ w.todo = Picks(InOrder(rest \cap 1..(i - 1))) /\ w.before = InOrder(moved \cap 1..(i - 1))
      /\ w.after = <<>> /\ w.found = FALSE
  BY DEF Seeking, Of4
<1>2. StepForm(kind, moved, at, w, i, next)
  BY StepIs
<1>3. InOrderFacts(moved) /\ InOrderFacts(rest)
  BY InOrderIs
<1>4. InOrderFacts(rest \cap 1..(i - 1))
  BY InOrderIs
<1> HIDE DEF next
<1>5. CASE i \in moved
  <2>1. next = Of4(w.todo, Append(w.before, i), w.after, FALSE)
    BY <1>1, <1>2, <1>5 DEF StepForm
  <2>2. InOrder(moved \cap 1..i) = Append(InOrder(moved \cap 1..(i - 1)), i)
    BY <1>3, <1>5 DEF InOrderFacts
  <2>3. InOrder(rest \cap 1..i) = InOrder(rest \cap 1..(i - 1))
    BY <1>3, <1>5 DEF InOrderFacts
  <2> QED
    BY <1>1, <2>1, <2>2, <2>3 DEF Seeking, next
<1>6. CASE i \notin moved
  <2>1. next = Of4(Append(w.todo, Line("pick", i)), w.before, w.after, FALSE)
    BY <1>1, <1>2, <1>6 DEF StepForm
  <2>2. InOrder(moved \cap 1..i) = InOrder(moved \cap 1..(i - 1))
    BY <1>3, <1>6 DEF InOrderFacts
  <2>3. InOrder(rest \cap 1..i) = Append(InOrder(rest \cap 1..(i - 1)), i)
    BY <1>3, <1>6 DEF InOrderFacts
  <2>4. InOrder(rest \cap 1..(i - 1)) \in Seq(1..Len(log))
    BY <1>4 DEF InOrderFacts
  <2>5. Picks(InOrder(rest \cap 1..i)) = Append(w.todo, Line("pick", i))
    BY <1>1, <2>3, <2>4, LinesAppend
  <2> QED
    BY <1>1, <2>1, <2>2, <2>5 DEF Seeking, next
<1> QED
  BY <1>5, <1>6

\* The step at the base commit.
LEMMA FindingStep ==
  ASSUME Typed, NEW kind, NEW moved, NEW at, NEW rest, NEW b \in 1..Len(log),
         rest \cap moved = {}, b \in rest, b \in at,
         \A k \in rest : k \in Nat,
         NEW w \in Walk, Seeking(w, moved, rest, b - 1)
  PROVE  Found(kind, TheStep(kind, moved, at, w, b), moved, rest, b, b)
<1> DEFINE next == TheStep(kind, moved, at, w, b)
<1>1. /\ w.todo = Picks(InOrder(rest \cap 1..(b - 1))) /\ w.before = InOrder(moved \cap 1..(b - 1))
      /\ w.after = <<>> /\ w.found = FALSE
  BY DEF Seeking, Of4
<1>2. StepForm(kind, moved, at, w, b, next)
  BY StepIs
<1> HIDE DEF next
<1>3. b \notin moved
  OBVIOUS
<1>4. CASE kind = "squash"
  <2>1. next = Of4(w.todo \o Squashed(Append(w.before, b)), Append(w.before, b), w.after, TRUE)
    BY <1>2, <1>3, <1>4 DEF StepForm
  <2> DEFINE group == moved \cup {b}
             later == rest \ 1..b
  <2>2. group \cap 1..(b - 1) = moved \cap 1..(b - 1) /\ b \in group /\ later \cap 1..b = later \cap 1..0
    OBVIOUS
  <2>3. InOrderFacts(group) /\ InOrderFacts(later)
    BY InOrderIs
  <2> HIDE DEF group, later
  <2>4. InOrder(group \cap 1..b) = Append(w.before, b)
    BY <1>1, <2>2, <2>3 DEF InOrderFacts
  <2>5. InOrder(later \cap 1..b) = <<>>
    BY <2>2, <2>3 DEF InOrderFacts
  <2>6. Append(w.before, b) # <<>>
    BY DEF Walk
  <2>7. FoundOnto(next, moved, rest, b, b)
    BY <1>1, <2>1, <2>4, <2>5, <2>6 DEF FoundOnto, Of4, group, later
  <2> QED
    BY <1>4, <2>7 DEF Found, next
<1>5. CASE kind # "squash"
  <2>1. next = Of4(w.todo \o Picks(w.before), w.before, Append(w.after, b), TRUE)
    BY <1>2, <1>3, <1>5 DEF StepForm
  <2> DEFINE later == rest \ 1..(b - 1)
  <2>2. b \in later /\ later \cap 1..(b - 1) = later \cap 1..0
    OBVIOUS
  <2>3. InOrderFacts(moved) /\ InOrderFacts(later)
    BY InOrderIs
  <2> HIDE DEF later
  <2>4. InOrder(moved \cap 1..b) = w.before
    BY <1>1, <1>3, <2>3 DEF InOrderFacts
  <2>5. InOrder(later \cap 1..b) = Append(<<>>, b)
    BY <2>2, <2>3 DEF InOrderFacts
  <2>6. FoundBase(next, moved, rest, b, b)
    BY <1>1, <2>1, <2>4, <2>5 DEF FoundBase, Of4, later
  <2> QED
    BY <1>5, <2>6 DEF Found, next
<1> QED
  BY <1>4, <1>5

LEMMA FoundStep ==
  ASSUME Typed, NEW kind, NEW moved, NEW at, NEW rest, NEW b \in 1..Len(log),
         NEW i \in (b + 1)..Len(log), i \in rest <=> i \notin moved, i \notin at,
         NEW w \in Walk, Found(kind, w, moved, rest, b, i - 1)
  PROVE  Found(kind, TheStep(kind, moved, at, w, i), moved, rest, b, i)
<1> DEFINE next == TheStep(kind, moved, at, w, i)
           early == rest \cap 1..(b - 1)
<1>1. StepForm(kind, moved, at, w, i, next)
  BY StepIs
<1>2. i \in 1..Len(log) /\ i # b /\ ~(i <= b) /\ Len(log) \in Nat
  BY HistoryFacts DEF Typed
<1> HIDE DEF next
<1>3. w.todo \in Seq(TodoLine) /\ w.found \in BOOLEAN
  BY DEF Walk
<1>4. Associates(TodoLine) /\ Line("pick", i) \in TodoLine /\ Line("squash", i) \in TodoLine
  BY <1>2, AppendConcat, LineFacts
<1>5. InOrderFacts(early)
  BY InOrderIs
<1>6. Picks(InOrder(early)) \in Seq(TodoLine)
  BY <1>5, PicksFacts DEF InOrderFacts
<1>7. CASE kind = "squash"
  <2> DEFINE group == moved \cup {b}
             later == rest \ 1..b
             had == InOrder(group \cap 1..(i - 1))
  <2>1. InOrderFacts(group) /\ InOrderFacts(later) /\ InOrderFacts(group \cap 1..(i - 1))
    BY InOrderIs
  <2>2. (i \in group <=> i \in moved) /\ (i \in later <=> i \notin moved)
    BY <1>2
  <2>3. /\ w.found /\ w.todo = Picks(InOrder(early)) \o Squashed(had)
        /\ w.after = InOrder(later \cap 1..(i - 1)) /\ had # <<>>
    BY <1>7 DEF Found, FoundOnto
  <2>4. had \in Seq(1..Len(log))
    BY <2>1 DEF InOrderFacts
  <2> HIDE DEF group, later
  <2>5. /\ i \in moved => /\ InOrder(group \cap 1..i) = Append(had, i)
                          /\ InOrder(later \cap 1..i) = w.after
        /\ i \notin moved => /\ InOrder(group \cap 1..i) = had
                             /\ InOrder(later \cap 1..i) = Append(w.after, i)
    BY <1>2, <2>1, <2>2, <2>3 DEF InOrderFacts
  <2> HIDE DEF had, early
  <2>6. CASE i \in moved
    <3>1. next = Of4(Append(w.todo, Line("squash", i)), w.before, w.after, TRUE)
      BY <1>1, <1>7, <2>3, <2>6 DEF StepForm
    <3>2. Squashed(had) \in Seq(TodoLine) /\ Squashed(Append(had, i)) = Append(Squashed(had), Line("squash", i))
      BY <1>2, <2>3, <2>4, PicksFacts, LinesAppend
    <3>3. Append(Picks(InOrder(early)) \o Squashed(had), Line("squash", i))
            = Picks(InOrder(early)) \o Append(Squashed(had), Line("squash", i))
      BY <1>4, <1>6, <3>2 DEF Associates
    <3>4. Append(had, i) # <<>>
      BY <2>4
    <3>5. FoundOnto(next, moved, rest, b, i)
      BY <2>3, <2>5, <2>6, <3>1, <3>2, <3>3, <3>4 DEF FoundOnto, Of4, group, later, early
    <3> QED
      BY <1>7, <3>5 DEF Found, next
  <2>7. CASE i \notin moved
    <3>1. next = Of4(w.todo, w.before, Append(w.after, i), TRUE)
      BY <1>1, <2>3, <2>7 DEF StepForm
    <3>2. FoundOnto(next, moved, rest, b, i)
      BY <2>3, <2>5, <2>7, <3>1 DEF FoundOnto, Of4, group, later, early
    <3> QED
      BY <1>7, <3>2 DEF Found, next
  <2> QED
    BY <2>6, <2>7
<1>8. CASE kind # "squash"
  <2> DEFINE later == rest \ 1..(b - 1)
             had == InOrder(moved \cap 1..(i - 1))
  <2>1. InOrderFacts(moved) /\ InOrderFacts(later) /\ InOrderFacts(moved \cap 1..(i - 1))
    BY InOrderIs
  <2>2. i \in later <=> i \notin moved
    BY <1>2
  <2>3. /\ w.found /\ w.todo = Picks(InOrder(early)) \o Picks(had)
        /\ w.after = InOrder(later \cap 1..(i - 1))
    BY <1>8 DEF Found, FoundBase
  <2>4. had \in Seq(1..Len(log))
    BY <2>1 DEF InOrderFacts
  <2> HIDE DEF later
  <2>5. /\ i \in moved => /\ InOrder(moved \cap 1..i) = Append(had, i)
                          /\ InOrder(later \cap 1..i) = w.after
        /\ i \notin moved => /\ InOrder(moved \cap 1..i) = had
                             /\ InOrder(later \cap 1..i) = Append(w.after, i)
    BY <1>2, <2>1, <2>2, <2>3 DEF InOrderFacts
  <2> HIDE DEF had, early
  <2>6. CASE i \in moved
    <3>1. next = Of4(Append(w.todo, Line("pick", i)), w.before, w.after, TRUE)
      BY <1>1, <1>8, <2>3, <2>6 DEF StepForm
    <3>2. Picks(had) \in Seq(TodoLine) /\ Picks(Append(had, i)) = Append(Picks(had), Line("pick", i))
      BY <1>2, <2>4, PicksFacts, LinesAppend
    <3>3. Append(Picks(InOrder(early)) \o Picks(had), Line("pick", i))
            = Picks(InOrder(early)) \o Append(Picks(had), Line("pick", i))
      BY <1>4, <1>6, <3>2 DEF Associates
    <3>4. FoundBase(next, moved, rest, b, i)
      BY <2>3, <2>5, <2>6, <3>1, <3>2, <3>3 DEF FoundBase, Of4, later, early
    <3> QED
      BY <1>8, <3>4 DEF Found, next
  <2>7. CASE i \notin moved
    <3>1. next = Of4(w.todo, w.before, Append(w.after, i), TRUE)
      BY <1>1, <2>3, <2>7 DEF StepForm
    <3>2. FoundBase(next, moved, rest, b, i)
      BY <2>3, <2>5, <2>7, <3>1 DEF FoundBase, Of4, later, early
    <3> QED
      BY <1>8, <3>2 DEF Found, next
  <2> QED
    BY <2>6, <2>7
<1> QED
  BY <1>7, <1>8

(* What is asked of a branch like the list: moved and base come after the  *)
(* last retained commit, rest is what else does.                           *)
Asked(moved, at, rest, K) ==
  /\ K \in 0..Len(log) /\ moved \subseteq (K + 1)..Len(log) /\ at \subseteq (K + 1)..Len(log)
  /\ rest = ((K + 1)..Len(log)) \ moved

LEMMA TraversalSeeks ==
  ASSUME Typed, NEW kind, NEW moved, NEW at, NEW rest, NEW retained, NEW t,
         Travels(t, kind, moved, at, retained), Asked(moved, at, rest, Reachable(retained)),
         NEW m \in Reachable(retained)..Len(log),
         \A k \in 1..m : k \notin at \/ k \in moved
  PROVE  Seeking(t[m], moved, rest, m)
<1> DEFINE K == Reachable(retained)
           N == Len(log)
           P == {n \in 0..N : n \in K..m => Seeking(t[n], moved, rest, n)}
<1>1. N \in Nat /\ K \in 0..N /\ m \in K..N
  BY HistoryFacts DEF Typed, Asked
<1>2. Seeking(t[K], moved, rest, K)
  <2>1. t[K] = Traversal
    BY <1>1 DEF Travels
  <2>2. rest \cap 1..K = rest \cap 1..0 /\ moved \cap 1..K = moved \cap 1..0
    BY <1>1 DEF Asked
  <2>3. InOrder(rest \cap 1..0) = <<>> /\ InOrder(moved \cap 1..0) = <<>>
    <3>1. InOrderFacts(rest) /\ InOrderFacts(moved)
      BY InOrderIs
    <3> QED
      BY <3>1 DEF InOrderFacts
  <2>4. Picks(<<>>) = <<>>
    BY DEF Picks
  <2> QED
    BY <2>1, <2>2, <2>3, <2>4 DEF Seeking, Traversal, Of4
<1>3. ASSUME NEW n \in 1..N, n - 1 \in P, n \in K..m PROVE Seeking(t[n], moved, rest, n)
  <2>1. CASE n = K
    BY <1>2, <2>1
  <2>2. CASE n # K
    <3>1. n \in (K + 1)..N /\ n - 1 \in K..m /\ n - 1 \in 0..N /\ n \in 1..m
      BY <1>1, <1>3, <2>2
    <3>2. Seeking(t[n - 1], moved, rest, n - 1) /\ t[n - 1] \in Walk
      BY <1>3, <3>1 DEF Travels
    <3>3. t[n] = TheStep(kind, moved, at, t[n - 1], n)
      BY <3>1 DEF Travels
    <3>4. (n \in rest <=> n \notin moved) /\ (n \notin at \/ n \in moved)
      BY <3>1 DEF Asked
    <3> HIDE DEF K
    <3>5. Seeking(TheStep(kind, moved, at, t[n - 1], n), moved, rest, n)
      BY <3>2, <3>4, SeekingStep
    <3> QED
      BY <3>3, <3>5
  <2> QED
    BY <2>1, <2>2
<1>4. 0 \in P
  <2>1. 0 \in K..m => K = 0
    BY <1>1
  <2> QED
    BY <1>1, <1>2, <2>1
<1>5. \A n \in 1..N : n - 1 \in P => n \in P
  BY <1>3
<1> HIDE DEF P
<1>6. \A n \in 0..N : n \in P
  BY <1>1, <1>4, <1>5, UpTo
<1>7. m \in 0..N /\ m \in K..m
  BY <1>1
<1> QED
  BY <1>6, <1>7 DEF P

LEMMA TraversalFinds ==
  ASSUME Typed, NEW kind, NEW moved, NEW b \in 1..Len(log), NEW rest, NEW retained, NEW t,
         Travels(t, kind, moved, {b}, retained), Asked(moved, {b}, rest, Reachable(retained)),
         b \notin moved
  PROVE  Found(kind, t[Len(log)], moved, rest, b, Len(log))
<1> DEFINE K == Reachable(retained)
           N == Len(log)
           P == {n \in 0..N : n >= b => Found(kind, t[n], moved, rest, b, n)}
<1>1. N \in Nat /\ K \in 0..N /\ b \in (K + 1)..N /\ b \in rest /\ b \in 1..N
  BY HistoryFacts DEF Typed, Asked
<1>2. rest \cap moved = {} /\ rest \subseteq (K + 1)..N /\ \A n \in (K + 1)..N : n \in rest <=> n \notin moved
  BY DEF Asked
<1>3. Found(kind, t[b], moved, rest, b, b)
  <2>1. b - 1 \in K..N /\ b - 1 \in 0..N /\ \A k \in 1..(b - 1) : k \notin {b} \/ k \in moved
    BY <1>1
  <2>2. Seeking(t[b - 1], moved, rest, b - 1)
    BY <2>1, TraversalSeeks
  <2>3. t[b - 1] \in Walk /\ t[b] = TheStep(kind, moved, {b}, t[b - 1], b)
    BY <1>1, <2>1 DEF Travels
  <2>4. \A k \in rest : k \in Nat
    BY <1>1, <1>2
  <2> HIDE DEF K, N
  <2>5. Found(kind, TheStep(kind, moved, {b}, t[b - 1], b), moved, rest, b, b)
    BY <1>1, <1>2, <2>2, <2>3, <2>4, FindingStep
  <2> QED
    BY <2>3, <2>5
<1>4. ASSUME NEW n \in 1..N, n - 1 \in P, n >= b PROVE Found(kind, t[n], moved, rest, b, n)
  <2>1. CASE n = b
    BY <1>3, <2>1
  <2>2. CASE n # b
    <3>1. n \in (b + 1)..N /\ n \in (K + 1)..N /\ n - 1 \in 0..N /\ n - 1 >= b /\ n \notin {b}
      BY <1>1, <1>4, <2>2
    <3>2. Found(kind, t[n - 1], moved, rest, b, n - 1) /\ t[n - 1] \in Walk
      BY <1>4, <3>1 DEF Travels
    <3>3. t[n] = TheStep(kind, moved, {b}, t[n - 1], n) /\ (n \in rest <=> n \notin moved)
      BY <1>2, <3>1 DEF Travels
    <3>4. Found(kind, TheStep(kind, moved, {b}, t[n - 1], n), moved, rest, b, n)
      BY <3>1, <3>2, <3>3, FoundStep
    <3> QED
      BY <3>3, <3>4
  <2> QED
    BY <2>1, <2>2
<1>5. 0 \in P /\ \A n \in 1..N : n - 1 \in P => n \in P
  BY <1>1, <1>4
<1> HIDE DEF P
<1>6. \A n \in 0..N : n \in P
  BY <1>1, <1>5, UpTo
<1>7. N \in 0..N /\ N >= b
  BY <1>1
<1> QED
  BY <1>6, <1>7 DEF P

-----------------------------------------------------------------------------
LEMMA OfYields ==
  ASSUME Typed, NEW h \in Seq(OneCommit), NEW I
  PROVE  Yields(h, Picks(InOrder(I)), h \o Of(I))
<1>1. InOrder(I) \in Seq(1..Len(log)) /\ Of(I) = At(InOrder(I))
  BY InOrderIs DEF InOrderFacts
<1> QED
  BY <1>1, PicksYield

\* What is asked of a list that is up to date.
Current(moved, base, K) ==
  /\ K \in 0..(Len(log) - 1) /\ K \in 0..Len(listed) /\ Reachable(K) = K /\ K < Len(log)
  /\ OnBranch(moved) = moved
  /\ base = Null => OnBranch({base}) = {}
  /\ base # Null => OnBranch({base}) = {base} /\ base \in 1..Len(log) /\ K < base
  /\ Asked(moved, OnBranch({base}), ((K + 1)..Len(log)) \ moved, Reachable(K))
  /\ SubSeq(listed, 1, K) = Of(1..K)

LEMMA UpToDate ==
  ASSUME Typed, listed = log, NEW moved \in Moves, NEW base \in {Null} \cup DOMAIN listed,
         NEW K, K = Retained(moved \cup ({base} \ {Null}))
  PROVE  Current(moved, base, K)
<1> DEFINE some == moved \cup ({base} \ {Null})
<1>1. /\ Len(log) \in Nat \ {0} /\ DOMAIN log = 1..Len(log) /\ log \in Seq(OneCommit)
      /\ moved # {} /\ moved \subseteq 1..Len(log)
  BY HistoryFacts DEF Typed, Moves
<1>2. Common = Len(log)
  BY CommonFacts
<1>3. some \subseteq 1..Len(listed) /\ some # {}
  BY <1>1
<1> HIDE DEF some
<1>4. Retained(some) \in 0..(Len(listed) - 1) /\ \A i \in some : Retained(some) < i
  BY <1>3, RetainedFacts
<1>5. K \in 0..(Len(log) - 1) /\ \A i \in some : K < i
  BY <1>4 DEF some
<1>6. K \in 0..Len(listed) /\ K < Len(log)
  BY <1>1, <1>5
<1>7. Reachable(K) = K
  BY <1>6, ReachableFacts
<1>8. OnBranch(moved) = moved /\ (base = Null => OnBranch({base}) = {})
  <2>1. OnBranch(moved) = moved
    BY <1>1, <1>2, Zenon DEF OnBranch
  <2>2. 0 \notin 1..Len(log)
    BY <1>1
  <2>3. {0} \cap 1..Len(log) = {}
    BY <2>2, Zenon
  <2> QED
    BY <1>2, <2>1, <2>3 DEF OnBranch, Null
<1>9. base # Null => OnBranch({base}) = {base} /\ base \in 1..Len(log) /\ base \in some
  BY <1>1, <1>2 DEF OnBranch, some
<1>10. moved \subseteq some
  BY DEF some
<1>11. K \in Nat
  BY <1>5
<1>12. OnBranch({base}) \subseteq (K + 1)..Len(log)
  <2>1. CASE base = Null
    BY <1>8, <2>1
  <2>2. CASE base # Null
    <3>1. K < base /\ K \in Nat /\ base \in 1..Len(log)
      BY <1>5, <1>9, <1>11, <2>2, Zenon
    <3>2. base \in (K + 1)..Len(log)
      BY <1>1, <3>1
    <3> QED
      BY <1>9, <2>2, <3>2
  <2> QED
    BY <2>1, <2>2
<1>13. moved \subseteq (K + 1)..Len(log)
  <2> SUFFICES ASSUME NEW i \in moved PROVE i \in (K + 1)..Len(log)
    OBVIOUS
  <2>1. K < i /\ K \in Nat /\ i \in 1..Len(log)
    BY <1>1, <1>5, <1>10, <1>11, Zenon
  <2> QED
    BY <1>1, <2>1
<1>14. SubSeq(listed, 1, K) = Of(1..K)
  <2>1. 0 \in 0..Len(log) /\ K \in 0..Len(log) /\ 0 + 1 = 1
    BY <1>1, <1>5
  <2>2. Kept(log, (0 + 1)..K) = SubSeq(log, 0 + 1, K)
    BY <1>1, <2>1, KeptRange
  <2> QED
    BY <2>1, <2>2 DEF Of
<1>15. Asked(moved, OnBranch({base}), ((K + 1)..Len(log)) \ moved, Reachable(K))
  <2>1. K \in 0..Len(log)
    BY <1>1, <1>5
  <2>2. Asked(moved, OnBranch({base}), ((K + 1)..Len(log)) \ moved, K)
    BY <1>12, <1>13, <2>1, Zenon DEF Asked
  <2> QED
    BY <1>7, <2>2
<1>16. base # Null => K < base
  BY <1>5, <1>9
<1> QED
  BY <1>5, <1>6, <1>7, <1>8, <1>9, <1>14, <1>15, <1>16 DEF Current

\* The commits before the last retained one and the others up to the base commit.
LEMMA OthersBefore ==
  ASSUME Typed, NEW moved, NEW K \in 0..Len(log), moved \subseteq (K + 1)..Len(log),
         NEW b \in (K + 1)..(Len(log) + 1), NEW rest, rest = ((K + 1)..Len(log)) \ moved
  PROVE  Of(1..K) \o Of(rest \cap 1..(b - 1)) = Of({i \in DOMAIN log : i < b} \ moved)
<1> DEFINE I == 1..K
           J == rest \cap 1..(b - 1)
<1>1. log \in Seq(OneCommit) /\ Len(log) \in Nat /\ DOMAIN log = 1..Len(log)
  BY PositionsFacts
<1>2. \A i \in I \cap 1..Len(log), j \in J \cap 1..Len(log) : i < j
  BY <1>1
<1>3. I \cup J = {i \in DOMAIN log : i < b} \ moved
  <2>1. ASSUME NEW i PROVE i \in I \cup J <=> i \in {k \in 1..Len(log) : k < b} \ moved
    <3>1. i \in I => i \in 1..Len(log) /\ i < b /\ i \notin moved
      BY <1>1
    <3>2. i \in J => i \in 1..Len(log) /\ i < b /\ i \notin moved
      BY <1>1
    <3>3. i \in 1..Len(log) /\ i < b /\ i \notin moved => i \in I \/ i \in J
      BY <1>1
    <3> QED
      BY <3>1, <3>2, <3>3
  <2> QED
    BY <1>1, <2>1
<1> HIDE DEF I, J
<1>4. Kept(log, I \cup J) = Kept(log, I) \o Kept(log, J)
  BY <1>1, <1>2, KeptConcat
<1> QED
  BY <1>3, <1>4 DEF Of, I, J

LEMMA ReorderMoves ==
  ASSUME Typed, listed = log, NEW moved \in Moves, NEW base \in {Null} \cup DOMAIN listed,
         Reorder(moved, base)
  PROVE  log' = IF base \in moved THEN log
                ELSE Of(Before(base) \ moved) \o Of(moved)
                     \o Of((DOMAIN log \ Before(base)) \ moved)
<1> DEFINE K == Retained(moved \cup ({base} \ {Null}))
           at == OnBranch({base})
           rest == ((K + 1)..Len(log)) \ moved
           N == Len(log)
           w == Traversed("reorder", OnBranch(moved), at, K)
           todo == w.todo \o Picks(w.after) \o (IF base = Null THEN Picks(w.before) ELSE <<>>)
<1>1. /\ K \in 0..(N - 1) /\ K \in 0..Len(listed) /\ Reachable(K) = K /\ K < N
      /\ OnBranch(moved) = moved
      /\ base = Null => at = {}
      /\ base # Null => at = {base} /\ base \in 1..N /\ K < base
      /\ Asked(moved, at, rest, Reachable(K))
      /\ SubSeq(listed, 1, K) = Of(1..K)
  <2> DEFINE k == K
  <2>1. k = Retained(moved \cup ({base} \ {Null}))
    OBVIOUS
  <2> HIDE DEF k
  <2>2. Current(moved, base, k)
    BY <2>1, UpToDate
  <2> QED
    BY <2>2 DEF Current, k
<1>2. N \in Nat \ {0} /\ DOMAIN log = 1..N /\ moved \subseteq 1..N
  BY PositionsFacts DEF Moves
<1>3. log' = IF Reachable(K) < N /\ HasOnto(w, base) THEN Replay(SubSeq(listed, 1, K), todo) ELSE log
  BY DEF Reorder, RebaseInteractive
<1>4. Reachable(K) \in 0..N
  BY <1>1, <1>2
<1> HIDE DEF K
<1>5. PICK t : Travels(t, "reorder", moved, at, K)
  BY <1>4, TraversedIs
<1>6. w = t[N] /\ t[N] \in Walk
  <2>1. w = t[N]
    BY <1>1, <1>5, Zenon DEF Travels
  <2>2. N \in 0..N
    BY <1>2
  <2>3. t[N] \in Walk
    BY <1>5, <2>2 DEF Travels
  <2> QED
    BY <2>1, <2>3
<1>7. moved \subseteq (K + 1)..N /\ N \in Reachable(K)..N /\ K \in 0..N
  BY <1>1, <1>2 DEF Asked
<1> HIDE DEF w, todo, at
<1>8. /\ Of(1..K) \in Seq(OneCommit) /\ Of(moved) \in Seq(OneCommit)
      /\ \A I : Of(I) \in Seq(OneCommit) /\ InOrder(I) \in Seq(1..N)
  BY InOrderIs DEF InOrderFacts
<1>9. CASE base \in moved
  <2>1. base # Null
    BY <1>2, <1>9 DEF Null
  <2>2. \A k \in 1..N : k \notin at \/ k \in moved
    BY <1>1, <1>9, <2>1
  <2>3. Seeking(t[N], moved, rest, N)
    BY <1>1, <1>5, <1>7, <2>2, TraversalSeeks
  <2>4. ~ w.found
    BY <1>6, <2>3 DEF Seeking, Of4
  <2> QED
    BY <1>3, <1>9, <2>1, <2>4 DEF HasOnto
<1>10. CASE base = Null
  <2>1. \A k \in 1..N : k \notin at \/ k \in moved
    BY <1>1, <1>10
  <2>2. Seeking(t[N], moved, rest, N)
    BY <1>1, <1>5, <1>7, <2>1, TraversalSeeks
  <2>3. /\ w.todo = Picks(InOrder(rest \cap 1..N)) /\ w.after = <<>>
        /\ w.before = InOrder(moved \cap 1..N)
    BY <1>6, <2>2 DEF Seeking, Of4
  <2>4. moved \cap 1..N = moved /\ Picks(<<>>) = <<>>
    <3>1. Picks(<<>>) = <<>>
      BY DEF Picks
    <3> QED
      BY <1>2, <3>1, Zenon
  <2> DEFINE J == rest \cap 1..N
             h == Of(1..K) \o Of(J)
  <2>5. /\ Picks(InOrder(J)) \in Seq(TodoLine) /\ Picks(InOrder(moved)) \in Seq(TodoLine)
    BY <1>8, PicksFacts
  <2>6. todo = Picks(InOrder(J)) \o Picks(InOrder(moved))
    <3>1. todo = Picks(InOrder(J)) \o <<>> \o Picks(InOrder(moved))
      BY <1>10, <2>3, <2>4 DEF todo
    <3> HIDE DEF J
    <3> QED
      BY <2>5, <3>1, ConcatEmptySeq
  <2>7. h \in Seq(OneCommit)
    BY <1>8, ConcatProperties
  <2>8. Yields(Of(1..K), Picks(InOrder(J)), h) /\ Yields(h, Picks(InOrder(moved)), h \o Of(moved))
    BY <1>8, <2>7, OfYields
  <2> HIDE DEF h, J
  <2>9. Yields(Of(1..K), todo, h \o Of(moved)) /\ Len(todo) \in Nat
    <3>1. todo \in Seq(TodoLine)
      BY <2>5, <2>6, ConcatProperties
    <3> QED
      BY <2>5, <2>6, <2>8, <3>1, YieldsBoth
  <2>10. Replay(Of(1..K), todo) = h \o Of(moved)
    BY <2>9, ReplayYields
  <2>11. h = Of(Before(base) \ moved)
    <3>1. N + 1 \in (K + 1)..(N + 1) /\ (N + 1) - 1 = N
      BY <1>1, <1>2
    <3>2. Of(1..K) \o Of(rest \cap 1..((N + 1) - 1)) = Of({i \in DOMAIN log : i < N + 1} \ moved)
      BY <1>7, <3>1, OthersBefore, ZenonT(60)
    <3>3. {i \in DOMAIN log : i < N + 1} = Before(base)
      BY <1>2, <1>10 DEF Before
    <3> QED
      BY <3>1, <3>2, <3>3 DEF h, J
  <2>12. Of((DOMAIN log \ Before(base)) \ moved) = <<>>
    <3>1. (DOMAIN log \ Before(base)) \ moved = {}
      BY <1>10 DEF Before
    <3>2. InOrderFacts({}) /\ At(<<>>) = <<>>
      BY InOrderIs DEF At
    <3> QED
      BY <3>1, <3>2 DEF InOrderFacts
  <2>13. h \o Of(moved) \in Seq(OneCommit) /\ (h \o Of(moved)) \o <<>> = h \o Of(moved)
    <3>1. h \o Of(moved) \in Seq(OneCommit)
      BY <1>8, <2>7, ConcatProperties
    <3> QED
      BY <3>1, ConcatEmptySeq
  <2>14. log' = h \o Of(moved)
    BY <1>1, <1>3, <1>10, <2>10 DEF HasOnto
  <2>15. base \notin moved
    BY <1>2, <1>10 DEF Null
  <2> QED
    BY <2>11, <2>12, <2>13, <2>14, <2>15
<1>11. CASE base # Null /\ base \notin moved
  <2>1. at = {base} /\ base \in 1..N /\ K < base
    BY <1>1, <1>11
  <2>2. Found("reorder", t[N], moved, rest, base, N)
    BY <1>1, <1>5, <1>11, <2>1, TraversalFinds
  <2> DEFINE J == rest \cap 1..(base - 1)
             later == rest \ 1..(base - 1)
             h == Of(1..K) \o Of(J)
  <2>3. /\ w.found /\ w.todo = Picks(InOrder(J)) \o Picks(InOrder(moved \cap 1..N))
        /\ w.after = InOrder(later \cap 1..N)
    BY <1>6, <2>2 DEF Found, FoundBase
  <2>4. moved \cap 1..N = moved /\ later \cap 1..N = later
    <3>1. (K + 1)..N \subseteq 1..N
      BY <1>7
    <3> QED
      BY <1>2, <3>1, Zenon
  <2>5. /\ Picks(InOrder(J)) \in Seq(TodoLine) /\ Picks(InOrder(moved)) \in Seq(TodoLine)
        /\ Picks(InOrder(later)) \in Seq(TodoLine)
    BY <1>8, PicksFacts
  <2>6. h \in Seq(OneCommit) /\ h \o Of(moved) \in Seq(OneCommit)
    <3>1. h \in Seq(OneCommit)
      BY <1>8, ConcatProperties
    <3> QED
      BY <1>8, <3>1, ConcatProperties
  <2>7. /\ Yields(Of(1..K), Picks(InOrder(J)), h) /\ Yields(h, Picks(InOrder(moved)), h \o Of(moved))
        /\ Yields(h \o Of(moved), Picks(InOrder(later)), (h \o Of(moved)) \o Of(later))
    BY <1>8, <2>6, OfYields
  <2>8. later = (DOMAIN log \ Before(base)) \ moved
    BY <1>1, <1>2, <1>11, <2>1 DEF Before
  <2>9. h = Of(Before(base) \ moved)
    <3>1. base \in (K + 1)..(N + 1)
      BY <1>1, <1>2, <2>1
    <3>2. Of(1..K) \o Of(rest \cap 1..(base - 1)) = Of({i \in DOMAIN log : i < base} \ moved)
      BY <1>7, <3>1, OthersBefore
    <3>3. {i \in DOMAIN log : i < base} = Before(base)
      BY <1>11 DEF Before
    <3> QED
      BY <3>2, <3>3
  <2> HIDE DEF h, J, later
  <2> DEFINE two == Picks(InOrder(J)) \o Picks(InOrder(moved))
  <2>10. two \in Seq(TodoLine) /\ two \o Picks(InOrder(later)) \in Seq(TodoLine)
    <3>1. two \in Seq(TodoLine)
      BY <2>5, ConcatProperties
    <3> QED
      BY <2>5, <3>1, ConcatProperties
  <2>11. Yields(Of(1..K), two, h \o Of(moved))
    BY <2>5, <2>7, YieldsBoth
  <2>12. todo = two \o Picks(InOrder(later))
    <3>1. todo = two \o Picks(InOrder(later)) \o <<>>
      BY <1>11, <2>3, <2>4 DEF todo
    <3> HIDE DEF two
    <3> QED
      BY <2>10, <3>1, ConcatEmptySeq
  <2> HIDE DEF two
  <2>13. Yields(Of(1..K), todo, (h \o Of(moved)) \o Of(later)) /\ Len(todo) \in Nat
    BY <2>5, <2>7, <2>10, <2>11, <2>12, YieldsBoth
  <2>14. Replay(Of(1..K), todo) = (h \o Of(moved)) \o Of(later)
    BY <2>13, ReplayYields
  <2>15. log' = (h \o Of(moved)) \o Of(later)
    BY <1>1, <1>3, <2>3, <2>14 DEF HasOnto
  <2> QED
    BY <1>11, <2>8, <2>9, <2>15
<1> QED
  BY <1>9, <1>10, <1>11

LEMMA SquashMoves ==
  ASSUME Typed, listed = log, NEW moved \in Moves, NEW onto \in {Null} \cup DOMAIN listed,
         onto # Null, Squash(moved, onto)
  PROVE  log' = Of(Before(onto) \ moved) \o <<FlattenSeq(Of(moved \cup {onto}))>>
                \o Of((DOMAIN log \ Before(onto)) \ (moved \cup {onto}))
<1> DEFINE K == Retained(moved \cup ({onto} \ {Null}))
           at == OnBranch({onto})
           rest == ((K + 1)..Len(log)) \ moved
           N == Len(log)
           w == Traversed("squash", OnBranch(moved), at, K)
           todo == w.todo \o Picks(w.after) \o (IF onto = Null THEN Picks(w.before) ELSE <<>>)
<1>1. /\ K \in 0..(N - 1) /\ K \in 0..Len(listed) /\ Reachable(K) = K /\ K < N
      /\ OnBranch(moved) = moved
      /\ onto # Null => at = {onto} /\ onto \in 1..N /\ K < onto
      /\ Asked(moved, at, rest, Reachable(K))
      /\ SubSeq(listed, 1, K) = Of(1..K)
  <2> DEFINE k == K
  <2>1. k = Retained(moved \cup ({onto} \ {Null}))
    OBVIOUS
  <2> HIDE DEF k
  <2>2. Current(moved, onto, k)
    BY <2>1, UpToDate
  <2> QED
    BY <2>2 DEF Current, k
<1>2. N \in Nat \ {0} /\ DOMAIN log = 1..N /\ moved \subseteq 1..N
  BY PositionsFacts DEF Moves
<1>3. log' = IF Reachable(K) < N /\ HasOnto(w, onto) THEN Replay(SubSeq(listed, 1, K), todo) ELSE log
  <2>1. moved \cup {onto} = moved \cup ({onto} \ {Null})
    OBVIOUS
  <2> QED
    BY <2>1 DEF Squash, RebaseInteractive
<1>4. Reachable(K) \in 0..N /\ onto \notin moved
  BY <1>1, <1>2 DEF Squash
<1> HIDE DEF K
<1>5. PICK t : Travels(t, "squash", moved, at, K)
  BY <1>4, TraversedIs
<1>6. w = t[N] /\ t[N] \in Walk
  <2>1. w = t[N]
    BY <1>1, <1>5, Zenon DEF Travels
  <2>2. N \in 0..N
    BY <1>2
  <2>3. t[N] \in Walk
    BY <1>5, <2>2 DEF Travels
  <2> QED
    BY <2>1, <2>3
<1>7. moved \subseteq (K + 1)..N /\ K \in 0..N
  BY <1>1, <1>2 DEF Asked
<1> HIDE DEF w, todo, at
<1>8. \A I : Of(I) \in Seq(OneCommit) /\ InOrder(I) \in Seq(1..N) /\ Of(I) = At(InOrder(I))
  BY InOrderIs DEF InOrderFacts
<1>9. at = {onto} /\ onto \in 1..N /\ K < onto
  BY <1>1
<1>10. Found("squash", t[N], moved, rest, onto, N)
  BY <1>1, <1>4, <1>5, <1>9, TraversalFinds
<1> DEFINE J == rest \cap 1..(onto - 1)
           group == moved \cup {onto}
           later == rest \ 1..onto
           h == Of(1..K) \o Of(J)
           one == FlattenSeq(Of(group))
<1>11. /\ w.found /\ w.todo = Picks(InOrder(J)) \o Squashed(InOrder(group \cap 1..N))
       /\ w.after = InOrder(later \cap 1..N) /\ InOrder(group \cap 1..N) # <<>>
  BY <1>6, <1>10 DEF Found, FoundOnto
<1>12. group \cap 1..N = group /\ later \cap 1..N = later
  <2>1. (K + 1)..N \subseteq 1..N
    BY <1>7
  <2> QED
    BY <1>2, <1>9, <2>1, Zenon
<1>13. later = (DOMAIN log \ Before(onto)) \ (moved \cup {onto})
  BY <1>1, <1>2, <1>9 DEF Before
<1>14. h = Of(Before(onto) \ moved)
  <2>1. onto \in (K + 1)..(N + 1)
    BY <1>1, <1>2, <1>9
  <2>2. Of(1..K) \o Of(rest \cap 1..(onto - 1)) = Of({i \in DOMAIN log : i < onto} \ moved)
    BY <1>7, <2>1, OthersBefore
  <2>3. {i \in DOMAIN log : i < onto} = Before(onto)
    BY DEF Before
  <2> QED
    BY <2>2, <2>3
<1>15. /\ Picks(InOrder(J)) \in Seq(TodoLine) /\ Squashed(InOrder(group)) \in Seq(TodoLine)
       /\ Picks(InOrder(later)) \in Seq(TodoLine)
  BY <1>8, PicksFacts
<1>16. h \in Seq(OneCommit)
  BY <1>8, ConcatProperties
<1> HIDE DEF J, group, later, h
<1>17. Yields(h, Squashed(InOrder(group)), Append(h, one)) /\ one \in OneCommit
  <2>1. InOrder(group) # <<>> /\ InOrder(group) \in Seq(1..N) /\ Of(group) = At(InOrder(group))
    BY <1>8, <1>11, <1>12
  <2> QED
    BY <1>16, <2>1, SquashedYields
<1> HIDE DEF one
<1>18. Append(h, one) \in Seq(OneCommit) /\ Append(h, one) = h \o <<one>>
  BY <1>16, <1>17, AppendIsConcat
<1>19. Yields(Of(1..K), Picks(InOrder(J)), h)
  BY <1>8, OfYields DEF h
<1>20. Yields(Append(h, one), Picks(InOrder(later)), Append(h, one) \o Of(later))
  BY <1>18, OfYields
<1> DEFINE two == Picks(InOrder(J)) \o Squashed(InOrder(group))
<1>21. two \in Seq(TodoLine) /\ two \o Picks(InOrder(later)) \in Seq(TodoLine)
  <2>1. two \in Seq(TodoLine)
    BY <1>15, ConcatProperties
  <2> QED
    BY <1>15, <2>1, ConcatProperties
<1>22. Yields(Of(1..K), two, Append(h, one))
  BY <1>15, <1>17, <1>19, YieldsBoth
<1>23. todo = two \o Picks(InOrder(later))
  <2>1. todo = two \o Picks(InOrder(later)) \o <<>>
    BY <1>11, <1>12 DEF todo
  <2> HIDE DEF two
  <2> QED
    BY <1>21, <2>1, ConcatEmptySeq
<1> HIDE DEF two
<1>24. Yields(Of(1..K), todo, Append(h, one) \o Of(later)) /\ Len(todo) \in Nat
  BY <1>15, <1>20, <1>21, <1>22, <1>23, YieldsBoth
<1>25. Replay(Of(1..K), todo) = Append(h, one) \o Of(later)
  BY <1>24, ReplayYields
<1>26. log' = Append(h, one) \o Of(later)
  BY <1>1, <1>3, <1>11, <1>25 DEF HasOnto
<1> QED
  BY <1>13, <1>14, <1>18, <1>26 DEF one, group

(* As long as the list is up to date, reordering moves the commits to      *)
(* right before the base commit, squashing makes one commit of the group,  *)
(* and all others keep their order, whatever the length of the history.    *)
THEOREM OnlyMovedMove == TodoSpec => MovesOnlyMoved
<1> DEFINE Where(moved, at) ==
             /\ Reorder(moved, at) =>
                  log' = IF at \in moved THEN log
                         ELSE Of(Before(at) \ moved) \o Of(moved)
                              \o Of((DOMAIN log \ Before(at)) \ moved)
             /\ at # Null /\ Squash(moved, at) =>
                  log' = Of(Before(at) \ moved) \o <<FlattenSeq(Of(moved \cup {at}))>>
                         \o Of((DOMAIN log \ Before(at)) \ (moved \cup {at}))
<1>1. ASSUME TodoTypeOK, listed = log, NEW moved \in Moves, NEW at \in {Null} \cup DOMAIN listed
      PROVE  Where(moved, at)
  <2>1. Typed
    BY <1>1 DEF TodoTypeOK, Typed
  <2>2. Reorder(moved, at) => log' = IF at \in moved THEN log
                                     ELSE Of(Before(at) \ moved) \o Of(moved)
                                          \o Of((DOMAIN log \ Before(at)) \ moved)
    BY <1>1, <2>1, ReorderMoves
  <2>3. at # Null /\ Squash(moved, at) =>
          log' = Of(Before(at) \ moved) \o <<FlattenSeq(Of(moved \cup {at}))>>
                 \o Of((DOMAIN log \ Before(at)) \ (moved \cup {at}))
    BY <1>1, <2>1, SquashMoves
  <2> QED
    BY <2>2, <2>3
<1>2. TodoTypeOK =>
        [rewrites' # rewrites /\ listed = log => \A moved \in Moves, at \in {Null} \cup DOMAIN listed :
           Where(moved, at)]_todoVars
  <2> HIDE DEF Where
  <2> QED
    BY <1>1
<1> QED
  BY TodoTyped, <1>2, PTL DEF MovesOnlyMoved

-----------------------------------------------------------------------------
(* git apply, step by step.                                                *)
Steps(d, original, patch, n) ==
  d = [m \in 0..n |-> IF m = 0 THEN Untouched(original) ELSE ApplyHunk(d[m - 1], patch[m])]

\* what git apply does with the hunks of a patch
Steadily(c, original, patch) ==
  /\ c[0] = Untouched(original)
  /\ \A n \in 1..Len(patch) : c[n] = ApplyHunk(c[n - 1], patch[n])

LEMMA ApplyingIs ==
  ASSUME NEW original, NEW patch, Len(patch) \in Nat
  PROVE  Steadily(Applying(original, patch), original, patch)
<1> DEFINE N == Len(patch)
           P == {n \in 0..N : \E d : Steps(d, original, patch, n)}
<1>1. 0 \in P
  <2>1. Steps([m \in 0..0 |-> Untouched(original)], original, patch, 0)
    BY DEF Steps
  <2> QED
    BY <2>1
<1>2. ASSUME NEW n \in 1..N, n - 1 \in P PROVE n \in P
  <2>1. PICK d : Steps(d, original, patch, n - 1)
    BY <1>2
  <2>2. \A m \in 0..(n - 1) :
          d[m] = IF m = 0 THEN Untouched(original) ELSE ApplyHunk(d[m - 1], patch[m])
    BY <2>1 DEF Steps
  <2> DEFINE last == ApplyHunk(d[n - 1], patch[n])
             e == [m \in 0..n |-> IF m = n THEN last ELSE d[m]]
  <2> HIDE DEF last
  <2>3. ASSUME NEW m \in 0..n
        PROVE  e[m] = IF m = 0 THEN Untouched(original) ELSE ApplyHunk(e[m - 1], patch[m])
    <3>1. CASE m = n
      <4>1. m # 0 /\ m - 1 \in 0..n /\ m - 1 # n
        BY <3>1
      <4>2. e[m] = last /\ e[m - 1] = d[n - 1]
        BY <3>1, <4>1
      <4> QED
        BY <3>1, <4>1, <4>2 DEF last
    <3>2. CASE m # n /\ m # 0
      <4>1. m \in 0..(n - 1) /\ m - 1 \in 0..n /\ m - 1 # n
        BY <3>2
      <4>2. e[m] = d[m] /\ e[m - 1] = d[m - 1]
        BY <3>2, <4>1
      <4> QED
        BY <2>2, <3>2, <4>1, <4>2
    <3>3. CASE m # n /\ m = 0
      <4>1. m \in 0..(n - 1) /\ e[m] = d[m]
        BY <3>3
      <4> QED
        BY <2>2, <3>3, <4>1
    <3> QED
      BY <3>1, <3>2, <3>3
  <2>4. e = [m \in 0..n |-> e[m]]
    OBVIOUS
  <2> HIDE DEF e
  <2>5. Steps(e, original, patch, n)
    BY <2>3, <2>4 DEF Steps
  <2> QED
    BY <2>5
<1>3. PICK d : Steps(d, original, patch, N)
  <2> HIDE DEF P
  <2>1. \A n \in 0..N : n \in P
    BY <1>1, <1>2, UpTo
  <2>2. N \in 0..N
    OBVIOUS
  <2>3. N \in P
    BY <2>1, <2>2
  <2> QED
    BY <2>3 DEF P
<1> DEFINE c == CHOOSE e : Steps(e, original, patch, N)
<1>4. Steps(c, original, patch, N)
  BY <1>3
<1>5. Applying(original, patch) = c
  BY DEF Applying, Steps
<1> HIDE DEF c
<1>6. \A n \in 0..N : c[n] = IF n = 0 THEN Untouched(original) ELSE ApplyHunk(c[n - 1], patch[n])
  BY <1>4 DEF Steps
<1>7. c[0] = Untouched(original)
  BY <1>6
<1>8. ASSUME NEW n \in 1..N PROVE c[n] = ApplyHunk(c[n - 1], patch[n])
  <2>1. n \in 0..N /\ n # 0
    OBVIOUS
  <2> QED
    BY <1>6, <2>1, Zenon
<1> QED
  BY <1>5, <1>7, <1>8 DEF Steadily

\* The elements of two lists that are joined.
TwoJoined(s, x, z, S) ==
  /\ s \in Seq(S) /\ Len(s) = Len(x) + Len(z)
  /\ \A i \in 1..(Len(x) + Len(z)) : s[i] = IF i <= Len(x) THEN x[i] ELSE z[i - Len(x)]

LEMMA ConcatIs ==
  ASSUME NEW S, NEW x \in Seq(S), NEW z \in Seq(S)
  PROVE  TwoJoined(x \o z, x, z, S)
BY ConcatProperties DEF TwoJoined

\* What Splice gives.
Spliced(r, s, at, n, new) ==
  /\ Len(r) = Len(s) - n + Len(new)
  /\ \A i \in 1..at : r[i] = s[i]
  /\ \A i \in 1..Len(new) : r[at + i] = new[i]
  /\ \A i \in (at + Len(new) + 1)..Len(r) : r[i] = s[(i - Len(new)) + n]

LEMMA SpliceIs ==
  ASSUME NEW S, NEW s \in Seq(S), NEW new \in Seq(S), NEW at \in Nat, NEW n \in Nat,
         at + n <= Len(s)
  PROVE  Splice(s, at, n, new) \in Seq(S) /\ Spliced(Splice(s, at, n, new), s, at, n, new)
<1> DEFINE x == SubSeq(s, 1, at)
           z == SubSeq(s, at + n + 1, Len(s))
           v == x \o new
           r == v \o z
<1>1. Len(s) \in Nat /\ \A i \in 1..Len(s) : s[i] \in S
  OBVIOUS
<1>2. x \in Seq(S) /\ Len(x) = at /\ \A i \in 1..at : x[i] = s[i]
  <2>1. 1 \in Int /\ at \in Int /\ \A i \in 1..at : s[i] \in S
    BY <1>1
  <2>2. /\ x \in Seq(S) /\ Len(x) = IF 1 <= at THEN at - 1 + 1 ELSE 0
        /\ \A i \in 1..(at - 1 + 1) : x[i] = s[1 + i - 1]
    BY <2>1, SubSeqProperties
  <2> HIDE DEF x
  <2>3. Len(x) = at
    BY <2>2
  <2>4. \A i \in 1..at : i \in 1..(at - 1 + 1) /\ 1 + i - 1 = i
    OBVIOUS
  <2> QED
    BY <2>2, <2>3, <2>4
<1> DEFINE k == Len(s) - (at + n)
<1>3. z \in Seq(S) /\ Len(z) = k /\ k \in Nat /\ \A i \in 1..k : z[i] = s[(at + n) + i]
  <2> DEFINE m == at + n + 1
  <2>1. m \in Int /\ Len(s) \in Int /\ \A i \in m..Len(s) : s[i] \in S
    BY <1>1
  <2>2. /\ z \in Seq(S) /\ Len(z) = IF m <= Len(s) THEN Len(s) - m + 1 ELSE 0
        /\ \A i \in 1..(Len(s) - m + 1) : z[i] = s[m + i - 1]
    BY <2>1, SubSeqProperties, SMTT(30)
  <2> HIDE DEF z
  <2>3. Len(z) = k /\ k \in Nat
    BY <1>1, <2>2
  <2>4. \A i \in 1..k : i \in 1..(Len(s) - m + 1) /\ m + i - 1 = (at + n) + i
    BY <1>1
  <2> QED
    BY <2>2, <2>3, <2>4
<1> HIDE DEF x, z
<1>4. /\ v \in Seq(S) /\ Len(v) = at + Len(new) /\ Len(new) \in Nat
      /\ \A i \in 1..(at + Len(new)) : v[i] = IF i <= at THEN x[i] ELSE new[i - at]
  <2>1. /\ v \in Seq(S) /\ Len(v) = Len(x) + Len(new)
        /\ \A i \in 1..(Len(x) + Len(new)) : v[i] = IF i <= Len(x) THEN x[i] ELSE new[i - Len(x)]
    BY <1>2, ConcatProperties
  <2> QED
    BY <1>2, <2>1
<1> HIDE DEF v
<1>5. /\ r \in Seq(S) /\ Len(r) = (at + Len(new)) + k
      /\ \A i \in 1..((at + Len(new)) + k) :
           r[i] = IF i <= at + Len(new) THEN v[i] ELSE z[i - (at + Len(new))]
  <2>1. v \in Seq(S) /\ z \in Seq(S) /\ Len(v) = at + Len(new) /\ Len(z) = k
    BY <1>3, <1>4
  <2>2. TwoJoined(v \o z, v, z, S)
    BY <2>1, ConcatIs, Zenon
  <2> QED
    BY <2>1, <2>2 DEF TwoJoined
<1> HIDE DEF r
<1>6. ASSUME NEW i \in 1..at PROVE r[i] = s[i]
  <2>1. i \in 1..(at + Len(new)) /\ i \in 1..((at + Len(new)) + k) /\ i <= at /\ i <= at + Len(new)
    BY <1>3, <1>4
  <2> QED
    BY <1>2, <1>4, <1>5, <2>1
<1>7. ASSUME NEW i \in 1..Len(new) PROVE r[at + i] = new[i]
  <2>1. /\ at + i \in 1..(at + Len(new)) /\ at + i \in 1..((at + Len(new)) + k)
        /\ at + i <= at + Len(new) /\ ~(at + i <= at) /\ (at + i) - at = i
    BY <1>3, <1>4, SMTT(30)
  <2> QED
    BY <1>4, <1>5, <2>1
<1>8. ASSUME NEW i \in (at + Len(new) + 1)..Len(r) PROVE r[i] = s[(i - Len(new)) + n]
  <2> DEFINE j == i - (at + Len(new))
  <2>1. /\ i \in 1..((at + Len(new)) + k) /\ ~(i <= at + Len(new)) /\ j \in 1..k
        /\ (at + n) + j = (i - Len(new)) + n
    BY <1>3, <1>4, <1>5
  <2>2. r[i] = z[j]
    BY <1>5, <2>1
  <2> HIDE DEF j
  <2> QED
    BY <1>3, <2>1, <2>2
<1>9. Len(r) = Len(s) - n + Len(new)
  BY <1>1, <1>3, <1>4, <1>5
<1>10. Splice(s, at, n, new) = r
  BY DEF Splice, r, v, x, z
<1> HIDE DEF k
<1> QED
  BY <1>5, <1>6, <1>7, <1>8, <1>9, <1>10 DEF Spliced

\* The elements of three lists that are joined.
Joined(s, x, y, z) ==
  /\ Len(s) = (Len(x) + Len(y)) + Len(z)
  /\ \A i \in 1..Len(x) : s[i] = x[i]
  /\ \A i \in 1..Len(y) : s[Len(x) + i] = y[i]
  /\ \A i \in 1..Len(z) : s[(Len(x) + Len(y)) + i] = z[i]

LEMMA ThreeJoined ==
  ASSUME NEW S, NEW x \in Seq(S), NEW y \in Seq(S), NEW z \in Seq(S)
  PROVE  (x \o y) \o z \in Seq(S) /\ Joined((x \o y) \o z, x, y, z)
<1> DEFINE v == x \o y
           t == v \o z
<1>0. Len(x) \in Nat /\ Len(y) \in Nat /\ Len(z) \in Nat
  OBVIOUS
<1>1. /\ v \in Seq(S) /\ Len(v) = Len(x) + Len(y)
      /\ \A i \in 1..(Len(x) + Len(y)) : v[i] = IF i <= Len(x) THEN x[i] ELSE y[i - Len(x)]
  BY ConcatProperties
<1> HIDE DEF v
<1>2. v \in Seq(S)
  BY <1>1
<1>3. /\ t \in Seq(S) /\ Len(t) = Len(v) + Len(z)
      /\ \A i \in 1..(Len(v) + Len(z)) : t[i] = IF i <= Len(v) THEN v[i] ELSE z[i - Len(v)]
  BY ONLY <1>2, z \in Seq(S), ConcatProperties
<1> HIDE DEF t
<1>4. ASSUME NEW i \in 1..Len(x) PROVE t[i] = x[i]
  <2>1. i \in 1..(Len(x) + Len(y)) /\ i \in 1..(Len(v) + Len(z)) /\ i <= Len(v) /\ i <= Len(x)
    BY <1>0, <1>1
  <2> QED
    BY <1>1, <1>3, <2>1
<1>5. ASSUME NEW i \in 1..Len(y) PROVE t[Len(x) + i] = y[i]
  <2> DEFINE j == Len(x) + i
  <2>1. /\ j \in 1..(Len(x) + Len(y)) /\ j \in 1..(Len(v) + Len(z)) /\ j <= Len(v)
        /\ ~(j <= Len(x)) /\ j - Len(x) = i
    BY <1>0, <1>1
  <2> HIDE DEF j
  <2>2. t[j] = y[i]
    BY <1>1, <1>3, <2>1
  <2> QED
    BY <2>2 DEF j
<1>6. ASSUME NEW i \in 1..Len(z) PROVE t[(Len(x) + Len(y)) + i] = z[i]
  <2> DEFINE j == (Len(x) + Len(y)) + i
  <2>1. j \in 1..(Len(v) + Len(z)) /\ ~(j <= Len(v)) /\ j - Len(v) = i
    BY <1>0, <1>1
  <2> HIDE DEF j
  <2>2. t[j] = z[i]
    BY <1>3, <2>1
  <2> QED
    BY <2>2 DEF j
<1> QED
  BY <1>1, <1>3, <1>4, <1>5, <1>6 DEF Joined, t, v

\* The middle one of three lists is replaced.
Exchanged(x, y, z, w) == Splice((x \o y) \o z, Len(x), Len(y), w) = (x \o w) \o z

LEMMA SpliceMiddle ==
  ASSUME NEW S, NEW x \in Seq(S), NEW y \in Seq(S), NEW z \in Seq(S), NEW w \in Seq(S)
  PROVE  Exchanged(x, y, z, w)
<1> DEFINE s == (x \o y) \o z
           r == Splice(s, Len(x), Len(y), w)
           q == (x \o w) \o z
<1>1. Len(x) \in Nat /\ Len(y) \in Nat /\ Len(z) \in Nat /\ Len(w) \in Nat
  OBVIOUS
<1>2. /\ s \in Seq(S) /\ Len(s) = (Len(x) + Len(y)) + Len(z)
      /\ \A i \in 1..Len(x) : s[i] = x[i]
      /\ \A i \in 1..Len(z) : s[(Len(x) + Len(y)) + i] = z[i]
  <2>1. s \in Seq(S) /\ Joined(s, x, y, z)
    BY ThreeJoined, Zenon
  <2> HIDE DEF s
  <2> QED
    BY <2>1 DEF Joined
<1>3. /\ q \in Seq(S) /\ Len(q) = (Len(x) + Len(w)) + Len(z)
      /\ \A i \in 1..Len(x) : q[i] = x[i]
      /\ \A i \in 1..Len(w) : q[Len(x) + i] = w[i]
      /\ \A i \in 1..Len(z) : q[(Len(x) + Len(w)) + i] = z[i]
  <2>1. q \in Seq(S) /\ Joined(q, x, w, z)
    BY ThreeJoined, Zenon
  <2> HIDE DEF q
  <2> QED
    BY <2>1 DEF Joined
<1> HIDE DEF s, q
<1>4. Len(x) + Len(y) <= Len(s)
  BY <1>1, <1>2
<1>5. r \in Seq(S) /\ Spliced(r, s, Len(x), Len(y), w)
  BY <1>1, <1>2, <1>4, SpliceIs
<1> HIDE DEF r
<1>6. Len(r) = Len(q)
  BY <1>1, <1>2, <1>3, <1>5 DEF Spliced
<1>7. ASSUME NEW i \in 1..Len(r) PROVE r[i] = q[i]
  <2>1. CASE i <= Len(x)
    <3>1. i \in 1..Len(x)
      BY <1>1, <2>1
    <3> QED
      BY <1>2, <1>3, <1>5, <3>1 DEF Spliced
  <2>2. CASE ~(i <= Len(x)) /\ i <= Len(x) + Len(w)
    <3> DEFINE j == i - Len(x)
    <3>1. j \in 1..Len(w) /\ Len(x) + j = i
      BY <1>1, <2>2
    <3> HIDE DEF j
    <3> QED
      BY <1>3, <1>5, <3>1 DEF Spliced
  <2>3. CASE ~(i <= Len(x) + Len(w))
    <3> DEFINE j == i - (Len(x) + Len(w))
    <3>1. /\ j \in 1..Len(z) /\ (Len(x) + Len(w)) + j = i
          /\ (i - Len(w)) + Len(y) = (Len(x) + Len(y)) + j
          /\ i \in (Len(x) + Len(w) + 1)..Len(r)
      BY <1>1, <1>3, <1>6, <2>3
    <3> HIDE DEF j
    <3>2. r[i] = s[(i - Len(w)) + Len(y)]
      BY <1>5, <3>1 DEF Spliced
    <3> QED
      BY <1>2, <1>3, <3>1, <3>2
  <2> QED
    BY <1>1, <2>1, <2>2, <2>3
<1>8. r = q
  BY <1>3, <1>5, <1>6, <1>7, SeqEqual
<1> QED
  BY <1>8 DEF Exchanged, r, s, q

-----------------------------------------------------------------------------
(* What a patch is to replace, and with what.                              *)
Source(d, side) == IF side = "commit" THEN OldLines(d) ELSE NewLines(d)

\* what the file is to have: a commit takes what is selected, a discard
\* takes it back
Target(d, side, s) ==
  {p \in DOMAIN d.script :
     LET line == d.script[p]
         change == IF side = "commit" THEN "Add" ELSE "Delete"
     IN  \/ line.type = "Context"
         \/ line.type = change /\ IsSelected(s, line.index)
         \/ line.type \notin {"Context", change} /\ ~IsSelected(s, line.index)}

LineContents == [text : Nat, noTrailingNewLine : BOOLEAN]

DiffRight(d) ==
  /\ d.script \in Seq(ScriptLine) /\ DOMAIN d.script = 1..Len(d.script)
  /\ \A p \in 1..Len(d.script) :
       /\ d.script[p].type \in {"Context", "Add", "Delete"}
       /\ Content(d.script[p]) \in LineContents /\ d.script[p].index \in Nat
  /\ Contents(d.script) \in Seq(LineContents) /\ Len(Contents(d.script)) = Len(d.script)
  /\ Len(d.script) \in Nat
  /\ \A p \in 1..Len(d.script) : Contents(d.script)[p] = Content(d.script[p])
  /\ d.hunks \in Seq(Hunk) /\ DOMAIN d.hunks = 1..Len(d.hunks)
  /\ Len(d.hunks) \in Nat

LEMMA DiffFacts == ASSUME NEW d, DiffOfGit(d) PROVE DiffRight(d)
<1> DEFINE s == d.script
           u == d.hunks
<1>1. s \in Seq(ScriptLine) /\ u \in Seq(Hunk)
  BY DEF DiffOfGit
<1>2. /\ DOMAIN s = 1..Len(s) /\ Len(s) \in Nat /\ \A p \in 1..Len(s) : s[p] \in ScriptLine
      /\ DOMAIN u = 1..Len(u) /\ Len(u) \in Nat
  BY <1>1
<1> HIDE DEF s, u
<1>3. \A p \in 1..Len(s) : /\ s[p].type \in {"Context", "Add", "Delete"}
                           /\ Content(s[p]) \in LineContents /\ s[p].index \in Nat
  BY <1>2 DEF ScriptLine, Content, LineContents
<1>4. Contents(s) = [p \in 1..Len(s) |-> Content(s[p])]
  BY <1>2 DEF Contents
<1>5. Contents(s) \in Seq(LineContents) /\ Len(Contents(s)) = Len(s)
  BY <1>2, <1>3, <1>4
<1> QED
  BY <1>1, <1>2, <1>3, <1>4, <1>5 DEF DiffRight, s, u

HunkRight(d, k, h) ==
  /\ h.first \in Nat \ {0} /\ h.last \in h.first..Len(d.script)
  /\ h.unifiedDiffStart \in Nat /\ h.oldStartLine \in Nat /\ h.newStartLine \in Nat
  /\ StartsAt(h.oldStartLine, OldLines(d), h)
  /\ StartsAt(h.newStartLine, NewLines(d), h)
  /\ \A j \in 1..(k - 1) : d.hunks[j].last + 1 < h.first
  /\ \A p \in h.first..h.last : d.script[p].index = h.unifiedDiffStart + (p - h.first) + 1

LEMMA HunkFacts ==
  ASSUME NEW d, DiffOfGit(d), NEW k \in 1..Len(d.hunks), NEW h, h = d.hunks[k]
  PROVE  HunkRight(d, k, h)
<1>1. DiffRight(d)
  BY DiffFacts, Zenon
<1>2. d.hunks \in Seq(Hunk) /\ DOMAIN d.hunks = 1..Len(d.hunks) /\ Len(d.script) \in Nat
  BY <1>1, Zenon DEF DiffRight
<1>3. k \in DOMAIN d.hunks /\ h \in Hunk /\ Len(d.script) \in Nat
  <2> DEFINE u == d.hunks
  <2>1. u \in Seq(Hunk) /\ k \in 1..Len(u)
    BY <1>2
  <2> HIDE DEF u
  <2>2. u[k] \in Hunk
    BY <2>1
  <2> QED
    BY <1>2, <2>2 DEF u
<1>4. /\ h.first \in Nat \ {0} /\ h.last \in Nat
      /\ h.unifiedDiffStart \in Nat /\ h.oldStartLine \in Nat /\ h.newStartLine \in Nat
  BY <1>3 DEF Hunk
<1>5. /\ h.first <= h.last /\ h.last <= Len(d.script)
      /\ \A j \in 1..(k - 1) : d.hunks[j].last + 1 < h.first
      /\ StartsAt(h.oldStartLine, OldLines(d), h)
      /\ StartsAt(h.newStartLine, NewLines(d), h)
      /\ \A p \in h.first..h.last : d.script[p].index = h.unifiedDiffStart + (p - h.first) + 1
  BY <1>3, Zenon DEF DiffOfGit
<1>6. h.last \in h.first..Len(d.script)
  BY <1>3, <1>4, <1>5
<1> QED
  BY <1>4, <1>5, <1>6, Zenon DEF HunkRight

\* The sign of a line of a hunk says which of the two files has it.
SignRight(line, t, S, Q, p) ==
  /\ Content(line) = t[p] /\ t[p] \in LineContents
  /\ line.sign \in {" ", "-"} <=> p \in S
  /\ line.sign \in {" ", "+"} <=> p \in Q
  /\ ~Changed(line) => (p \in S <=> p \in Q)

LEMMA SignsTrue ==
  ASSUME NEW d, DiffOfGit(d), NEW side \in Sides, NEW s,
         NEW k \in 1..Len(d.hunks), NEW h, h = d.hunks[k], NEW i \in 1..(h.last - h.first + 1)
  PROVE  SignRight(HunkLine(d, side, s, h, i), Contents(d.script),
                   Source(d, side), Target(d, side, s), (h.first - 1) + i)
<1> DEFINE p == (h.first - 1) + i
           l == d.script[p]
           selected == IsSelected(s, l.index)
           line == HunkLine(d, side, s, h, i)
<1>1. /\ h.first \in Nat \ {0} /\ h.last \in h.first..Len(d.script) /\ h.unifiedDiffStart \in Nat
      /\ \A q \in h.first..h.last : d.script[q].index = h.unifiedDiffStart + (q - h.first) + 1
  <2>1. HunkRight(d, k, h)
    BY HunkFacts, Zenon
  <2> QED
    BY <2>1, Zenon DEF HunkRight
<1>2. /\ DOMAIN d.script = 1..Len(d.script) /\ Len(d.script) \in Nat
      /\ \A q \in 1..Len(d.script) : /\ d.script[q].type \in {"Context", "Add", "Delete"}
                                     /\ Content(d.script[q]) \in LineContents
                                     /\ Contents(d.script)[q] = Content(d.script[q])
  BY DiffFacts DEF DiffRight
<1>3. p \in h.first..h.last /\ p \in 1..Len(d.script) /\ h.first + i - 1 = p /\ p - h.first + 1 = i
  <2> DEFINE a == h.first
             b == h.last
             n == Len(d.script)
  <2>1. a \in Nat \ {0} /\ b \in a..n /\ n \in Nat /\ i \in 1..(b - a + 1)
    BY <1>1, <1>2, Zenon
  <2> HIDE DEF a, b, n
  <2>2. (a - 1) + i \in a..b /\ (a - 1) + i \in 1..n /\ a + i - 1 = (a - 1) + i
        /\ ((a - 1) + i) - a + 1 = i
    BY <2>1
  <2> QED
    BY <2>2 DEF a, b, n
<1>4. l.index = h.unifiedDiffStart + i
  <2>1. l.index = h.unifiedDiffStart + (p - h.first) + 1
    BY <1>1, <1>3, Zenon
  <2>2. p \in Int /\ h.first \in Int /\ h.unifiedDiffStart \in Int
    BY <1>1
  <2> HIDE DEF p, l
  <2>3. h.unifiedDiffStart + (p - h.first) + 1 = h.unifiedDiffStart + i
    BY <1>3, <2>2
  <2> QED
    BY <2>1, <2>3
<1>5. line = [sign |-> SignOf(side, l.type, selected), text |-> l.text,
              noTrailingNewLine |-> l.noTrailingNewLine]
  <2> HIDE DEF p
  <2> QED
    BY <1>3, <1>4, Zenon DEF HunkLine
<1>6. line.sign = SignOf(side, l.type, selected) /\ Content(line) = Content(l)
  <2> DEFINE sign == SignOf(side, l.type, selected)
             text == l.text
             mark == l.noTrailingNewLine
  <2>1. line = [sign |-> sign, text |-> text, noTrailingNewLine |-> mark]
    BY <1>5
  <2> HIDE DEF line, sign, text, mark
  <2>2. line.sign = sign /\ line.text = text /\ line.noTrailingNewLine = mark
    BY <2>1
  <2> QED
    BY <2>2 DEF Content, sign, text, mark
<1>7. /\ l.type \in {"Context", "Add", "Delete"}
      /\ Content(l) \in LineContents /\ Contents(d.script)[p] = Content(l)
  BY <1>2, <1>3
<1> HIDE DEF p, line
<1>8. selected \in BOOLEAN
  BY DEF IsSelected
<1>9. /\ p \in Source(d, side) <=> IF side = "commit" THEN l.type # "Add" ELSE l.type # "Delete"
      /\ p \in Target(d, side, s) <=>
           IF side = "commit"
           THEN l.type = "Context" \/ (l.type = "Add" /\ selected) \/ (l.type = "Delete" /\ ~selected)
           ELSE l.type = "Context" \/ (l.type = "Delete" /\ selected) \/ (l.type = "Add" /\ ~selected)
  BY <1>2, <1>3, <1>7 DEF Source, OldLines, NewLines, Target
<1> HIDE DEF l, selected
<1>10. line.sign \in {" ", "+", "-", LeftOut}
  BY <1>6, <1>7, <1>8 DEF SignOf, PatchSign, DiscardSign, Sign, Opposite, Sides
<1>11. CASE side = "commit"
  <2>1. line.sign = PatchSign(l.type, selected)
    BY <1>6, <1>11 DEF SignOf
  <2>2. /\ l.type = "Context" => line.sign = " "
        /\ l.type = "Add" => line.sign = IF selected THEN "+" ELSE LeftOut
        /\ l.type = "Delete" => line.sign = IF selected THEN "-" ELSE " "
    BY <1>8, <2>1 DEF PatchSign, Sign
  <2> QED
    BY <1>3, <1>6, <1>7, <1>8, <1>9, <1>11, <2>2 DEF SignRight, LeftOut, Changed, p, line
<1>12. CASE side = "discard"
  <2>1. line.sign = DiscardSign(l.type, selected)
    BY <1>6, <1>12 DEF SignOf
  <2>2. /\ l.type = "Context" => line.sign = " "
        /\ l.type = "Add" => line.sign = IF selected THEN "-" ELSE " "
        /\ l.type = "Delete" => line.sign = IF selected THEN "+" ELSE LeftOut
    BY <1>8, <2>1 DEF DiscardSign, Opposite
  <2> QED
    BY <1>3, <1>6, <1>7, <1>8, <1>9, <1>12, <2>2 DEF SignRight, LeftOut, Changed, p, line
<1> QED
  BY <1>11, <1>12 DEF Sides

-----------------------------------------------------------------------------
(* One hunk.  When the script is done up to a line b, the file has the     *)
(* lines of the new version up to there and the lines of the old one after *)
(* it, and no hunk has written those.  A hunk is about the lines of the    *)
(* script after a up to l, and the two versions agree between b and a.     *)
Mixed(t, S, Q, b) == Kept(t, Q \cap 1..b) \o Kept(t, S \cap (b + 1)..Len(t))

DoneTo(acc, t, S, Q, b) ==
  /\ acc.ok /\ acc.file = Mixed(t, S, Q, b)
  /\ acc.patched \in Seq(BOOLEAN) /\ Len(acc.patched) = Len(acc.file)
  /\ \A i \in (Len(Kept(t, Q \cap 1..b)) + 1)..Len(acc.file) : ~acc.patched[i]

HunkOf(g, t, S, Q, a, l) ==
  /\ Replaced(g) = Kept(t, S \cap (a + 1)..l)
  /\ Replacement(g) = Kept(t, Q \cap (a + 1)..l)
  /\ g.oldStart = 0 => a = 0

\* The file before, in and after a hunk.
Apart(t, S, Q, a, l, b) ==
  /\ Mixed(t, S, Q, b) =
       (Kept(t, Q \cap 1..a) \o Kept(t, S \cap (a + 1)..l)) \o Kept(t, S \cap (l + 1)..Len(t))
  /\ Mixed(t, S, Q, l) =
       (Kept(t, Q \cap 1..a) \o Kept(t, Q \cap (a + 1)..l)) \o Kept(t, S \cap (l + 1)..Len(t))
  /\ Len(Kept(t, Q \cap 1..l)) = Len(Kept(t, Q \cap 1..a)) + Len(Kept(t, Q \cap (a + 1)..l))
  /\ Len(Kept(t, Q \cap 1..b)) <= Len(Kept(t, Q \cap 1..a))

ConcatAssociates(x, y, z) == (x \o y) \o z = x \o (y \o z)

LEMMA ConcatThree ==
  ASSUME NEW X, NEW x \in Seq(X), NEW y \in Seq(X), NEW z \in Seq(X)
  PROVE  ConcatAssociates(x, y, z)
BY ConcatAssociative DEF ConcatAssociates

LEMMA HunkApart ==
  ASSUME NEW X, NEW t \in Seq(X), NEW S, NEW Q, NEW a \in 0..Len(t), NEW l \in a..Len(t),
         NEW b \in 0..a, S \cap (b + 1)..a = Q \cap (b + 1)..a
  PROVE  Apart(t, S, Q, a, l, b)
<1> DEFINE n == Len(t)
           u == Kept(t, Q \cap 1..b)
           v == Kept(t, Q \cap (b + 1)..a)
           x == Kept(t, Q \cap 1..a)
           y == Kept(t, S \cap (a + 1)..l)
           w == Kept(t, Q \cap (a + 1)..l)
           z == Kept(t, S \cap (l + 1)..n)
<1>1. /\ 0 \in Nat /\ b \in Nat /\ a \in Nat /\ l \in Nat /\ n \in Nat
      /\ 0 <= b /\ b <= a /\ 0 <= a /\ a <= l /\ l <= n /\ a <= n /\ 0 + 1 = 1
  OBVIOUS
<1>2. /\ Cuts(t, Q, 0, b, a) /\ Cuts(t, Q, 0, a, l)
      /\ Cuts(t, S, b, a, n) /\ Cuts(t, S, a, l, n)
  BY <1>1, KeptCut
<1>3. u \in Seq(X) /\ v \in Seq(X) /\ x \in Seq(X) /\ y \in Seq(X) /\ w \in Seq(X) /\ z \in Seq(X)
  BY KeptIn
<1>4. x = u \o v /\ Kept(t, Q \cap 1..l) = x \o w
  BY <1>1, <1>2 DEF Cuts
<1>5. Kept(t, S \cap (b + 1)..n) = v \o (y \o z)
  BY <1>2 DEF Cuts
<1>6. Mixed(t, S, Q, b) = u \o (v \o (y \o z)) /\ Mixed(t, S, Q, l) = (x \o w) \o z
  BY <1>4, <1>5 DEF Mixed
<1> HIDE DEF u, v, x, y, w, z
<1>7. u \o (v \o (y \o z)) = (x \o y) \o z
  <2>1. y \o z \in Seq(X)
    BY <1>3, ConcatProperties
  <2>2. ConcatAssociates(u, v, y \o z)
    BY <1>3, <2>1, ConcatThree, Zenon
  <2>3. ConcatAssociates(x, y, z)
    BY <1>3, ConcatThree, Zenon
  <2> QED
    BY <1>4, <2>2, <2>3 DEF ConcatAssociates
<1>8. Len(x \o w) = Len(x) + Len(w) /\ Len(x) = Len(u) + Len(v) /\ Len(u) \in Nat /\ Len(v) \in Nat
  BY <1>3, <1>4
<1>9. Len(u) <= Len(x)
  BY <1>8
<1> QED
  BY <1>4, <1>6, <1>7, <1>8, <1>9 DEF Apart, u, x, y, w, z

\* a hunk that fits in one place only
FitsOnce(acc, g) == \A m1, m2 \in PlacesFor(acc, g) : m1 = m2

\* The places of a hunk whose lines are y, in a file of three parts.
HunkFits(acc, g, x, y, z, w, c) ==
  /\ acc.ok /\ acc.file = (x \o y) \o z
  /\ acc.patched \in Seq(BOOLEAN) /\ Len(acc.patched) = Len(acc.file)
  /\ \A i \in (c + 1)..Len(acc.file) : ~acc.patched[i]
  /\ Replaced(g) = y /\ Replacement(g) = w
  /\ g.oldStart = 0 => Len(x) = 0
  /\ FitsOnce(acc, g)

HunkDone(next, x, z, w) ==
  /\ next.ok /\ next.file = (x \o w) \o z
  /\ next.patched \in Seq(BOOLEAN) /\ Len(next.patched) = Len(next.file)
  /\ \A i \in (Len(x) + Len(w) + 1)..Len(next.file) : ~next.patched[i]

LEMMA HunkReplaces ==
  ASSUME NEW X, NEW x \in Seq(X), NEW y \in Seq(X), NEW z \in Seq(X), NEW w \in Seq(X),
         NEW acc, NEW g, NEW c \in Nat, c <= Len(x), HunkFits(acc, g, x, y, z, w, c)
  PROVE  HunkDone(ApplyHunk(acc, g), x, z, w)
<1> DEFINE m == Len(x)
           places == PlacesFor(acc, g)
           at == CHOOSE p \in places : \A q \in places : FoundFirst(Expected(acc, g), p, q)
           marks == [i \in DOMAIN w |-> TRUE]
           next == ApplyHunk(acc, g)
<1>1. /\ acc.ok /\ acc.file = (x \o y) \o z
      /\ acc.patched \in Seq(BOOLEAN) /\ Len(acc.patched) = Len(acc.file)
      /\ \A i \in (c + 1)..Len(acc.file) : ~acc.patched[i]
      /\ Replaced(g) = y /\ Replacement(g) = w
      /\ g.oldStart = 0 => m = 0
      /\ FitsOnce(acc, g)
  BY DEF HunkFits
<1>2. /\ Len(x) \in Nat /\ Len(y) \in Nat /\ Len(z) \in Nat /\ Len(w) \in Nat
      /\ DOMAIN y = 1..Len(y) /\ DOMAIN w = 1..Len(w)
  OBVIOUS
<1>3. Joined((x \o y) \o z, x, y, z) /\ Joined((x \o w) \o z, x, w, z)
  BY ThreeJoined
<1>4. Len(acc.file) = (m + Len(y)) + Len(z) /\ \A i \in 1..Len(y) : acc.file[m + i] = y[i]
  BY <1>1, <1>3 DEF Joined
<1>5. Splice(acc.file, m, Len(y), w) = (x \o w) \o z
  <2>1. Exchanged(x, y, z, w)
    BY SpliceMiddle, Zenon
  <2> QED
    BY <1>1, <2>1 DEF Exchanged
<1>6. Len((x \o w) \o z) = (m + Len(w)) + Len(z)
  BY <1>3 DEF Joined
<1> HIDE DEF m
<1>7. m \in Nat /\ c <= m
  BY <1>2 DEF m
<1>8. \A i \in (m + 1)..Len(acc.file) : ~acc.patched[i]
  <2>1. \A i \in (m + 1)..Len(acc.file) : i \in (c + 1)..Len(acc.file)
    BY <1>2, <1>4, <1>7
  <2> QED
    BY <1>1, <2>1, Zenon
<1>9. m \in places
  <2>1. m \in 0..(Len(acc.file) - Len(y))
    BY <1>2, <1>4, <1>7
  <2>2. ASSUME NEW i \in DOMAIN y PROVE ~acc.patched[m + i] /\ SameLine(acc.file[m + i], y[i])
    <3>1. i \in 1..Len(y) /\ m + i \in (m + 1)..Len(acc.file)
      BY <1>2, <1>4, <1>7
    <3>2. acc.file[m + i] = y[i] /\ ~acc.patched[m + i]
      BY <1>4, <1>8, <3>1
    <3> QED
      BY <3>2 DEF SameLine
  <2> QED
    BY <1>1, <2>1, <2>2 DEF PlacesFor
<1> HIDE DEF places
<1>10. at = m
  <2>1. \A p \in places : p = m
    BY <1>1, <1>9 DEF FitsOnce, places
  <2>2. FoundFirst(Expected(acc, g), m, m)
    BY <1>7 DEF FoundFirst
  <2>3. \A q \in places : FoundFirst(Expected(acc, g), m, q)
    BY <2>1, <2>2
  <2>4. at \in places
    BY <1>9, <2>3
  <2> QED
    BY <2>1, <2>4
<1> DEFINE r == Splice(acc.patched, m, Len(y), marks)
           f == (x \o w) \o z
<1>11. next = [ok |-> TRUE, file |-> f, patched |-> r]
  <2>1. next = IF ~acc.ok \/ places = {} THEN [acc EXCEPT !.ok = FALSE]
               ELSE [ok |-> TRUE, file |-> Splice(acc.file, at, Len(y), w),
                     patched |-> Splice(acc.patched, at, Len(y), marks)]
    BY <1>1 DEF ApplyHunk, places
  <2> HIDE DEF next, at, marks
  <2>2. places # {}
    BY <1>9
  <2> QED
    BY <1>1, <1>5, <1>10, <2>1, <2>2
<1> HIDE DEF at, next, f
<1>12. marks \in Seq(BOOLEAN) /\ Len(marks) = Len(w)
  BY <1>2
<1> HIDE DEF marks
<1>13. m + Len(y) <= Len(acc.patched)
  BY <1>1, <1>2, <1>4, <1>7
<1>14. r \in Seq(BOOLEAN) /\ Spliced(r, acc.patched, m, Len(y), marks)
  BY <1>1, <1>2, <1>7, <1>12, <1>13, SpliceIs
<1> HIDE DEF r
<1> DEFINE k == Len(y)
           n == Len(w)
           e == Len(z)
           o == Len(acc.file)
<1>15. /\ Len(r) = o - k + n
       /\ \A i \in (m + n + 1)..Len(r) : r[i] = acc.patched[(i - n) + k]
  BY <1>1, <1>12, <1>14, Zenon DEF Spliced
<1>16. o = (m + k) + e /\ k \in Nat /\ n \in Nat /\ e \in Nat /\ Len(f) = (m + n) + e
  BY <1>2, <1>4, <1>6 DEF f
<1>17. \A i \in (m + 1)..o : ~acc.patched[i]
  BY <1>8
<1> HIDE DEF k, n, e, o
<1>18. Len(r) = Len(f)
  BY <1>7, <1>15, <1>16, SMTT(30)
<1>19. ASSUME NEW i \in (m + n + 1)..Len(r) PROVE ~r[i]
  <2> DEFINE j == (i - n) + k
  <2>1. j \in (m + 1)..o
    BY <1>7, <1>16, <1>18
  <2>2. r[i] = acc.patched[j]
    BY <1>15
  <2> HIDE DEF j
  <2> QED
    BY <1>17, <2>1, <2>2
<1>20. next.ok /\ next.file = f /\ next.patched = r
  BY <1>11
<1>21. \A i \in (m + n + 1)..Len(next.file) : ~next.patched[i]
  BY <1>18, <1>19, <1>20
<1>22. next.patched \in Seq(BOOLEAN) /\ Len(next.patched) = Len(next.file)
  BY <1>14, <1>18, <1>20
<1> QED
  BY <1>20, <1>21, <1>22 DEF HunkDone, m, n, f, next

LEMMA HunkApplies ==
  ASSUME NEW X, NEW t \in Seq(X), NEW S, NEW Q, NEW a \in 0..Len(t), NEW l \in a..Len(t),
         NEW b \in 0..a, S \cap (b + 1)..a = Q \cap (b + 1)..a,
         NEW acc, DoneTo(acc, t, S, Q, b),
         NEW g, HunkOf(g, t, S, Q, a, l), FitsOnce(acc, g)
  PROVE  DoneTo(ApplyHunk(acc, g), t, S, Q, l)
<1> DEFINE x == Kept(t, Q \cap 1..a)
           y == Kept(t, S \cap (a + 1)..l)
           w == Kept(t, Q \cap (a + 1)..l)
           z == Kept(t, S \cap (l + 1)..Len(t))
           c == Len(Kept(t, Q \cap 1..b))
           next == ApplyHunk(acc, g)
<1>1. x \in Seq(X) /\ y \in Seq(X) /\ w \in Seq(X) /\ z \in Seq(X) /\ c \in Nat
  BY KeptIn
<1>2. Replaced(g) = y /\ Replacement(g) = w /\ (g.oldStart = 0 => a = 0)
  BY DEF HunkOf
<1>3. /\ Mixed(t, S, Q, b) = (x \o y) \o z /\ Mixed(t, S, Q, l) = (x \o w) \o z
      /\ Len(Kept(t, Q \cap 1..l)) = Len(x) + Len(w) /\ c <= Len(x)
  <2>1. Apart(t, S, Q, a, l, b)
    BY HunkApart, Zenon
  <2> QED
    BY <2>1, Zenon DEF Apart
<1>4. a = 0 => Len(x) = 0
  <2>1. ASSUME a = 0 PROVE x = <<>>
    <3>1. (Q \cap 1..a) \cap 1..Len(t) = {}
      BY <2>1
    <3> QED
      BY <3>1, KeptNone, Zenon
  <2> QED
    BY <2>1
<1>5. HunkFits(acc, g, x, y, z, w, c)
  BY <1>2, <1>3, <1>4 DEF DoneTo, HunkFits
<1> HIDE DEF x, y, w, z, c
<1>6. HunkDone(next, x, z, w)
  BY <1>1, <1>3, <1>5, HunkReplaces
<1> HIDE DEF next
<1>7. DoneTo(next, t, S, Q, l)
  BY <1>3, <1>6, Zenon DEF HunkDone, DoneTo
<1> QED
  BY <1>7 DEF next

-----------------------------------------------------------------------------
(* The hunks of a patch say what is to become of the lines they are about. *)
Alike(S, Q, p) == p \in S <=> p \in Q

HasChange(g) == \E i \in DOMAIN g.lines : Changed(g.lines[i])

LinesRight(ls, t, S, Q, a, m) ==
  /\ DOMAIN ls = 1..m /\ a + m <= Len(t)
  /\ \A i \in 1..m : SignRight(ls[i], t, S, Q, a + i)

BothParts(ls, t, S, Q, a, m) ==
  /\ Signed(ls, {" ", "-"}) = Kept(t, S \cap (a + 1)..(a + m))
  /\ Signed(ls, {" ", "+"}) = Kept(t, Q \cap (a + 1)..(a + m))

LEMMA SignedRight ==
  ASSUME NEW t \in Seq(LineContents), NEW a \in Nat, NEW m \in Nat, NEW S, NEW Q,
         NEW ls, LinesRight(ls, t, S, Q, a, m)
  PROVE  BothParts(ls, t, S, Q, a, m)
<1> DEFINE u == Contents(ls)
           minus == {i \in DOMAIN ls : ls[i].sign \in {" ", "-"}}
           plus == {i \in DOMAIN ls : ls[i].sign \in {" ", "+"}}
<1>0. DOMAIN ls = 1..m /\ a + m <= Len(t)
  BY DEF LinesRight
<1>1. \A i \in 1..m :
        /\ Content(ls[i]) = t[a + i] /\ Content(ls[i]) \in LineContents
        /\ ls[i].sign \in {" ", "-"} <=> a + i \in S
        /\ ls[i].sign \in {" ", "+"} <=> a + i \in Q
  BY Zenon DEF LinesRight, SignRight
<1>2. u = [i \in 1..m |-> Content(ls[i])]
  BY <1>0 DEF Contents
<1>3. \A i \in 1..m : (i \in minus <=> a + i \in S) /\ (i \in plus <=> a + i \in Q)
  BY <1>0, <1>1, Zenon
<1>4. Signed(ls, {" ", "-"}) = Kept(u, minus) /\ Signed(ls, {" ", "+"}) = Kept(u, plus)
  BY DEF Signed
<1> HIDE DEF minus, plus, u
<1>5. u \in Seq(LineContents) /\ Len(u) = m
  <2>1. \A i \in 1..m : Content(ls[i]) \in LineContents
    BY <1>1, Zenon
  <2> DEFINE v == [i \in 1..m |-> Content(ls[i])]
  <2>2. v \in [1..m -> LineContents]
    BY <2>1
  <2>3. u = v
    BY <1>2
  <2> HIDE DEF v
  <2> QED
    BY <2>2, <2>3
<1>6. \A i \in 1..Len(u) : u[i] = t[a + i]
  BY <1>1, <1>2, <1>5
<1>7. a + Len(u) <= Len(t)
  BY <1>0, <1>5
<1>8. Kept(u, minus) = Kept(t, S \cap (a + 1)..(a + Len(u)))
  <2>1. \A i \in 1..Len(u) : u[i] = t[a + i] /\ (i \in minus <=> a + i \in S)
    BY <1>3, <1>5, <1>6
  <2>2. PartOf(u, minus, t, S, a)
    BY <1>7, <2>1, Zenon DEF PartOf
  <2>3. Shifts(u, minus, t, S, a)
    BY <1>5, <2>2, KeptShift, Zenon
  <2> QED
    BY <2>3, Zenon DEF Shifts
<1>9. Kept(u, plus) = Kept(t, Q \cap (a + 1)..(a + Len(u)))
  <2>1. \A i \in 1..Len(u) : u[i] = t[a + i] /\ (i \in plus <=> a + i \in Q)
    BY <1>3, <1>5, <1>6
  <2>2. PartOf(u, plus, t, Q, a)
    BY <1>7, <2>1, Zenon DEF PartOf
  <2>3. Shifts(u, plus, t, Q, a)
    BY <1>5, <2>2, KeptShift, Zenon
  <2> QED
    BY <2>3, Zenon DEF Shifts
<1> QED
  BY <1>4, <1>5, <1>8, <1>9, Zenon DEF BothParts

\* A hunk that starts at line 0 is at the top of the script: the line before
\* a hunk is in both versions.
TopOnly(d, S, h) == StartsAt(0, S, h) => h.first - 1 = 0

LEMMA AtTheTop ==
  ASSUME NEW d, DiffOfGit(d), NEW side \in Sides, NEW k \in 1..Len(d.hunks), NEW h, h = d.hunks[k]
  PROVE  TopOnly(d, Source(d, side), h)
<1> DEFINE S == Source(d, side)
           a == h.first - 1
           n == Len(d.script)
           F(j) == d.hunks[j].first
           L(j) == d.hunks[j].last
<1>1. n \in Nat /\ DOMAIN d.script = 1..n /\ DOMAIN d.hunks = 1..Len(d.hunks) /\ Len(d.hunks) \in Nat
  <2>1. DiffRight(d)
    BY DiffFacts, Zenon
  <2> QED
    BY <2>1, Zenon DEF DiffRight
<1>2. \A j \in 1..Len(d.hunks) :
        /\ F(j) \in Nat \ {0} /\ L(j) \in F(j)..n
        /\ \A i \in 1..(j - 1) : L(i) + 1 < F(j)
  <2> TAKE j \in 1..Len(d.hunks)
  <2>1. HunkRight(d, j, d.hunks[j])
    BY HunkFacts, Zenon
  <2> QED
    BY <2>1, Zenon DEF HunkRight
<1>3. \A p \in 1..n : d.script[p].type # "Context" =>
        \E j \in 1..Len(d.hunks) : p \in F(j)..L(j)
  BY <1>1, Zenon DEF DiffOfGit
<1>4. \A p \in 1..n : d.script[p].type = "Context" => p \in S
  BY <1>1 DEF Source, OldLines, NewLines
<1>5. SUFFICES ASSUME StartsAt(0, S, h), a # 0 PROVE FALSE
  BY DEF TopOnly
<1>6. a \in Nat /\ F(k) = a + 1 /\ L(k) \in Nat /\ a + 1 <= L(k) /\ a \in 1..n
  <2>1. F(k) \in Nat \ {0} /\ L(k) \in F(k)..n /\ a = F(k) - 1
    BY <1>2
  <2> HIDE DEF F, L, a, n
  <2> QED
    BY <1>1, <1>5, <2>1
<1>7. S \cap 1..a = {}
  <2> DEFINE before == Cardinality(S \cap 1..a)
  <2> HIDE DEF a
  <2>1. IsFiniteSet(1..a)
    BY <1>6, FS_Interval
  <2>2. IsFiniteSet(S \cap 1..a)
    BY <2>1, FS_Intersection
  <2>3. before \in Nat
    BY <2>2, FS_CardinalityType
  <2>4. 0 = before \/ 0 = before + 1
    BY <1>5 DEF StartsAt, a
  <2>5. before = 0
    BY <2>3, <2>4
  <2> QED
    BY <2>2, <2>5, FS_EmptySet
<1>8. a \notin S
  BY <1>6, <1>7
<1>9. PICK j \in 1..Len(d.hunks) : a \in F(j)..L(j)
  BY <1>3, <1>4, <1>6, <1>8
<1>10. F(j) \in Nat /\ L(j) \in Nat /\ F(j) <= a /\ a <= L(j)
  <2>1. F(j) \in Nat \ {0} /\ L(j) \in F(j)..n
    BY <1>2
  <2> HIDE DEF F, L, a, n
  <2> QED
    BY <1>1, <1>9, <2>1
<1>11. /\ j \in 1..(k - 1) => L(j) + 1 < F(k)
       /\ k \in 1..(j - 1) => L(k) + 1 < F(j)
  BY <1>2
<1>12. j = k \/ j \in 1..(k - 1) \/ k \in 1..(j - 1)
  BY <1>1
<1> HIDE DEF F, L, a, n
<1>13. CASE j = k
  BY <1>6, <1>10, <1>13
<1>14. CASE j \in 1..(k - 1)
  BY <1>6, <1>10, <1>11, <1>14
<1>15. CASE k \in 1..(j - 1)
  BY <1>6, <1>10, <1>11, <1>15
<1> QED
  BY <1>12, <1>13, <1>14, <1>15

LEMMA HunkPatchRight ==
  ASSUME NEW d, DiffOfGit(d), NEW side \in Sides, NEW s,
         NEW k \in 1..Len(d.hunks), NEW h, h = d.hunks[k]
  PROVE  LET g == HunkPatch(d, side, s, h)
             S == Source(d, side)
             Q == Target(d, side, s)
         IN  /\ HunkOf(g, Contents(d.script), S, Q, h.first - 1, h.last)
             /\ ~HasChange(g) => \A p \in h.first..h.last : Alike(S, Q, p)
<1> DEFINE g == HunkPatch(d, side, s, h)
           S == Source(d, side)
           Q == Target(d, side, s)
           t == Contents(d.script)
           n == Len(d.script)
           m == h.last - h.first + 1
           a == h.first - 1
<1>1. HunkRight(d, k, h)
  BY HunkFacts, Zenon
<1>2. /\ h.first \in Nat \ {0} /\ h.last \in h.first..n
      /\ StartsAt(h.oldStartLine, OldLines(d), h) /\ StartsAt(h.newStartLine, NewLines(d), h)
  BY <1>1, Zenon DEF HunkRight
<1>3. t \in Seq(LineContents) /\ Len(t) = n /\ n \in Nat
  <2>1. DiffRight(d)
    BY DiffFacts, Zenon
  <2> QED
    BY <2>1, Zenon DEF DiffRight
<1>4. m \in Nat /\ a \in Nat /\ a + m = h.last /\ a + 1 = h.first /\ a + m <= n
  <2> DEFINE f == h.first
             l == h.last
  <2>1. f \in Nat \ {0} /\ l \in f..n /\ n \in Nat
    BY <1>2, <1>3, Zenon
  <2> HIDE DEF f, l, n
  <2>2. /\ l - f + 1 \in Nat /\ f - 1 \in Nat /\ (f - 1) + (l - f + 1) = l
        /\ (f - 1) + 1 = f /\ (f - 1) + (l - f + 1) <= n
    BY <2>1, SMTT(30)
  <2> QED
    BY <2>2, Zenon DEF f, l
<1>5. DOMAIN g.lines = 1..m /\ \A i \in 1..m : g.lines[i] = HunkLine(d, side, s, h, i)
  BY DEF HunkPatch
<1>6. ASSUME NEW i \in 1..m PROVE SignRight(g.lines[i], t, S, Q, a + i)
  <2>1. SignRight(HunkLine(d, side, s, h, i), t, S, Q, a + i)
    BY SignsTrue, Zenon
  <2> QED
    BY <1>5, <2>1, Zenon
<1> HIDE DEF g, S, Q, t, n, m, a
<1>7. \A i \in 1..m :
        ~Changed(g.lines[i]) => (a + i \in S <=> a + i \in Q)
  BY <1>6, Zenon DEF SignRight
<1>8. /\ Signed(g.lines, {" ", "-"}) = Kept(t, S \cap (a + 1)..(a + m))
      /\ Signed(g.lines, {" ", "+"}) = Kept(t, Q \cap (a + 1)..(a + m))
  <2>1. a + m <= Len(t)
    BY <1>3, <1>4
  <2>2. LinesRight(g.lines, t, S, Q, a, m)
    BY <1>5, <1>6, <2>1, Zenon DEF LinesRight
  <2>3. BothParts(g.lines, t, S, Q, a, m)
    BY <1>3, <1>4, <2>2, SignedRight, Zenon
  <2> QED
    BY <2>3, Zenon DEF BothParts
<1>16. ASSUME g.oldStart = 0 PROVE a = 0
  <2>1. StartsAt(g.oldStart, S, h)
    BY <1>2, Zenon DEF g, HunkPatch, S, Source
  <2>2. TopOnly(d, S, h)
    BY <1>16, <2>1, AtTheTop, Zenon DEF S
  <2> QED
    BY <1>16, <2>1, <2>2 DEF TopOnly, a
<1>17. HunkOf(g, t, S, Q, a, h.last)
  BY <1>4, <1>8, <1>16, Zenon DEF HunkOf, Replaced, Replacement
<1>18. ASSUME ~HasChange(g), NEW p \in h.first..h.last PROVE Alike(S, Q, p)
  <2> DEFINE i == p - a
  <2>1. i \in 1..m /\ a + i = p
    BY <1>2, <1>4
  <2> HIDE DEF i
  <2>2. ~Changed(g.lines[i])
    BY <1>5, <1>18, <2>1, Zenon DEF HasChange
  <2> QED
    BY <1>7, <2>1, <2>2, Zenon DEF Alike
<1> QED
  BY <1>17, <1>18 DEF g, S, Q, t, a

\* The files differ in the hunks only.
LEMMA OutsideAlike ==
  ASSUME NEW d, DiffOfGit(d), NEW side \in Sides, NEW s, NEW p,
         ~Alike(Source(d, side), Target(d, side, s), p)
  PROVE  \E k \in 1..Len(d.hunks) : p \in d.hunks[k].first..d.hunks[k].last
<1>1. p \in DOMAIN d.script
  BY DEF Alike, Source, Target, OldLines, NewLines
<1>2. d.script[p].type # "Context"
  <2>1. SUFFICES ASSUME d.script[p].type = "Context"
                 PROVE  p \in Source(d, side) /\ p \in Target(d, side, s)
    BY DEF Alike
  <2> QED
    BY <1>1, <2>1 DEF Source, Target, OldLines, NewLines
<1>3. DOMAIN d.hunks = 1..Len(d.hunks)
  <2>1. DiffRight(d)
    BY DiffFacts, Zenon
  <2> QED
    BY <2>1, Zenon DEF DiffRight
<1> QED
  BY <1>1, <1>2, <1>3, Zenon DEF DiffOfGit

-----------------------------------------------------------------------------
(* A whole patch.  After the hunks up to k the script is done up to a line *)
(* b that is before the other hunks, and what the files differ in after it *)
(* is in those.                                                            *)
AllHunks(d, side, s) ==
  [k \in DOMAIN d.hunks |-> HunkPatch(d, side, s, d.hunks[k])]

Rest(hunks, k, S, Q, b) ==
  /\ \A j \in (k + 1)..Len(hunks) : b < hunks[j].first
  /\ \A p \in Nat : p > b /\ ~Alike(S, Q, p) =>
       \E j \in (k + 1)..Len(hunks) : p \in hunks[j].first..hunks[j].last

DoneUpTo(d, side, s, J, k) ==
  LET t == Contents(d.script)
      S == Source(d, side)
      Q == Target(d, side, s)
      all == AllHunks(d, side, s)
      acc == Applying(Kept(t, S), Kept(all, J))[Len(Kept(all, J \cap 1..k))]
  IN  \E b \in 0..Len(d.script) : Rest(d.hunks, k, S, Q, b) /\ DoneTo(acc, t, S, Q, b)

\* The place of a hunk in the patch.
NthKept(all, J, k) ==
  LET n == Len(Kept(all, J \cap 1..k))
  IN  /\ n \in 1..Len(Kept(all, J)) /\ n - 1 = Len(Kept(all, J \cap 1..(k - 1)))
      /\ Kept(all, J)[n] = all[k]

LEMMA KeptNth ==
  ASSUME NEW X, NEW all \in Seq(X), NEW J, NEW k \in J, k \in 1..Len(all)
  PROVE  NthKept(all, J, k)
<1> DEFINE N == Len(all)
           u == Kept(all, J \cap 1..(k - 1))
           v == Kept(all, J \cap 1..k)
           z == Kept(all, J \cap (k + 1)..N)
           patch == Kept(all, J)
<1>1. Stepwise(all, J)
  BY KeptSteps, Zenon
<1>2. u \in Seq(X) /\ v \in Seq(X) /\ z \in Seq(X)
  BY KeptIn
<1>3. 0 \in Nat /\ k \in Nat /\ N \in Nat /\ 0 <= k /\ k <= N /\ 0 + 1 = 1
  OBVIOUS
<1>4. Cuts(all, J, 0, k, N)
  BY <1>3, KeptCut
<1>5. Kept(all, J \cap 1..N) = patch
  <2>1. (J \cap 1..N) \cap 1..Len(all) = J \cap 1..Len(all)
    OBVIOUS
  <2> QED
    BY <2>1, KeptSame, Zenon
<1>6. patch = v \o z
  BY <1>3, <1>4, <1>5 DEF Cuts
<1>7. v = Append(u, all[k]) /\ all[k] \in X
  BY <1>1 DEF Stepwise
<1> HIDE DEF u, v, z, patch, N
<1> DEFINE n == Len(v)
           g == all[k]
<1>8. Len(u) \in Nat /\ n = Len(u) + 1 /\ v[n] = g
  BY <1>2, <1>7
<1>9. Len(patch) = n + Len(z) /\ Len(z) \in Nat /\ n \in 1..n /\ patch[n] = v[n]
  <2>1. /\ Len(v \o z) = Len(v) + Len(z)
        /\ \A i \in 1..(Len(v) + Len(z)) : (v \o z)[i] = IF i <= Len(v) THEN v[i] ELSE z[i - Len(v)]
    BY <1>2, ConcatProperties
  <2>2. Len(z) \in Nat /\ n \in 1..n /\ n \in 1..(Len(v) + Len(z)) /\ n <= Len(v)
    BY <1>2, <1>8
  <2> QED
    BY <1>6, <2>1, <2>2
<1> HIDE DEF n, g
<1>10. n \in 1..Len(patch) /\ n - 1 = Len(u) /\ patch[n] = g
  BY <1>8, <1>9
<1> QED
  BY <1>10, Zenon DEF NthKept, n, v, u, patch, g

\* Where the hunks lie.
HunksLie(hunks, n) ==
  /\ Len(hunks) \in Nat
  /\ \A k \in 1..Len(hunks) :
       /\ hunks[k].first \in Nat \ {0} /\ hunks[k].last \in hunks[k].first..n
       /\ \A j \in 1..(k - 1) : hunks[j].last < hunks[k].first

LEMMA HunksPlaced ==
  ASSUME NEW d, DiffOfGit(d)
  PROVE  HunksLie(d.hunks, Len(d.script))
<1>1. DiffRight(d)
  BY DiffFacts, Zenon
<1>2. Len(d.hunks) \in Nat
  BY <1>1, Zenon DEF DiffRight
<1>3. ASSUME NEW k \in 1..Len(d.hunks)
      PROVE  /\ d.hunks[k].first \in Nat \ {0} /\ d.hunks[k].last \in d.hunks[k].first..Len(d.script)
             /\ \A j \in 1..(k - 1) : d.hunks[j].last + 1 < d.hunks[k].first
  <2>1. HunkRight(d, k, d.hunks[k])
    BY HunkFacts, Zenon
  <2> QED
    BY <2>1, Zenon DEF HunkRight
<1>4. ASSUME NEW k \in 1..Len(d.hunks), NEW j \in 1..(k - 1)
      PROVE  d.hunks[j].last < d.hunks[k].first
  <2> DEFINE f == d.hunks[j].first
             l == d.hunks[j].last
             next == d.hunks[k].first
             n == Len(d.script)
  <2>1. j \in 1..Len(d.hunks) /\ n \in Nat
    BY <1>1, <1>2 DEF DiffRight
  <2>2. f \in Nat \ {0} /\ l \in f..n /\ next \in Nat \ {0} /\ l + 1 < next
    BY <1>3, <2>1
  <2> HIDE DEF f, l, next, n
  <2>3. l < next
    BY <2>1, <2>2
  <2> QED
    BY <2>3 DEF l, next
<1> QED
  BY <1>2, <1>3, <1>4, Zenon DEF HunksLie

LEMMA RestFirst ==
  ASSUME NEW hunks, NEW n \in Nat, HunksLie(hunks, n), NEW S, NEW Q,
         \A p : ~Alike(S, Q, p) => \E k \in 1..Len(hunks) : p \in hunks[k].first..hunks[k].last
  PROVE  Rest(hunks, 0, S, Q, 0)
<1>1. ASSUME NEW j \in (0 + 1)..Len(hunks) PROVE 0 < hunks[j].first
  <2>1. j \in 1..Len(hunks)
    BY <1>1
  <2>2. hunks[j].first \in Nat \ {0}
    BY <2>1, Zenon DEF HunksLie
  <2> QED
    BY <2>2
<1>2. (0 + 1)..Len(hunks) = 1..Len(hunks)
  OBVIOUS
<1> QED
  BY <1>1, <1>2, Zenon DEF Rest

\* past a hunk
Passes(hunks, k, S, Q, b) ==
  /\ b \in 0..(hunks[k].first - 1)
  /\ S \cap (b + 1)..(hunks[k].first - 1) = Q \cap (b + 1)..(hunks[k].first - 1)
  /\ Rest(hunks, k, S, Q, hunks[k].last)
  /\ (\A p \in hunks[k].first..hunks[k].last : Alike(S, Q, p)) => Rest(hunks, k, S, Q, b)

LEMMA RestNext ==
  ASSUME NEW hunks, NEW n \in Nat, HunksLie(hunks, n), NEW S, NEW Q,
         NEW k \in 1..Len(hunks), NEW b \in 0..n, Rest(hunks, k - 1, S, Q, b)
  PROVE  Passes(hunks, k, S, Q, b)
<1> DEFINE N == Len(hunks)
           F(j) == hunks[j].first
           L(j) == hunks[j].last
<1>1. N \in Nat /\ (k - 1) + 1 = k
  BY DEF HunksLie
<1>2. \A j \in k..N : b < F(j)
  BY <1>1 DEF Rest
<1>3. \A p \in Nat : p > b /\ ~Alike(S, Q, p) => \E j \in k..N : p \in F(j)..L(j)
  BY <1>1 DEF Rest
<1>4. \A j \in 1..N : F(j) \in Nat \ {0} /\ L(j) \in F(j)..n /\ L(j) \in Nat /\ F(j) <= L(j)
  <2> TAKE j \in 1..N
  <2>1. F(j) \in Nat \ {0} /\ L(j) \in F(j)..n
    BY DEF HunksLie
  <2> HIDE DEF F, L
  <2> QED
    BY <2>1
<1>5. \A j \in (k + 1)..N : L(k) < F(j)
  <2> TAKE j \in (k + 1)..N
  <2>1. j \in 1..N /\ k \in 1..(j - 1)
    BY <1>1
  <2> QED
    BY <2>1, Zenon DEF HunksLie
<1>6. \A j \in k..N : j = k \/ j \in (k + 1)..N
  BY <1>1
<1>7. \A j \in (k + 1)..N : j \in 1..N /\ j \in k..N
  BY <1>1
<1>8. k \in k..N
  BY <1>1
<1> HIDE DEF N, F, L
<1>9. b < F(k) /\ F(k) \in Nat \ {0} /\ L(k) \in Nat /\ F(k) <= L(k) /\ b \in Nat
  BY <1>2, <1>4, <1>8 DEF N
<1>10. b \in 0..(F(k) - 1)
  BY <1>9
<1>11. ASSUME NEW p \in (b + 1)..(F(k) - 1) PROVE Alike(S, Q, p)
  <2>1. p \in Nat /\ p > b /\ p < F(k)
    BY <1>9, <1>11
  <2>2. SUFFICES ASSUME ~Alike(S, Q, p) PROVE FALSE
    OBVIOUS
  <2>3. PICK j \in k..N : p \in F(j)..L(j)
    BY <1>3, <2>1, <2>2
  <2>4. CASE j = k
    BY <1>9, <2>1, <2>3, <2>4
  <2>5. CASE j \in (k + 1)..N
    <3>1. L(k) < F(j) /\ F(j) \in Nat
      BY <1>4, <1>5, <1>7, <2>5
    <3> QED
      BY <1>9, <2>1, <2>3, <3>1
  <2> QED
    BY <1>6, <2>4, <2>5
<1>12. S \cap (b + 1)..(F(k) - 1) = Q \cap (b + 1)..(F(k) - 1)
  BY <1>11, Zenon DEF Alike
<1>13. ASSUME NEW p \in Nat, p > L(k), ~Alike(S, Q, p)
       PROVE  \E j \in (k + 1)..N : p \in F(j)..L(j)
  <2>1. p > b
    BY <1>9, <1>13
  <2>2. PICK j \in k..N : p \in F(j)..L(j)
    BY <1>3, <1>13, <2>1
  <2>3. j # k
    BY <1>9, <1>13, <2>2
  <2> QED
    BY <1>6, <2>2, <2>3
<1>14. Rest(hunks, k, S, Q, L(k))
  BY <1>5, <1>13, Zenon DEF Rest, N, F, L
<1>15. ASSUME \A p \in F(k)..L(k) : Alike(S, Q, p) PROVE Rest(hunks, k, S, Q, b)
  <2>1. ASSUME NEW p \in Nat, p > b, ~Alike(S, Q, p) PROVE \E j \in (k + 1)..N : p \in F(j)..L(j)
    <3>1. PICK j \in k..N : p \in F(j)..L(j)
      BY <1>3, <2>1
    <3>2. j # k
      BY <1>15, <2>1, <3>1
    <3> QED
      BY <1>6, <3>1, <3>2
  <2>2. \A j \in (k + 1)..N : b < F(j)
    BY <1>2, <1>7
  <2> QED
    BY <2>1, <2>2, Zenon DEF Rest, N, F, L
<1> QED
  BY <1>10, <1>12, <1>14, <1>15 DEF Passes, F, L

\* The changed hunks of a patch, one after the other.
LEMMA DoneFirst ==
  ASSUME NEW d, DiffOfGit(d), NEW side \in Sides, NEW s, NEW J
  PROVE  DoneUpTo(d, side, s, J, 0)
<1> DEFINE t == Contents(d.script)
           S == Source(d, side)
           Q == Target(d, side, s)
           n == Len(d.script)
           all == AllHunks(d, side, s)
           old == Kept(t, S)
<1>1. t \in Seq(LineContents) /\ n \in Nat /\ DOMAIN d.hunks = 1..Len(d.hunks) /\ Len(d.hunks) \in Nat
  <2>1. DiffRight(d)
    BY DiffFacts, Zenon
  <2> QED
    BY <2>1, Zenon DEF DiffRight
<1>2. HunksLie(d.hunks, n)
  BY HunksPlaced, Zenon
<1>3. Rest(d.hunks, 0, S, Q, 0)
  <2>1. \A p : ~Alike(S, Q, p) =>
          \E k \in 1..Len(d.hunks) : p \in d.hunks[k].first..d.hunks[k].last
    BY OutsideAlike, Zenon
  <2> HIDE DEF S, Q, n
  <2> QED
    BY <1>1, <1>2, <2>1, RestFirst, Zenon
<1>4. \E X : all \in Seq(X)
  <2>1. all \in Seq({all[k] : k \in 1..Len(d.hunks)})
    BY <1>1 DEF AllHunks
  <2> QED
    BY <2>1, Zenon
<1> HIDE DEF all, t, S, Q, n, old
<1>5. Kept(all, J \cap 1..0) = <<>>
  <2>1. (J \cap 1..0) \cap 1..Len(all) = {}
    OBVIOUS
  <2> QED
    BY <1>4, <2>1, KeptNone, Zenon
<1>6. Kept(t, Q \cap 1..0) = <<>> /\ Kept(t, S \cap (0 + 1)..Len(t)) = old
  <2>1. (Q \cap 1..0) \cap 1..Len(t) = {}
    OBVIOUS
  <2>2. (S \cap (0 + 1)..Len(t)) \cap 1..Len(t) = S \cap 1..Len(t)
    BY <1>1
  <2>3. Kept(t, Q \cap 1..0) = <<>>
    BY <1>1, <2>1, KeptNone, Zenon
  <2>4. Kept(t, S \cap (0 + 1)..Len(t)) = Kept(t, S)
    BY <1>1, <2>2, KeptSame, Zenon
  <2> QED
    BY <2>3, <2>4 DEF old
<1>7. old \in Seq(LineContents)
  BY <1>1, KeptIn, Zenon DEF old
<1>8. Mixed(t, S, Q, 0) = old
  <2>1. <<>> \o old = old
    BY <1>7
  <2> QED
    BY <1>6, <2>1 DEF Mixed
<1>9. DoneTo(Untouched(old), t, S, Q, 0)
  <2> DEFINE none == [i \in DOMAIN old |-> FALSE]
  <2>0. Len(old) \in Nat /\ DOMAIN old = 1..Len(old)
    BY <1>7
  <2>1. none \in Seq(BOOLEAN) /\ Len(none) = Len(old) /\ \A i \in 1..Len(old) : ~none[i]
    BY <2>0
  <2>2. Untouched(old) = [ok |-> TRUE, file |-> old, patched |-> none]
    BY DEF Untouched
  <2> HIDE DEF none
  <2>3. (0 + 1)..Len(old) = 1..Len(old) /\ Len(<<>>) = 0
    OBVIOUS
  <2> QED
    BY <1>6, <1>8, <2>1, <2>2, <2>3 DEF DoneTo
<1>10. Len(Kept(all, J \cap 1..0)) = 0
  BY <1>5
<1>11. Applying(old, Kept(all, J))[0] = Untouched(old)
  <2>1. Len(Kept(all, J)) \in Nat
    <3>1. PICK X : all \in Seq(X)
      BY <1>4
    <3>2. Kept(all, J) \in Seq(X)
      BY <3>1, KeptIn, Zenon
    <3> QED
      BY <3>2
  <2>2. Steadily(Applying(old, Kept(all, J)), old, Kept(all, J))
    BY <2>1, ApplyingIs, Zenon
  <2> QED
    BY <2>2 DEF Steadily
<1>12. 0 \in 0..n
  BY <1>1
<1>13. DoneTo(Applying(old, Kept(all, J))[Len(Kept(all, J \cap 1..0))], t, S, Q, 0)
  BY <1>9, <1>10, <1>11
<1> QED
  BY <1>3, <1>12, <1>13, Zenon DEF DoneUpTo, all, t, S, Q, n, old

LEMMA DoneNext ==
  ASSUME NEW d, DiffOfGit(d), NEW side \in Sides, NEW s, NEW J,
         J = {k \in DOMAIN d.hunks : HasChange(AllHunks(d, side, s)[k])},
         OnePlace(Kept(Contents(d.script), Source(d, side)), Kept(AllHunks(d, side, s), J)),
         NEW k \in 1..Len(d.hunks), DoneUpTo(d, side, s, J, k - 1)
  PROVE  DoneUpTo(d, side, s, J, k)
<1> DEFINE t == Contents(d.script)
           S == Source(d, side)
           Q == Target(d, side, s)
           n == Len(d.script)
           all == AllHunks(d, side, s)
           h == d.hunks[k]
           g == HunkPatch(d, side, s, h)
           old == Kept(t, S)
           X == {all[j] : j \in 1..Len(d.hunks)}
           a == h.first - 1
           l == h.last
           patch == Kept(all, J)
           acc(i) == Applying(old, patch)[Len(Kept(all, J \cap 1..i))]
           Further(c) == Rest(d.hunks, k, S, Q, c) /\ DoneTo(acc(k), t, S, Q, c)
<1>1. /\ t \in Seq(LineContents) /\ Len(t) = n /\ n \in Nat
      /\ DOMAIN d.hunks = 1..Len(d.hunks) /\ Len(d.hunks) \in Nat
  <2>1. DiffRight(d)
    BY DiffFacts, Zenon
  <2> QED
    BY <2>1, Zenon DEF DiffRight
<1>2. HunksLie(d.hunks, n)
  BY HunksPlaced, Zenon
<1>3. all \in Seq(X) /\ Len(all) = Len(d.hunks) /\ all[k] = g
  BY <1>1 DEF AllHunks
<1>4. /\ HunkOf(g, t, S, Q, a, l)
      /\ ~HasChange(g) => \A p \in h.first..l : Alike(S, Q, p)
  BY HunkPatchRight, Zenon
<1>5. PICK b \in 0..n : Rest(d.hunks, k - 1, S, Q, b) /\ DoneTo(acc(k - 1), t, S, Q, b)
  BY Zenon DEF DoneUpTo
<1>6. OnePlace(old, patch)
  OBVIOUS
<1> HIDE DEF all, t, S, Q, n, g, old, X, patch
<1>7. /\ b \in 0..a /\ S \cap (b + 1)..a = Q \cap (b + 1)..a
      /\ Rest(d.hunks, k, S, Q, l)
      /\ (\A p \in h.first..l : Alike(S, Q, p)) => Rest(d.hunks, k, S, Q, b)
  <2>1. Passes(d.hunks, k, S, Q, b)
    BY <1>1, <1>2, <1>5, RestNext, Zenon
  <2> QED
    BY <2>1, Zenon DEF Passes
<1>8. h.first \in Nat \ {0} /\ l \in h.first..n
  BY <1>2, Zenon DEF HunksLie
<1>9. k \in J <=> HasChange(g)
  BY <1>1, <1>3 DEF all
<1>10. Stepwise(all, J) /\ k \in 1..Len(all)
  BY <1>3, KeptSteps, Zenon
<1>11. ASSUME k \in J PROVE \E c \in 0..n : Further(c)
  <2>1. NthKept(all, J, k)
    BY <1>10, <1>3, <1>11, KeptNth, Zenon
  <2> DEFINE m == Len(Kept(all, J \cap 1..k))
  <2>2. /\ m \in 1..Len(patch) /\ m - 1 = Len(Kept(all, J \cap 1..(k - 1)))
        /\ patch[m] = g
    BY <1>3, <2>1, Zenon DEF NthKept, patch
  <2> HIDE DEF m
  <2>3. patch \in Seq(X)
    BY <1>3, KeptIn, Zenon DEF patch
  <2>4. Len(patch) \in Nat /\ m \in DOMAIN patch
    BY <2>2, <2>3
  <2>5. acc(k) = ApplyHunk(acc(k - 1), g)
    <3>1. Steadily(Applying(old, patch), old, patch)
      BY <2>4, ApplyingIs, Zenon
    <3>2. Applying(old, patch)[m] = ApplyHunk(Applying(old, patch)[m - 1], patch[m])
      BY <2>2, <3>1, Zenon DEF Steadily
    <3> QED
      BY <2>2, <3>2 DEF m
  <2>6. FitsOnce(acc(k - 1), g)
    <3>1. FitsOnce(Applying(old, patch)[m - 1], patch[m])
      BY <1>6, <2>4, Zenon DEF OnePlace, FitsOnce
    <3> QED
      BY <2>2, <3>1
  <2>7. a \in 0..Len(t) /\ l \in a..Len(t) /\ l \in 0..n
    <3> DEFINE f == h.first
    <3> HIDE DEF f, l
    <3>1. f \in Nat \ {0} /\ l \in f..n
      BY <1>8 DEF f
    <3>2. f - 1 \in 0..Len(t) /\ l \in (f - 1)..Len(t) /\ l \in 0..n
      BY <1>1, <3>1
    <3> QED
      BY <3>2 DEF f
  <2> HIDE DEF a, l, acc
  <2>8. DoneTo(ApplyHunk(acc(k - 1), g), t, S, Q, l)
    BY <1>1, <1>4, <1>5, <1>7, <2>7, <2>6, HunkApplies, Zenon
  <2>9. l \in 0..n /\ Further(l)
    BY <1>7, <2>5, <2>7, <2>8, Zenon
  <2> HIDE DEF Further
  <2> QED
    BY <2>9, Zenon
<1>12. ASSUME k \notin J PROVE \E c \in 0..n : Further(c)
  <2>1. Kept(all, J \cap 1..k) = Kept(all, J \cap 1..(k - 1))
    BY <1>10, <1>12, Zenon DEF Stepwise
  <2>2. Rest(d.hunks, k, S, Q, b)
    BY <1>4, <1>7, <1>9, <1>12, Zenon
  <2>3. acc(k) = acc(k - 1)
    BY <2>1
  <2> HIDE DEF acc
  <2> QED
    BY <1>5, <2>2, <2>3
<1>13. \E c \in 0..n : Further(c)
  BY <1>11, <1>12
<1> QED
  BY <1>13, Zenon DEF DoneUpTo, all, t, S, Q, n, old, patch

(* A patch that is made of a diff applies to the version of the file it is *)
(* for, and what comes out has the changes that are selected and no other  *)

LEMMA KeptEmpty ==
  ASSUME NEW X, NEW t \in Seq(X), NEW I, I \subseteq 1..Len(t), Kept(t, I) = <<>>
  PROVE  I = {}
<1>1. CountsKept(t, I) /\ Len(t) \in Nat /\ Len(t) \in 0..Len(t)
  BY KeptLen
<1>2. I \cap 1..Len(t) = I /\ Len(<<>>) = 0
  OBVIOUS
<1>3. Len(Kept(t, I)) = Cardinality(I) /\ IsFiniteSet(I)
  BY <1>1, <1>2 DEF CountsKept
<1> QED
  BY <1>2, <1>3, FS_EmptySet

(* A patch that is made of a diff applies to the version of the file it is *)
(* for, and what comes out has the changes that are selected and no other, *)
(* whatever other hunks leave out, when the lines of a hunk are found in   *)
(* one place and no line without a newline comes before another            *)
(* (patch-formatter.ts:129-335).                                           *)
THEOREM PatchApplies ==
  ASSUME NEW d, DiffOfGit(d), NEW side \in Sides, NEW s,
         OnePlace(Kept(Contents(d.script), Source(d, side)), PatchOf(d, side, s)),
         WellEnded(Kept(Contents(d.script), Target(d, side, s)))
  PROVE  Apply(Kept(Contents(d.script), Source(d, side)), PatchOf(d, side, s))
           = Kept(Contents(d.script), Target(d, side, s))
<1> DEFINE t == Contents(d.script)
           S == Source(d, side)
           Q == Target(d, side, s)
           n == Len(d.script)
           N == Len(d.hunks)
           all == AllHunks(d, side, s)
           old == Kept(t, S)
           patch == PatchOf(d, side, s)
           J == {k \in DOMAIN d.hunks : HasChange(all[k])}
           P == {k \in 0..N : DoneUpTo(d, side, s, J, k)}
<1>1. /\ t \in Seq(LineContents) /\ Len(t) = n /\ n \in Nat
      /\ DOMAIN d.hunks = 1..N /\ N \in Nat
  <2>1. DiffRight(d)
    BY DiffFacts, Zenon
  <2> QED
    BY <2>1, Zenon DEF DiffRight
<1>2. DOMAIN all = DOMAIN d.hunks
  BY DEF AllHunks
<1>3. patch = Kept(all, J)
  <2>1. patch = Kept(all, {k \in DOMAIN all : HasChange(all[k])})
    BY DEF PatchOf, HasChange, AllHunks
  <2> QED
    BY <1>2, <2>1
<1>4. OnePlace(old, Kept(all, J))
  BY <1>3
<1>5. \E X : all \in Seq(X)
  <2>1. all \in Seq({all[k] : k \in 1..N})
    BY <1>1 DEF AllHunks
  <2> QED
    BY <2>1, Zenon
<1>6. 0 \in P
  BY <1>1, DoneFirst
<1>7. ASSUME NEW k \in 1..N, k - 1 \in P PROVE k \in P
  <2>1. DoneUpTo(d, side, s, J, k - 1) /\ k \in 0..N
    BY <1>7
  <2>2. DoneUpTo(d, side, s, J, k)
    BY <1>4, <2>1, DoneNext, Zenon
  <2> QED
    BY <2>1, <2>2
<1>8. DoneUpTo(d, side, s, J, N)
  <2> HIDE DEF P
  <2>1. \A k \in 0..N : k \in P
    BY <1>1, <1>6, <1>7, UpTo
  <2>2. N \in 0..N
    BY <1>1
  <2> QED
    BY <2>1, <2>2 DEF P
<1> DEFINE end == Applying(old, patch)[Len(patch)]
<1>9. J \cap 1..N = J
  BY <1>1
<1>10. PICK b \in 0..n : Rest(d.hunks, N, S, Q, b) /\ DoneTo(end, t, S, Q, b)
  BY <1>3, <1>8, <1>9, Zenon DEF DoneUpTo
<1>11. Apply(old, patch) = IF end.ok THEN AsFile(end.file) ELSE Failed
  BY DEF Apply
<1> HIDE DEF J, all, patch, old, P, S, Q, t, n, end
<1>12. end.ok /\ end.file = Mixed(t, S, Q, b)
  BY <1>10 DEF DoneTo
<1>13. S \cap (b + 1)..n = Q \cap (b + 1)..n
  <2>1. ASSUME NEW p \in (b + 1)..n PROVE Alike(S, Q, p)
    <3>1. p \in Nat /\ p > b
      BY <1>1, <1>10, <2>1
    <3>2. (N + 1)..Len(d.hunks) = {}
      BY <1>1
    <3> QED
      BY <1>10, <3>1, <3>2 DEF Rest
  <2> QED
    BY <2>1, Zenon DEF Alike
<1>14. 0 \in Nat /\ b \in Nat /\ n \in Nat /\ 0 <= b /\ b <= n /\ 0 + 1 = 1
  BY <1>1, <1>10
<1>15. Cuts(t, Q, 0, b, n)
  BY <1>1, <1>14, KeptCut
<1>16. Kept(t, Q \cap 1..n) = Kept(t, Q)
  <2>1. (Q \cap 1..n) \cap 1..Len(t) = Q \cap 1..Len(t)
    BY <1>1
  <2> QED
    BY <1>1, <2>1, KeptSame, Zenon
<1>17. Mixed(t, S, Q, b) = Kept(t, Q)
  BY <1>1, <1>13, <1>14, <1>15, <1>16 DEF Cuts, Mixed
<1>18. WellEnded(Kept(t, Q))
  BY DEF t, Q
<1>19. Apply(old, patch) = Kept(t, Q)
  BY <1>11, <1>12, <1>17, <1>18 DEF AsFile
<1> QED
  BY <1>19 DEF old, patch, t, S, Q

-----------------------------------------------------------------------------
\* The lines of a selection that are chosen, out of those it may choose.
Those(s) == IF s.selectable = Unknown THEN Lines ELSE s.selectable

ChosenOf(s) == {line \in Those(s) : IsSelected(s, line)}

\* Lines that diverge can be selected.
WellFormed(s) == s \in Selection /\ s.diverging \subseteq Those(s)

(* The type of a selection says whether all of its lines are chosen, or    *)
(* none (diff-selection.ts:87-119).                                        *)
LEMMA TypeTrue ==
  ASSUME NEW s, WellFormed(s)
  PROVE  /\ SelectionType(s) \in {"All", "None", "Partial"}
         /\ SelectionType(s) = "All" => ChosenOf(s) = Those(s)
         /\ SelectionType(s) = "None" => ChosenOf(s) = {}
BY UnknownAssumption DEF WellFormed, Selection, SelectionType, ChosenOf, Those, IsSelected, Other

(* A click on a range of lines, or off it, changes exactly the choice of   *)
(* the lines that can be chosen in it, however the set of chosen lines is  *)
(* kept (diff-selection.ts:232-282).                                       *)
THEOREM RangeExact ==
  ASSUME NEW s, WellFormed(s), NEW range \in SUBSET Lines, NEW selected \in BOOLEAN
  PROVE  LET t == WithRange(s, range, selected)
         IN  /\ WellFormed(t) /\ Those(t) = Those(s)
             /\ selected => ChosenOf(t) = ChosenOf(s) \cup (range \cap Those(s))
             /\ ~selected => ChosenOf(t) = ChosenOf(s) \ range
<1> DEFINE t == WithRange(s, range, selected)
           asked == {line \in range : IsSelectable(s, line)}
<1>1. SelectionType(s) \in {"All", "None", "Partial"}
  BY TypeTrue
<1>2. /\ SelectionType(s) = "All" => ChosenOf(s) = Those(s)
      /\ SelectionType(s) = "None" => ChosenOf(s) = {}
  BY TypeTrue
<1>3. asked = range \cap Those(s)
  BY UnknownAssumption DEF WellFormed, Selection, IsSelectable, Those
<1>4. CASE SelectionType(s) = TypeOf(selected)
  <2>1. t = s
    BY <1>4 DEF WithRange
  <2> QED
    BY <2>1, <1>2, <1>4, Zenon DEF TypeOf, ChosenOf
<1>5. CASE SelectionType(s) # TypeOf(selected) /\ SelectionType(s) # "Partial"
  <2>1. t = [s EXCEPT !.base = SelectionType(s), !.diverging = asked]
    BY <1>5 DEF WithRange, FromWhole
  <2>2. t.base = SelectionType(s) /\ t.diverging = asked /\ t.selectable = s.selectable
    BY <2>1 DEF WellFormed, Selection
  <2>3. WellFormed(t) /\ Those(t) = Those(s)
    BY <2>1, <2>2, <1>1, <1>3, <1>5 DEF WellFormed, Selection, Those
  <2>4. CASE selected
    <3>1. t.base = "None" /\ ChosenOf(s) = {}
      BY <2>2, <2>4, <1>1, <1>2, <1>5 DEF TypeOf
    <3> QED
      BY <3>1, <2>2, <2>3, <2>4, <1>3 DEF ChosenOf, IsSelected
  <2>5. CASE ~selected
    <3>1. t.base = "All" /\ ChosenOf(s) = Those(s)
      BY <2>2, <2>5, <1>1, <1>2, <1>5 DEF TypeOf
    <3> QED
      BY <3>1, <2>2, <2>3, <2>5, <1>3 DEF ChosenOf, IsSelected
  <2> QED
    BY <2>4, <2>5
<1>6. CASE SelectionType(s) = "Partial" /\ s.base = TypeOf(selected)
  <2>1. t = [s EXCEPT !.diverging = @ \ range]
    BY <1>6 DEF WithRange, TypeOf
  <2>2. t.base = s.base /\ t.diverging = s.diverging \ range /\ t.selectable = s.selectable
    BY <2>1 DEF WellFormed, Selection
  <2>3. WellFormed(t) /\ Those(t) = Those(s)
    BY <2>1, <2>2 DEF WellFormed, Selection, Those
  <2> QED
    BY <2>2, <2>3, <1>6 DEF ChosenOf, IsSelected, TypeOf
<1>7. CASE SelectionType(s) = "Partial" /\ s.base # TypeOf(selected)
  <2>1. t = [s EXCEPT !.diverging = @ \cup asked]
    BY <1>7 DEF WithRange, TypeOf
  <2>2. t.base = s.base /\ t.diverging = s.diverging \cup asked /\ t.selectable = s.selectable
    BY <2>1 DEF WellFormed, Selection
  <2>3. WellFormed(t) /\ Those(t) = Those(s)
    BY <2>1, <2>2, <1>3 DEF WellFormed, Selection, Those
  <2>4. s.base \in {"All", "None"}
    BY DEF WellFormed, Selection
  <2> QED
    BY <2>2, <2>3, <2>4, <1>3, <1>7 DEF ChosenOf, IsSelected, TypeOf
<1> QED
  BY <1>1, <1>4, <1>5, <1>6, <1>7
-----------------------------------------------------------------------------
(* Only lines that can be chosen diverge from the base, diffs are diffs,   *)
(* and the lines a selection knows are those of the diff that is shown.    *)
PartialInv ==
  /\ WellFormed(selection)
  /\ disk \in Diffs /\ shown \in Diffs \cup {Unknown}
  /\ selection.selectable # Unknown => /\ shown # Unknown
                                       /\ selection.selectable = Includeable(shown)

LEMMA PartialInitInv == PartialInit => PartialInv
BY DEF PartialInit, PartialInv, WellFormed, Selection, Fresh, Those

(* What every operation on the selection does to the choice.               *)
Ties ==
  /\ \A from, to \in Lines :
       /\ IncludeLines(from, to, TRUE) => Chosen!Choose(from, to)
       /\ IncludeLines(from, to, FALSE) => Chosen!Unchoose(from, to)
  /\ IncludeFile(TRUE) => Chosen!ChooseAll
  /\ IncludeFile(FALSE) => Chosen!ChooseNone
  /\ LoadDiff => Chosen!Renew
  /\ ClearPartial => Chosen!Forget

(* Each step keeps the invariant and is a step of ChosenLines or changes   *)
(* neither the lines nor the choice.                                       *)
LEMMA PartialStep ==
  ASSUME PartialInv, [PartialNext]_partialVars
  PROVE  PartialInv' /\ [Chosen!Next]_<<SelectableLines, ChosenLines>> /\ Ties
<1> USE DEF PartialInv
<1>0. /\ SelectableLines = Those(selection) /\ SelectableLines' = Those(selection')
      /\ ChosenLines = ChosenOf(selection) /\ ChosenLines' = ChosenOf(selection')
  BY DEF SelectableLines, ChosenLines, Those, ChosenOf
<1>1. ASSUME NEW selected \in BOOLEAN, IncludeFile(selected)
      PROVE  /\ PartialInv'
             /\ selected => Chosen!ChooseAll
             /\ ~selected => Chosen!ChooseNone
  <2>1. selection' = [selection EXCEPT !.base = TypeOf(selected), !.diverging = {}]
    BY <1>1 DEF IncludeFile, WithAll
  <2>2. PartialInv' /\ Those(selection') = Those(selection)
    BY <1>1, <2>1 DEF IncludeFile, WellFormed, Selection, TypeOf, Those
  <2>3. selection'.base = TypeOf(selected) /\ selection'.diverging = {}
    BY <2>1 DEF WellFormed, Selection
  <2>4. ChosenOf(selection') = IF selected THEN Those(selection) ELSE {}
    BY <2>2, <2>3 DEF TypeOf, ChosenOf, IsSelected
  <2> QED
    BY <2>2, <2>4, <1>0 DEF Chosen!ChooseAll, Chosen!ChooseNone
<1>2. ASSUME NEW from \in Lines, NEW to \in Lines, NEW selected \in BOOLEAN,
             IncludeLines(from, to, selected)
      PROVE  /\ PartialInv'
             /\ selected => Chosen!Choose(from, to)
             /\ ~selected => Chosen!Unchoose(from, to)
  <2>1. from..to \in SUBSET Lines
    BY LinesAssumption
  <2>2. selection' = WithRange(selection, from..to, selected) /\ UNCHANGED <<disk, shown>>
    BY <1>2 DEF IncludeLines
  <2>3. /\ WellFormed(selection') /\ Those(selection') = Those(selection)
        /\ selected => ChosenOf(selection') =
                         ChosenOf(selection) \cup ((from..to) \cap Those(selection))
        /\ ~selected => ChosenOf(selection') = ChosenOf(selection) \ (from..to)
    BY <2>1, <2>2, RangeExact, Zenon
  <2>4. selection'.selectable = selection.selectable
    BY <2>2 DEF WithRange, FromWhole, WellFormed, Selection
  <2>5. selected => Chosen!Choose(from, to)
    BY <2>3, <1>0 DEF Chosen!Choose
  <2>6. ~selected => Chosen!Unchoose(from, to)
    BY <2>3, <1>0 DEF Chosen!Unchoose
  <2> QED
    BY <2>2, <2>3, <2>5, <2>6, <2>4
<1>3. ASSUME LoadDiff PROVE PartialInv' /\ Chosen!Renew
  <2> DEFINE lines == Includeable(disk)
  <2>1. selection' = [selection EXCEPT !.diverging = @ \cap lines, !.selectable = lines]
    BY <1>3 DEF LoadDiff, WithSelectable
  <2>2. lines \subseteq Lines
    BY DiffsAssumption, Zenon DEF DiffOfGit
  <2>3. /\ selection'.base = selection.base /\ selection'.selectable = lines
        /\ selection'.diverging = selection.diverging \cap lines
    BY <2>1 DEF WellFormed, Selection
  <2>4. PartialInv' /\ Those(selection') = lines
    <3>1. WellFormed(selection') /\ Those(selection') = lines
      <4> HIDE DEF lines
      <4> QED
        BY <2>1, <2>2, <2>3, UnknownAssumption DEF WellFormed, Selection, Those
    <3>2. shown' = disk /\ disk' = disk /\ disk # Unknown
      BY <1>3, UnknownAssumption DEF LoadDiff
    <3>3. selection'.selectable = Includeable(shown')
      BY <2>3, <3>2
    <3> QED
      BY <3>1, <3>2, <3>3
  <2>5. ChosenOf(selection') \cap Those(selection) = ChosenOf(selection) \cap lines
    <3> HIDE DEF lines
    <3> QED
      BY <2>3, <2>4 DEF ChosenOf, IsSelected
  <2>6. ChosenOf(selection') \subseteq Those(selection')
    BY DEF ChosenOf
  <2> QED
    BY <2>4, <2>5, <2>6, <1>0 DEF Chosen!Renew
<1>4. ASSUME ClearPartial PROVE PartialInv' /\ Chosen!Forget
  <2>1. selection' = Fresh("None") /\ UNCHANGED <<disk, shown>>
    BY <1>4 DEF ClearPartial
  <2>2. PartialInv' /\ ChosenOf(selection') = {} /\ Those(selection') = Lines
    BY <2>1 DEF WellFormed, Selection, Fresh, Those, ChosenOf, IsSelected
  <2> QED
    BY <2>2, <1>0 DEF Chosen!Forget
<1>5. ASSUME UNCHANGED <<selection, shown>>, disk' \in Diffs
      PROVE  PartialInv' /\ UNCHANGED <<SelectableLines, ChosenLines>>
  BY <1>5, <1>0
<1>6. ASSUME NEW from \in Lines, NEW to \in Lines, Discard(from, to)
      PROVE  PartialInv' /\ UNCHANGED <<SelectableLines, ChosenLines>>
  BY <1>5, <1>6 DEF Discard
<1>7. ASSUME NEW new \in Diffs, ChangeFile(new)
      PROVE  PartialInv' /\ UNCHANGED <<SelectableLines, ChosenLines>>
  BY <1>5, <1>7 DEF ChangeFile
<1>8. ASSUME Commit PROVE PartialInv' /\ UNCHANGED <<SelectableLines, ChosenLines>>
  BY <1>5, <1>8 DEF Commit
<1>9. ASSUME UNCHANGED partialVars PROVE PartialInv' /\ UNCHANGED <<SelectableLines, ChosenLines>>
  BY <1>5, <1>9 DEF partialVars
<1>10. Ties
  BY <1>1, <1>2, <1>3, <1>4 DEF Ties
<1> QED
  BY <1>1, <1>2, <1>3, <1>4, <1>6, <1>7, <1>8, <1>9, <1>10 DEF PartialNext, Chosen!Next

(* The selection keeps its type, and only lines that can be chosen diverge. *)
THEOREM PartialInvariance == PartialSpec => []PartialInv
<1>1. PartialInv /\ [PartialNext]_partialVars => PartialInv'
  BY PartialStep
<1> QED
  BY PartialInitInv, <1>1, PTL DEF PartialSpec

(* Type correctness of the selection and of the diffs.                     *)
THEOREM PartialTyped == PartialSpec => []PartialTypeOK
<1>1. PartialInv => PartialTypeOK
  BY DEF PartialInv, WellFormed, PartialTypeOK, SelectableLines, Those
<1> QED
  BY PartialInvariance, <1>1, PTL

(* The selection of a file implements the choice of lines the user sees: a *)
(* click chooses the lines it names, or gives them up, and no other.       *)
THEOREM SelectionChooses == PartialSpec => LinesChosen
<1> DEFINE A == /\ \A from, to \in Lines :
                     /\ IncludeLines(from, to, TRUE) => Chosen!Choose(from, to)
                     /\ IncludeLines(from, to, FALSE) => Chosen!Unchoose(from, to)
                /\ IncludeFile(TRUE) => Chosen!ChooseAll
                /\ IncludeFile(FALSE) => Chosen!ChooseNone
                /\ LoadDiff => Chosen!Renew
                /\ ClearPartial => Chosen!Forget
<1>1. PartialInit => Chosen!Init
  BY DEF PartialInit, Chosen!Init, ChosenLines
<1>2. PartialInv /\ [PartialNext]_partialVars => [Chosen!Next]_<<SelectableLines, ChosenLines>>
  BY PartialStep
<1>3. PartialInv /\ [PartialNext]_partialVars => [A]_partialVars
  BY PartialStep DEF Ties
<1>4. [][PartialNext]_partialVars /\ []PartialInv => [][A]_partialVars
  BY <1>3, PTL
<1> QED
  BY PartialInvariance, <1>1, <1>2, <1>4, PTL DEF PartialSpec, LinesChosen, Chosen!Spec

-----------------------------------------------------------------------------
(* What a commit and a discard do.                                         *)
LEMMA ChosenIndexes ==
  ASSUME NEW d, DiffOfGit(d), NEW p \in DOMAIN d.script,
         d.script[p].type # "Context"
  PROVE  d.script[p].index \in Includeable(d)
BY Zenon DEF Includeable

LEMMA TypesOfLines ==
  ASSUME NEW d, DiffOfGit(d), NEW p \in DOMAIN d.script
  PROVE  d.script[p].type \in {"Context", "Add", "Delete"}
<1>1. DiffRight(d)
  BY DiffFacts, Zenon
<1> QED
  BY <1>1, Zenon DEF DiffRight

\* The lines that are chosen, of those of the diff, are what is taken.
LEMMA TakenIsTarget ==
  ASSUME NEW d, DiffOfGit(d), NEW s, NEW lines,
         \A line \in Includeable(d) : line \in lines <=> IsSelected(s, line)
  PROVE  Taken(d, lines) = Target(d, "commit", s)
<1>1. ASSUME NEW p \in DOMAIN d.script
      PROVE  p \in Taken(d, lines) <=> p \in Target(d, "commit", s)
  <2> DEFINE l == d.script[p]
  <2>1. l.type \in {"Context", "Add", "Delete"}
    BY TypesOfLines
  <2>2. l.type # "Context" => (l.index \in lines <=> IsSelected(s, l.index))
    BY ChosenIndexes
  <2>3. /\ p \in Taken(d, lines) <=>
              \/ l.type = "Context"
              \/ l.type = "Add" /\ l.index \in lines
              \/ l.type = "Delete" /\ l.index \notin lines
        /\ p \in Target(d, "commit", s) <=>
              \/ l.type = "Context"
              \/ l.type = "Add" /\ IsSelected(s, l.index)
              \/ l.type \notin {"Context", "Add"} /\ ~IsSelected(s, l.index)
    BY DEF Taken, Target
  <2> HIDE DEF l
  <2> QED
    BY <2>1, <2>2, <2>3
<1>2. Taken(d, lines) \subseteq DOMAIN d.script /\ Target(d, "commit", s) \subseteq DOMAIN d.script
  BY DEF Taken, Target
<1> QED
  BY <1>1, <1>2, Zenon

\* Taking back lines leaves the others.
LEMMA OthersAreTarget ==
  ASSUME NEW d, DiffOfGit(d), NEW s, NEW range,
         \A line \in Includeable(d) : line \in range <=> IsSelected(s, line)
  PROVE  Taken(d, Includeable(d) \ range) = Target(d, "discard", s)
<1> DEFINE lines == Includeable(d) \ range
<1>1. ASSUME NEW p \in DOMAIN d.script
      PROVE  p \in Taken(d, lines) <=> p \in Target(d, "discard", s)
  <2> DEFINE l == d.script[p]
  <2>1. l.type \in {"Context", "Add", "Delete"}
    BY TypesOfLines
  <2>2. l.type # "Context" => (l.index \in lines <=> ~IsSelected(s, l.index))
    BY ChosenIndexes
  <2>3. p \in Taken(d, lines) <=>
          \/ l.type = "Context"
          \/ l.type = "Add" /\ l.index \in lines
          \/ l.type = "Delete" /\ l.index \notin lines
    BY DEF Taken
  <2>4. p \in Target(d, "discard", s) <=>
          \/ l.type = "Context"
          \/ l.type = "Delete" /\ IsSelected(s, l.index)
          \/ l.type \notin {"Context", "Delete"} /\ ~IsSelected(s, l.index)
    BY DEF Target
  <2> HIDE DEF l, lines
  <2> QED
    BY <2>1, <2>2, <2>3, <2>4
<1>2. Taken(d, lines) \subseteq DOMAIN d.script /\ Target(d, "discard", s) \subseteq DOMAIN d.script
  BY DEF Taken, Target
<1> QED
  BY <1>1, <1>2, Zenon

\* All lines are the new file.
LEMMA AllIsNew ==
  ASSUME NEW d, DiffOfGit(d)
  PROVE  New(d) = Taking(d, Includeable(d))
<1>1. ASSUME NEW p \in DOMAIN d.script
      PROVE  p \in Taken(d, Includeable(d)) <=> p \in NewLines(d)
  <2>1. d.script[p].type \in {"Context", "Add", "Delete"}
    BY TypesOfLines
  <2>2. d.script[p].type # "Context" => d.script[p].index \in Includeable(d)
    BY ChosenIndexes
  <2> QED
    BY <2>1, <2>2 DEF Taken, NewLines
<1>2. Taken(d, Includeable(d)) \subseteq DOMAIN d.script /\ NewLines(d) \subseteq DOMAIN d.script
  BY DEF Taken, NewLines
<1>3. Taken(d, Includeable(d)) = NewLines(d)
  BY <1>1, <1>2, Zenon
<1> QED
  BY <1>3 DEF New, Taking

\* A line that is chosen is a change of the patch.
LEMMA PatchHasChosen ==
  ASSUME NEW d, DiffOfGit(d), NEW s,
         NEW line \in Includeable(d), IsSelected(s, line)
  PROVE  FormatPatch(d, s) # <<>>
<1> DEFINE all == AllHunks(d, "commit", s)
           J == {k \in DOMAIN all : HasChange(all[k])}
<1>1. PICK p \in DOMAIN d.script : d.script[p].type # "Context" /\ d.script[p].index = line
  BY Zenon DEF Includeable
<1>2. d.script[p].type \in {"Add", "Delete"}
  BY <1>1, TypesOfLines
<1>3. PICK k \in DOMAIN d.hunks : p \in d.hunks[k].first..d.hunks[k].last
  BY <1>1, Zenon DEF DiffOfGit
<1> DEFINE h == d.hunks[k]
           i == p - h.first + 1
           g == HunkPatch(d, "commit", s, h)
<1>4. DOMAIN d.hunks = 1..Len(d.hunks) /\ Len(d.hunks) \in Nat
  <2>1. DiffRight(d)
    BY DiffFacts, Zenon
  <2> QED
    BY <2>1, Zenon DEF DiffRight
<1>5. HunkRight(d, k, h)
  BY <1>3, <1>4, HunkFacts, Zenon
<1>6. /\ h.first \in Nat \ {0} /\ h.last \in Int /\ h.unifiedDiffStart \in Nat
      /\ d.script[p].index = h.unifiedDiffStart + (p - h.first) + 1
  <2>1. /\ h.first \in Nat \ {0} /\ h.last \in h.first..Len(d.script) /\ h.unifiedDiffStart \in Nat
        /\ d.script[p].index = h.unifiedDiffStart + (p - h.first) + 1
    BY <1>3, <1>5, Zenon DEF HunkRight
  <2> QED
    BY <2>1
<1>7. /\ i \in 1..(h.last - h.first + 1) /\ h.first + i - 1 = p
      /\ h.unifiedDiffStart + i = h.unifiedDiffStart + (p - h.first) + 1
  <2> DEFINE f == h.first
             l == h.last
             u == h.unifiedDiffStart
  <2>1. f \in Nat \ {0} /\ l \in Int /\ u \in Nat /\ p \in f..l
    BY <1>3, <1>6
  <2> HIDE DEF f, l, u
  <2>2. /\ p - f + 1 \in 1..(l - f + 1) /\ f + (p - f + 1) - 1 = p
        /\ u + (p - f + 1) = u + (p - f) + 1
    BY <2>1
  <2> QED
    BY <2>2, Zenon DEF f, l, u
<1>8. HunkLine(d, "commit", s, h, i)
        = [sign |-> SignOf("commit", d.script[p].type, IsSelected(s, line)),
           text |-> d.script[p].text, noTrailingNewLine |-> d.script[p].noTrailingNewLine]
  <2> HIDE DEF h, i
  <2> QED
    BY <1>1, <1>6, <1>7, Zenon DEF HunkLine
<1>9. SignOf("commit", d.script[p].type, IsSelected(s, line)) \in {"+", "-"}
  <2> DEFINE type == d.script[p].type
             selected == IsSelected(s, line)
  <2>1. type \in {"Add", "Delete"} /\ selected = TRUE
    BY <1>2 DEF IsSelected
  <2> HIDE DEF type, selected
  <2>2. SignOf("commit", type, selected) = Sign(type)
    BY <2>1 DEF SignOf, PatchSign
  <2>3. Sign(type) \in {"+", "-"}
    BY DEF Sign
  <2> QED
    BY <2>2, <2>3, Zenon DEF type, selected
<1>10. Changed(HunkLine(d, "commit", s, h, i))
  <2> DEFINE new == HunkLine(d, "commit", s, h, i)
             sign == SignOf("commit", d.script[p].type, IsSelected(s, line))
             text == d.script[p].text
             mark == d.script[p].noTrailingNewLine
  <2>1. new = [sign |-> sign, text |-> text, noTrailingNewLine |-> mark] /\ sign \in {"+", "-"}
    BY <1>8, <1>9, Zenon
  <2> HIDE DEF new, sign, text, mark
  <2>2. new.sign \in {"+", "-"}
    BY <2>1
  <2> QED
    BY <2>2, Zenon DEF Changed, new
<1>11. i \in DOMAIN g.lines /\ g.lines[i] = HunkLine(d, "commit", s, h, i)
  <2> HIDE DEF i
  <2> QED
    BY <1>7 DEF HunkPatch
<1>12. k \in J
  <2>1. all[k] = g /\ k \in DOMAIN all
    BY <1>3 DEF AllHunks
  <2>2. HasChange(g)
    BY <1>10, <1>11, Zenon DEF HasChange
  <2> HIDE DEF all, g
  <2> QED
    BY <2>1, <2>2
<1>13. FormatPatch(d, s) = Kept(all, J)
  BY DEF FormatPatch, PatchOf, HasChange, AllHunks
<1>14. all \in Seq({all[j] : j \in 1..Len(d.hunks)}) /\ J \subseteq 1..Len(all)
  BY <1>4 DEF AllHunks
<1> HIDE DEF all, J
<1> QED
  BY <1>12, <1>13, <1>14, KeptEmpty, Zenon

\* A commit of the file that is shown.
LEMMA CommitTakes ==
  ASSUME PartialInv, shown = disk, selection.selectable # Unknown, Commit,
         OnePlace(Old(disk), FormatPatch(disk, selection)), WellEnded(Taking(disk, ChosenLines))
  PROVE  result' = Taking(disk, ChosenLines)
<1>1. /\ DiffOfGit(disk) /\ selection.selectable = Includeable(disk) /\ WellFormed(selection)
  BY DiffsAssumption DEF PartialInv
<1>2. ChosenLines = {line \in Includeable(disk) : IsSelected(selection, line)}
  BY <1>1 DEF ChosenLines, SelectableLines
<1>3. ChosenLines = ChosenOf(selection) /\ Those(selection) = Includeable(disk)
  BY <1>1 DEF ChosenLines, SelectableLines, ChosenOf, Those
<1>4. /\ SelectionType(selection) \in {"All", "None", "Partial"}
      /\ SelectionType(selection) = "All" => ChosenLines = Includeable(disk)
  BY <1>1, <1>3, TypeTrue
<1>5. SelectionType(selection) # "None"
  BY DEF Commit
<1>6. CASE SelectionType(selection) = "All"
  <2>1. result' = New(disk)
    BY <1>6 DEF Commit
  <2> QED
    BY <1>1, <1>4, <1>6, <2>1, AllIsNew, Zenon
<1>7. CASE SelectionType(selection) = "Partial"
  <2>1. \E line \in Includeable(disk) : IsSelected(selection, line)
    BY <1>1, <1>7 DEF SelectionType, WellFormed, Selection, Those, IsSelected, Other
  <2>2. FormatPatch(disk, selection) # <<>>
    BY <1>1, <2>1, PatchHasChosen, Zenon
  <2>3. result' = Apply(Old(disk), FormatPatch(disk, selection))
    BY <1>7, <2>2 DEF Commit
  <2>4. result' = Apply(Kept(Contents(disk.script), Source(disk, "commit")), PatchOf(disk, "commit", selection))
    BY <2>3 DEF Old, Source, FormatPatch
  <2>6. Taken(disk, ChosenLines) = Target(disk, "commit", selection)
    <3>1. \A line \in Includeable(disk) : line \in ChosenLines <=> IsSelected(selection, line)
      BY <1>2
    <3> QED
      BY <1>1, <3>1, TakenIsTarget, Zenon
  <2>5. result' = Kept(Contents(disk.script), Target(disk, "commit", selection))
    <3>1. "commit" \in Sides
      BY DEF Sides
    <3>2. OnePlace(Kept(Contents(disk.script), Source(disk, "commit")), PatchOf(disk, "commit", selection))
      BY DEF Old, Source, FormatPatch
    <3>3. WellEnded(Kept(Contents(disk.script), Target(disk, "commit", selection)))
      BY <2>6 DEF Taking
    <3> QED
      BY <1>1, <2>4, <3>1, <3>2, <3>3, PatchApplies, Zenon
  <2> QED
    BY <2>5, <2>6, Zenon DEF Taking
<1> QED
  BY <1>4, <1>5, <1>6, <1>7

\* A discard of lines of the file that is shown.
LEMMA DiscardTakesBack ==
  ASSUME PartialInv, shown = disk, NEW from \in Lines, NEW to \in Lines, Discard(from, to),
         OnePlace(New(disk), DiscardPatch(from, to)),
         WellEnded(Taking(disk, Includeable(disk) \ (from..to)))
  PROVE  result' = Taking(disk, Includeable(disk) \ (from..to))
<1> DEFINE s0 == WithAll(selection, FALSE)
           s == WithRange(s0, from..to, TRUE)
<1>1. DiffOfGit(disk) /\ WellFormed(selection) /\ Includeable(disk) \subseteq Lines
  BY DiffsAssumption, Zenon DEF PartialInv, DiffOfGit
<1>2. Includeable(disk) \subseteq Those(selection)
  BY <1>1 DEF PartialInv, Those
<1>3. /\ s0 = [selection EXCEPT !.base = "None", !.diverging = {}]
      /\ WellFormed(s0) /\ Those(s0) = Those(selection) /\ ChosenOf(s0) = {}
  <2>1. s0 = [selection EXCEPT !.base = "None", !.diverging = {}]
    BY DEF WithAll, TypeOf
  <2>2. s0.base = "None" /\ s0.diverging = {} /\ s0.selectable = selection.selectable
    BY <1>1, <2>1 DEF WellFormed, Selection
  <2>3. s0 \in Selection
    BY <1>1, <2>1 DEF WellFormed, Selection
  <2> HIDE DEF s0
  <2> QED
    BY <2>1, <2>2, <2>3 DEF WellFormed, Those, ChosenOf, IsSelected
<1>4. from..to \in SUBSET Lines
  BY LinesAssumption
<1> HIDE DEF s0
<1>5. Those(s) = Those(s0) /\ ChosenOf(s) = ChosenOf(s0) \cup ((from..to) \cap Those(s0))
  BY <1>3, <1>4, RangeExact, Zenon
<1>6. result' = Apply(New(disk), FormatPatchToDiscard(disk, s))
  BY DEF Discard, DiscardPatch, s0
<1> HIDE DEF s
<1>7. \A line \in Includeable(disk) : line \in from..to <=> IsSelected(s, line)
  BY <1>2, <1>3, <1>5 DEF ChosenOf
<1>8. result' = Apply(Kept(Contents(disk.script), Source(disk, "discard")), PatchOf(disk, "discard", s))
  BY <1>6 DEF New, Source, FormatPatchToDiscard
<1>10. Taken(disk, Includeable(disk) \ (from..to)) = Target(disk, "discard", s)
  BY <1>1, <1>7, OthersAreTarget, Zenon
<1>9. result' = Kept(Contents(disk.script), Target(disk, "discard", s))
  <2>1. "discard" \in Sides
    BY DEF Sides
  <2>2. OnePlace(Kept(Contents(disk.script), Source(disk, "discard")), PatchOf(disk, "discard", s))
    BY DEF New, Source, FormatPatchToDiscard, DiscardPatch, s, s0
  <2>3. WellEnded(Kept(Contents(disk.script), Target(disk, "discard", s)))
    BY <1>10 DEF Taking
  <2> QED
    BY <1>1, <1>8, <2>1, <2>2, <2>3, PatchApplies, Zenon
<1> QED
  BY <1>9, <1>10, Zenon DEF Taking

(* As long as the file is the one that is shown and its selection knows    *)
(* the lines, the patch of a commit applies and takes the lines that are   *)
(* chosen and no other, wherever it says that a hunk starts, when what a   *)
(* hunk replaces is found once and a last line without a newline stays the *)
(* last (patch-formatter.ts:129-232).                                      *)
THEOREM CommitIsExact == PartialSpec => CommitTakesChosen
<1> DEFINE A == /\ shown = disk /\ selection.selectable # Unknown /\ Commit
                /\ OnePlace(Old(disk), FormatPatch(disk, selection))
                /\ WellEnded(Taking(disk, ChosenLines))
                => result' = Taking(disk, ChosenLines)
<1>1. PartialInv => [A]_partialVars
  BY CommitTakes
<1>2. [][PartialNext]_partialVars /\ []PartialInv => [][A]_partialVars
  BY <1>1, PTL
<1> QED
  BY PartialInvariance, <1>2, PTL DEF PartialSpec, CommitTakesChosen

(* A discard leaves the file without the lines it names and with all other *)
(* changes, when the same holds (patch-formatter.ts:251-335).              *)
THEOREM DiscardIsExact == PartialSpec => DiscardLeavesOthers
<1> DEFINE A == shown = disk => \A from, to \in Lines :
                  LET left == Taking(disk, Includeable(disk) \ (from..to))
                  IN  /\ Discard(from, to)
                      /\ OnePlace(New(disk), DiscardPatch(from, to)) /\ WellEnded(left)
                      => result' = left
<1>1. PartialInv => [A]_partialVars
  BY DiscardTakesBack, Zenon
<1>2. [][PartialNext]_partialVars /\ []PartialInv => [][A]_partialVars
  BY <1>1, PTL
<1> QED
  BY PartialInvariance, <1>2, PTL DEF PartialSpec, DiscardLeavesOthers

-----------------------------------------------------------------------------
(* The five side by side: a behaviour is one of each of them, so what is   *)
(* proved of a part holds of the whole.                                    *)
THEOREM Components ==
  Spec => PartialSpec /\ TodoSpec /\ ViewSpec /\ IndicatorSpec /\ StatusSpec
<1>1. Init => PartialInit /\ TodoInit /\ ViewInit /\ IndicatorInit /\ StatusInit
  BY DEF Init
<1>2. UNCHANGED vars =>
        UNCHANGED <<partialVars, todoVars, viewVars, indicatorVars, statusVars>>
  BY DEF vars
<1>3. [Next]_vars => /\ [PartialNext]_partialVars /\ [TodoNext]_todoVars /\ [ViewNext]_viewVars
                     /\ [IndicatorNext]_indicatorVars /\ [StatusNext]_statusVars
  BY <1>2 DEF Next
<1> QED
  BY <1>1, <1>3, PTL DEF Spec, PartialSpec, TodoSpec, ViewSpec, IndicatorSpec, StatusSpec

(* All variables of the five parts keep their types, among them what the   *)
(* queue of statuses holds and how many fetches run.                       *)
THEOREM StoresTyped == Spec => []TypeOK
BY Components, PartialTyped, TodoTyped, ViewTyped, IndicatorsTyped, QueueIsWhatRuns, PTL DEF TypeOK
=============================================================================
