----------------------------- MODULE CommitView ------------------------------
(***************************************************************************)
(* The commits selected in the history, the files they changed and the     *)
(* diff of one file: commitSelection of the repository state and the four  *)
(* handlers of app-store.ts that write it.  Files and diffs are read by    *)
(* git processes that end in any order, while the user selects on.         *)
(***************************************************************************)
EXTENDS Integers, Sequences, FiniteSets

CONSTANTS Selections,   \* what can be selected: records of shas, isContiguous
          FilesOf,      \* the files changed by the commits of a selection
          MaxLoads,     \* bound on git processes at a time
          None          \* no file, no diff

NoCommit == [shas |-> {}, isContiguous |-> TRUE]

VARIABLES picked,       \* shas and isContiguous of commitSelection
          files,        \* its changesetData
          file, diff,   \* its file and diff
          fileLoads,    \* getChangedFiles under way, or given up
          diffLoads     \* getCommitDiff under way, or given up

viewVars == <<picked, files, file, diff, fileLoads, diffLoads>>

Id == 1..MaxLoads

Free == [at |-> "free"]

\* a new process takes the first place that is free
Place(loads, id) ==
  loads[id].at = "free" /\ \A other \in 1..(id - 1) : loads[other].at # "free"

\* one commit, or several that follow each other
HasDiff(selection) ==
  selection # NoCommit /\ selection.isContiguous

FileSet == UNION {{FilesOf[s][i] : i \in DOMAIN FilesOf[s]} : s \in Selections}

ASSUME FilesAssumption == \A s \in Selections : FilesOf[s] \in Seq(FileSet)

ASSUME NoneAssumption ==
  /\ None \notin FileSet
  /\ \A s \in Selections, f \in FileSet : [of |-> s.shas, file |-> f] # None

-----------------------------------------------------------------------------
\* _changeFileSelection up to getCommitDiff: nothing is read without a diff
SelectFile(f) ==
  /\ file' = f /\ diff' = None
  /\ IF ~HasDiff(picked) THEN UNCHANGED diffLoads
     ELSE \E id \in Id :
            /\ Place(diffLoads, id)
            /\ diffLoads' = [diffLoads EXCEPT ![id] =
                 [at |-> "git", of |-> picked, file |-> f]]

\* _changeCommitSelection
ChangeCommitSelection(selection) ==
  /\ picked # selection
  /\ picked' = selection
  /\ files' = <<>> /\ file' = None /\ diff' = None
  /\ UNCHANGED <<fileLoads, diffLoads>>

\* _loadChangedFilesForCurrentSelection: commitSelection stays at hand
LoadChangedFiles ==
  /\ HasDiff(picked)
  /\ \E id \in Id :
       /\ Place(fileLoads, id)
       /\ fileLoads' = [fileLoads EXCEPT ![id] = [at |-> "git", of |-> picked, file |-> file]]
  /\ UNCHANGED <<picked, files, file, diff, diffLoads>>

\* updateOrSelectFirstCommit, when a new list of commits lacks the one that
\* was selected: the first is, and its files are read, if there is one
SelectFirstCommit(first) ==
  /\ picked # first
  /\ picked' = first
  /\ files' = <<>> /\ file' = None /\ diff' = None
  /\ IF first = NoCommit THEN UNCHANGED fileLoads
     ELSE \E id \in Id :
            /\ Place(fileLoads, id)
            /\ fileLoads' = [fileLoads EXCEPT ![id] = [at |-> "git", of |-> first, file |-> None]]
  /\ UNCHANGED diffLoads

\* getChangedFiles has failed
FilesFail(id) ==
  /\ fileLoads[id].at = "git"
  /\ fileLoads' = [fileLoads EXCEPT ![id] = Free]
  /\ UNCHANGED <<picked, files, file, diff, diffLoads>>

\* (mutant) the diff is read for a file that was not selected before
ReadDiffOfNew(first, load) ==
  IF load.file = None /\ first # None THEN SelectFile(first)
  ELSE file' = first /\ diff' = None /\ UNCHANGED diffLoads

ReadDiff(first, load) ==
  IF first # None THEN SelectFile(first)
  ELSE file' = None /\ diff' = None /\ UNCHANGED diffLoads

\* getChangedFiles has ended.  The selection is compared with itself as it
\* was before the call, so the files are those of the one on screen or not;
\* so is the file that was selected then.
FilesArrive(id) ==
  /\ fileLoads[id].at = "git"
  /\ LET found == FilesOf[fileLoads[id].of]
         first == IF fileLoads[id].file = None /\ found # <<>> THEN found[1]
                  ELSE fileLoads[id].file
     IN  /\ files' = found
         /\ ReadDiff(first, fileLoads[id])
  /\ fileLoads' = [fileLoads EXCEPT ![id] = Free]
  /\ UNCHANGED picked

\* the user selects one of the files of the list
ChangeFileSelection(f) ==
  /\ \E i \in DOMAIN files : files[i] = f
  /\ SelectFile(f)
  /\ UNCHANGED <<picked, files, fileLoads>>

\* _setHideWhitespaceInHistoryDiff with the file that is shown: the setting
\* is one of git's options only
SetHideWhitespace ==
  /\ file # None
  /\ SelectFile(file)
  /\ UNCHANGED <<picked, files, fileLoads>>

\* getCommitDiff throws, and nothing else is done about the diff
DiffFails(id) ==
  /\ diffLoads[id].at = "git"
  /\ diffLoads' = [diffLoads EXCEPT ![id].at = "failed"]
  /\ UNCHANGED <<picked, files, file, diff, fileLoads>>

\* (mutant) without a look at the commits: the file has the same path
SameFile(load) == load.file = file

\* the commits and the file are those of before; only shas are compared
StillShown(load) == load.of.shas = picked.shas /\ load.file = file

\* what failed is forgotten once the user looks at something else
Forget(id) ==
  /\ diffLoads[id].at = "failed" /\ ~StillShown(diffLoads[id])
  /\ diffLoads' = [diffLoads EXCEPT ![id] = Free]
  /\ UNCHANGED <<picked, files, file, diff, fileLoads>>

\* getCommitDiff has ended
DiffArrives(id) ==
  /\ diffLoads[id].at = "git"
  /\ diff' = IF StillShown(diffLoads[id])
             THEN [of |-> diffLoads[id].of.shas, file |-> diffLoads[id].file] ELSE diff
  /\ diffLoads' = [diffLoads EXCEPT ![id] = Free]
  /\ UNCHANGED <<picked, files, file, fileLoads>>

ViewInit ==
  /\ picked = NoCommit /\ files = <<>> /\ file = None /\ diff = None
  /\ fileLoads = [id \in Id |-> Free] /\ diffLoads = [id \in Id |-> Free]

ViewNext ==
  \/ \E selection \in Selections : ChangeCommitSelection(selection)
  \/ \E f \in FileSet : ChangeFileSelection(f)
  \/ \E id \in Id : \/ FilesFail(id) \/ FilesArrive(id)
                    \/ DiffFails(id) \/ DiffArrives(id) \/ Forget(id)
  \/ \E first \in {NoCommit} \cup {s \in Selections : Cardinality(s.shas) = 1} :
       SelectFirstCommit(first)
  \/ LoadChangedFiles \/ SetHideWhitespace

ViewSpec == ViewInit /\ [][ViewNext]_viewVars
-----------------------------------------------------------------------------
FileLoad == [at : {"git"}, of : Selections, file : FileSet \cup {None}]

\* no diff is read without a file
DiffLoad == [at : {"git", "failed"}, of : Selections, file : FileSet]

\* Every variable has its type, and processes are about commits that can be
\* selected and about files that commits have changed.
ViewTypeOK ==
  /\ picked \in Selections \cup {NoCommit} /\ files \in Seq(FileSet)
  /\ file \in FileSet \cup {None}
  /\ fileLoads \in [Id -> {Free} \cup FileLoad]
  /\ diffLoads \in [Id -> {Free} \cup DiffLoad]

(* The diff on screen is the one of the file and the commits that are      *)
(* selected, in whatever order the processes end (app-store.ts:1841-1859). *)
DiffOfSelection == diff # None => diff = [of |-> picked.shas, file |-> file]

(* A file that is selected is never left without its diff: it is shown, or *)
(* a process that will show it is under way, or one has failed             *)
(* (app-store.ts:1806-1839).                                               *)
DiffExpected ==
  file # None /\ diff = None /\ HasDiff(picked) =>
    \E id \in Id : /\ diffLoads[id].at # "free"
                   /\ StillShown(diffLoads[id])
=============================================================================
