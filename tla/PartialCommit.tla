---------------------------- MODULE PartialCommit ----------------------------
(***************************************************************************)
(* Committing and discarding some of the lines of a file: the selection of *)
(* models/diff/diff-selection.ts, the patches of lib/patch-formatter.ts    *)
(* and the calls of lib/git/apply.ts and lib/git/update-index.ts that use  *)
(* both.  A line is known by its index in the unified diff, so a selection *)
(* means what it should only for the diff it was made on.                  *)
(*                                                                         *)
(* A diff is a record: script, the lines of both versions of the file in   *)
(* order, and hunks, as Git prints them.  A line has a type, a text, the   *)
(* mark that there is no newline at its end, and the index it has in the   *)
(* diff, 0 outside of the hunks.  A hunk is a header and the lines of the  *)
(* script from first to last.                                              *)
(***************************************************************************)
EXTENDS Integers, Sequences, FiniteSets, Lists

CONSTANTS Lines,        \* indexes of lines in a diff
          Diffs,        \* what Git may answer for the file
          Unknown       \* null, for the selectable lines or a diff

ASSUME UnknownAssumption ==
  (\A lines \in SUBSET Lines : Unknown # lines) /\ Unknown \notin Diffs

\* indexes have no gaps
ASSUME LinesAssumption ==
  Lines \subseteq Int /\ \A from, to \in Lines : from..to \subseteq Lines

VARIABLES disk,         \* the diff of the file as it is on the disk
          shown,        \* selection.diff, the diff that was loaded last
          selection,    \* DiffSelection of the file
          result        \* the file in the last commit, or after a discard

partialVars == <<disk, shown, selection, result>>

\* Git or formatPatch fails: texts of lines are positive, so this is no file
Failed == <<[text |-> 0, noTrailingNewLine |-> FALSE]>>

\* a file in which two lines have become one
RunTogether == <<[text |-> 0, noTrailingNewLine |-> TRUE]>>

-----------------------------------------------------------------------------
(* DiffSelection.  No diverging lines and an empty set of them, null and   *)
(* Set() in the code, behave alike.                                        *)
Selection == [base : {"All", "None"}, diverging : SUBSET Lines,
              selectable : {Unknown} \cup SUBSET Lines]

Fresh(base) == [base |-> base, diverging |-> {}, selectable |-> Unknown]

Other(base) == IF base = "All" THEN "None" ELSE "All"

\* typeMatchesSelection
TypeOf(selected) == IF selected THEN "All" ELSE "None"

IsSelected(s, line) == (s.base = "All") # (line \in s.diverging)

IsSelectable(s, line) == s.selectable = Unknown \/ line \in s.selectable

\* (mutant) as many diverging lines as there are lines, whatever the base
SelectionTypeAll(s) ==
  IF s.diverging = {} THEN s.base
  ELSE IF s.selectable = s.diverging THEN "All"
  ELSE "Partial"

\* getSelectionType
SelectionType(s) ==
  IF s.diverging = {} THEN s.base
  ELSE IF s.selectable = s.diverging THEN Other(s.base)
  ELSE "Partial"

\* (mutant) the lines asked for diverge from the base as it was
KeepingBase(s, type, asked) == [s EXCEPT !.diverging = asked]

\* what follows when all lines were selected, or none
FromWhole(s, type, asked) == [s EXCEPT !.base = type, !.diverging = asked]

\* withRangeSelection; withLineSelection for a range of one
WithRange(s, range, selected) ==
  LET type == SelectionType(s)
      asked == {line \in range : IsSelectable(s, line)}
  IN  IF type = TypeOf(selected) THEN s
      ELSE IF type # "Partial" THEN FromWhole(s, type, asked)
      ELSE IF s.base = TypeOf(selected) THEN [s EXCEPT !.diverging = @ \ range]
      ELSE [s EXCEPT !.diverging = @ \cup asked]

\* withSelectAll, withSelectNone
WithAll(s, selected) == [s EXCEPT !.base = TypeOf(selected), !.diverging = {}]

\* withSelectableLines
WithSelectable(s, lines) ==
  [s EXCEPT !.diverging = @ \cap lines, !.selectable = lines]

-----------------------------------------------------------------------------
(* Patches.  A hunk of a patch has the lines where its header says that it *)
(* starts, in the file as it is and as it will be, and its lines with a    *)
(* sign, those left out with none.  Every line that is not left out keeps  *)
(* its text and the mark that there is no newline at its end.              *)
Sign(type) == IF type = "Add" THEN "+" ELSE "-"
Opposite(type) == IF type = "Add" THEN "-" ELSE "+"

LeftOut == ""

\* formatPatch, a line that is not the header
PatchSign(type, selected) ==
  CASE type = "Context" -> " "
    [] type # "Context" /\ selected -> Sign(type)
    [] type = "Delete" /\ ~selected -> " "
    [] OTHER -> LeftOut

\* (mutant) an added line that stays is left out, as in formatPatch
DiscardSignDropping(type, selected) ==
  CASE type = "Context" -> " "
    [] type # "Context" /\ selected -> Opposite(type)
    [] OTHER -> LeftOut

\* formatPatchToDiscardChanges, a line that is not the header
DiscardSign(type, selected) ==
  CASE type = "Context" -> " "
    [] type # "Context" /\ selected -> Opposite(type)
    [] type = "Add" /\ ~selected -> " "
    [] OTHER -> LeftOut

Sides == {"commit", "discard"}

SignOf(side, type, selected) ==
  IF side = "commit" THEN PatchSign(type, selected) ELSE DiscardSign(type, selected)

\* a line has the index of its hunk and its place below the header
HunkLine(diff, side, s, h, i) ==
  LET line == diff.script[h.first + i - 1]
  IN  [sign |-> SignOf(side, line.type, IsSelected(s, h.unifiedDiffStart + i)),
       text |-> line.text, noTrailingNewLine |-> line.noTrailingNewLine]

\* the starts are those of the diff, whatever is left out of other hunks
HunkPatch(diff, side, s, h) ==
  [oldStart |-> IF side = "commit" THEN h.oldStartLine ELSE h.newStartLine,
   newStart |-> IF side = "commit" THEN h.newStartLine ELSE h.oldStartLine,
   lines |-> [i \in 1..(h.last - h.first + 1) |-> HunkLine(diff, side, s, h, i)]]

Changed(line) == line.sign \in {"+", "-"}

\* the hunks of a diff, those without a change left out
PatchOf(diff, side, s) ==
  LET all == [k \in DOMAIN diff.hunks |-> HunkPatch(diff, side, s, diff.hunks[k])]
  IN  Kept(all, {k \in DOMAIN all : \E i \in DOMAIN all[k].lines : Changed(all[k].lines[i])})

FormatPatch(diff, s) == PatchOf(diff, "commit", s)

FormatPatchToDiscard(diff, s) == PatchOf(diff, "discard", s)

Content(line) == [text |-> line.text, noTrailingNewLine |-> line.noTrailingNewLine]

Contents(lines) == [i \in DOMAIN lines |-> Content(lines[i])]

Signed(lines, signs) == Kept(Contents(lines), {i \in DOMAIN lines : lines[i].sign \in signs})

-----------------------------------------------------------------------------
(* git apply --unidiff-zero (apply.c of Git): the file as the hunks so far *)
(* have made it, and which of its lines they wrote.                        *)
Replaced(h) == Signed(h.lines, {" ", "-"})
Replacement(h) == Signed(h.lines, {" ", "+"})

\* a line that a hunk has without a newline is also found with one
SameLine(line, said) ==
  line.text = said.text /\ (line.noTrailingNewLine => said.noTrailingNewLine)

\* after how many lines a hunk fits: lines that a hunk wrote fit no other, and
\* one that says it starts at line 0 goes to the top
PlacesFor(acc, h) ==
  LET said == Replaced(h)
  IN  {at \in 0..(Len(acc.file) - Len(said)) :
         /\ h.oldStart = 0 => at = 0
         /\ \A i \in DOMAIN said :
              ~acc.patched[at + i] /\ SameLine(acc.file[at + i], said[i])}

\* Git looks first where the hunk says it starts in the new file
Expected(acc, h) ==
  CASE h.oldStart = 0 \/ h.newStart = 0 -> 0
    [] h.newStart > Len(acc.file) -> Len(acc.file)
    [] OTHER -> h.newStart - 1

Distance(m, n) == IF m < n THEN n - m ELSE m - n

\* then further and further away, below before above
FoundFirst(from, m, n) ==
  \/ Distance(from, m) < Distance(from, n)
  \/ Distance(from, m) = Distance(from, n) /\ m >= n

\* new in the place of the n elements after the first at
Splice(s, at, n, new) == SubSeq(s, 1, at) \o new \o SubSeq(s, at + n + 1, Len(s))

ApplyHunk(acc, h) ==
  LET places == PlacesFor(acc, h)
      at == CHOOSE m \in places : \A n \in places : FoundFirst(Expected(acc, h), m, n)
  IN  IF ~acc.ok \/ places = {} THEN [acc EXCEPT !.ok = FALSE]
      ELSE [ok |-> TRUE,
            file |-> Splice(acc.file, at, Len(Replaced(h)), Replacement(h)),
            patched |-> Splice(acc.patched, at, Len(Replaced(h)), [i \in DOMAIN Replacement(h) |-> TRUE])]

Untouched(file) == [ok |-> TRUE, file |-> file, patched |-> [i \in DOMAIN file |-> FALSE]]

\* after every hunk
Applying(file, patch) ==
  LET acc[n \in 0..Len(patch)] ==
        IF n = 0 THEN Untouched(file) ELSE ApplyHunk(acc[n - 1], patch[n])
  IN  acc

\* no line without a newline before another
WellEnded(lines) == \A i \in 1..(Len(lines) - 1) : ~lines[i].noTrailingNewLine

AsFile(lines) == IF WellEnded(lines) THEN lines ELSE RunTogether

Apply(file, patch) ==
  LET end == Applying(file, patch)[Len(patch)]
  IN  IF end.ok THEN AsFile(end.file) ELSE Failed

-----------------------------------------------------------------------------
\* the positions in the script that either version of the file has
OldLines(diff) == {p \in DOMAIN diff.script : diff.script[p].type # "Add"}
NewLines(diff) == {p \in DOMAIN diff.script : diff.script[p].type # "Delete"}

Old(diff) == Kept(Contents(diff.script), OldLines(diff))
New(diff) == Kept(Contents(diff.script), NewLines(diff))

\* the lines that are added or deleted
Includeable(diff) == {diff.script[i].index :
                        i \in {j \in DOMAIN diff.script : diff.script[j].type # "Context"}}

-----------------------------------------------------------------------------
(* What Git prints, at any number of context lines around a change.        *)
Hunk == [first : Nat \ {0}, last : Nat, unifiedDiffStart : Nat,
         oldStartLine : Nat, newStartLine : Nat]

ScriptLine == [type : {"Context", "Add", "Delete"}, text : Nat \ {0},
               noTrailingNewLine : BOOLEAN, index : Nat]

\* hunks start with their first line of a version, or with the line before
StartsAt(start, positions, h) ==
  LET before == Cardinality(positions \cap 1..(h.first - 1))
  IN  start = IF positions \cap h.first..h.last = {} THEN before ELSE before + 1

\* a version of the file lacks the newline at its end or nowhere
EndsOnce(script, positions) ==
  \A p, q \in positions : p < q => ~script[p].noTrailingNewLine

\* hunks come in order with other lines between them and know where they start,
\* their lines are numbered one after the other, and what is added or deleted
\* is in one of them
DiffOfGit(diff) ==
  /\ diff.script \in Seq(ScriptLine) /\ diff.hunks \in Seq(Hunk)
  /\ Includeable(diff) \subseteq Lines
  /\ EndsOnce(diff.script, OldLines(diff)) /\ EndsOnce(diff.script, NewLines(diff))
  /\ \A k \in DOMAIN diff.hunks :
       LET h == diff.hunks[k]
       IN  /\ h.first <= h.last /\ h.last <= Len(diff.script)
           /\ \A j \in 1..(k - 1) : diff.hunks[j].last + 1 < h.first
           /\ StartsAt(h.oldStartLine, OldLines(diff), h)
           /\ StartsAt(h.newStartLine, NewLines(diff), h)
           /\ \A p \in h.first..h.last :
                diff.script[p].index = h.unifiedDiffStart + (p - h.first) + 1
  /\ \A p \in DOMAIN diff.script : diff.script[p].type # "Context" =>
       \E k \in DOMAIN diff.hunks : p \in diff.hunks[k].first..diff.hunks[k].last

ASSUME DiffsAssumption == \A diff \in Diffs : DiffOfGit(diff)

-----------------------------------------------------------------------------
\* the checkbox of the file
IncludeFile(selected) ==
  /\ selection' = WithAll(selection, selected)
  /\ UNCHANGED <<disk, shown, result>>

\* a range starts and ends with a line that was added or deleted
Clickable(from, to) ==
  shown # Unknown /\ from <= to /\ {from, to} \subseteq Includeable(shown)

\* a line, a range dragged over or a hunk is clicked in the diff
IncludeLines(from, to, selected) ==
  /\ Clickable(from, to)
  /\ selection' = WithRange(selection, from..to, selected)
  /\ UNCHANGED <<disk, shown, result>>

\* updateChangesWorkingDirectoryDiff
LoadDiff ==
  /\ shown' = disk
  /\ selection' = WithSelectable(selection, Includeable(disk))
  /\ UNCHANGED <<disk, result>>

\* the user works on the file, or HEAD changes
ChangeFile(diff) ==
  /\ disk' = diff
  /\ UNCHANGED <<shown, selection, result>>

\* updateChangedFiles with clearPartialState, after a commit or with another
\* choice about white space; withIncludeAll starts from a fresh file
ClearPartial ==
  /\ SelectionType(selection) = "Partial"
  /\ selection' = Fresh("None")
  /\ UNCHANGED <<disk, shown, result>>

\* createCommit, stageFiles: a whole file is taken as it is on the disk, of
\* another the lines of a diff read now; without a change formatPatch throws
Commit ==
  /\ SelectionType(selection) # "None"
  /\ UNCHANGED <<disk, shown, selection>>
  /\ LET patch == FormatPatch(disk, selection)
     IN  result' = IF SelectionType(selection) = "All" THEN New(disk)
                   ELSE IF patch = <<>> THEN Failed
                   ELSE Apply(Old(disk), patch)

\* a discard has a selection of its own on the diff that is shown
DiscardPatch(from, to) ==
  FormatPatchToDiscard(shown, WithRange(WithAll(selection, FALSE), from..to, TRUE))

\* onDiscardChanges
Discard(from, to) ==
  /\ Clickable(from, to)
  /\ UNCHANGED <<disk, shown, selection>>
  /\ result' = Apply(New(disk), DiscardPatch(from, to))

PartialInit ==
  /\ disk \in Diffs /\ shown = Unknown
  /\ selection \in {Fresh("All"), Fresh("None")}
  /\ result = Failed

PartialNext ==
  \/ \E selected \in BOOLEAN :
       \/ IncludeFile(selected)
       \/ \E from, to \in Lines : IncludeLines(from, to, selected)
  \/ \E from, to \in Lines : Discard(from, to)
  \/ \E diff \in Diffs : ChangeFile(diff)
  \/ LoadDiff \/ ClearPartial \/ Commit

PartialSpec == PartialInit /\ [][PartialNext]_partialVars
-----------------------------------------------------------------------------
SelectableLines == IF selection.selectable = Unknown THEN Lines ELSE selection.selectable

ChosenLines == {line \in SelectableLines : IsSelected(selection, line)}

\* Every variable has its type, and only lines that can be selected diverge.
PartialTypeOK ==
  /\ disk \in Diffs /\ shown \in Diffs \cup {Unknown}
  /\ selection \in Selection /\ selection.diverging \subseteq SelectableLines

Chosen == INSTANCE ChosenLines WITH lines <- SelectableLines, chosen <- ChosenLines

(* The base and its diverging lines stand for a set of lines: a click      *)
(* changes the choice of the lines from the first to the last it names and *)
(* of no other, the checkbox that of all, and another diff none, whichever *)
(* way round the set is kept (diff-selection.ts:150-331).                  *)
LinesChosen ==
  /\ Chosen!Spec
  /\ [][/\ \A from, to \in Lines :
             /\ IncludeLines(from, to, TRUE) => Chosen!Choose(from, to)
             /\ IncludeLines(from, to, FALSE) => Chosen!Unchoose(from, to)
        /\ IncludeFile(TRUE) => Chosen!ChooseAll
        /\ IncludeFile(FALSE) => Chosen!ChooseNone
        /\ LoadDiff => Chosen!Renew
        /\ ClearPartial => Chosen!Forget]_partialVars

\* the file with the chosen changes, without a patch
Taken(diff, lines) ==
  {p \in DOMAIN diff.script :
     LET line == diff.script[p]
     IN  \/ line.type = "Context"
         \/ line.type = "Add" /\ line.index \in lines
         \/ line.type = "Delete" /\ line.index \notin lines}

Taking(diff, lines) == Kept(Contents(diff.script), Taken(diff, lines))

\* whenever Git looks for what a hunk replaces there is one place for it
OnePlace(file, patch) ==
  \A n \in DOMAIN patch :
    \A m1, m2 \in PlacesFor(Applying(file, patch)[n - 1], patch[n]) : m1 = m2

(* As long as the file is the one that is shown and its selection knows    *)
(* the lines, a commit takes the lines that are chosen and no other, and   *)
(* the patch applies, wherever it says that a hunk starts, provided that   *)
(* the lines of a hunk are not found twice and that a last line without a  *)
(* newline stays the last (patch-formatter.ts:129-232).                    *)
CommitTakesChosen ==
  [][/\ shown = disk /\ selection.selectable # Unknown /\ Commit
     /\ OnePlace(Old(disk), FormatPatch(disk, selection))
     /\ WellEnded(Taking(disk, ChosenLines))
     => result' = Taking(disk, ChosenLines)]_partialVars

(* A discard leaves the file without the lines it names and with all other *)
(* changes, provided the same (patch-formatter.ts:251-335).                *)
DiscardLeavesOthers ==
  [][shown = disk => \A from, to \in Lines :
       LET left == Taking(disk, Includeable(disk) \ (from..to))
       IN  /\ Discard(from, to)
           /\ OnePlace(New(disk), DiscardPatch(from, to)) /\ WellEnded(left)
           => result' = left]_partialVars
=============================================================================
