------------------------------ MODULE MCStores -------------------------------
(* Five components that share no state, checked side by side: a behaviour  *)
(* is one of the component it has in focus, and the others stay as they    *)
(* were at first.                                                          *)
EXTENDS PartialCommit, RebaseTodo, CommitView, RepositoryIndicators, CommitStatus

VARIABLE focus

\* the diff of a file with these lines, cut into hunks [first, last]
MakeDiff(lines, cuts) ==
  LET HunkOf(p) == {k \in DOMAIN cuts : cuts[k][1] <= p /\ p <= cuts[k][2]}
      StartOf(k) == IF k = 1 THEN 0 ELSE cuts[1][2] - cuts[1][1] + 2
      IndexOf(p) == IF HunkOf(p) = {} THEN 0
                    ELSE LET k == CHOOSE k \in HunkOf(p) : TRUE IN StartOf(k) + p - cuts[k][1] + 1
      Count(from, to, type) == Cardinality({q \in from..to : lines[q].type # type})
      FirstLine(k, type) == Count(1, cuts[k][1] - 1, type)
                            + (IF Count(cuts[k][1], cuts[k][2], type) = 0 THEN 0 ELSE 1)
  IN  [script |-> [p \in DOMAIN lines |->
                     [type |-> lines[p].type, text |-> lines[p].text, index |-> IndexOf(p),
                      noTrailingNewLine |-> lines[p].noTrailingNewLine]],
       hunks |-> [k \in DOMAIN cuts |->
                    [unifiedDiffStart |-> StartOf(k), first |-> cuts[k][1], last |-> cuts[k][2],
                     oldStartLine |-> FirstLine(k, "Add"), newStartLine |-> FirstLine(k, "Delete")]]]

FileLine(type, text) == [type |-> type, text |-> text, noTrailingNewLine |-> FALSE]
Ending(line) == [line EXCEPT !.noTrailingNewLine = TRUE]

(* A line replaced in a file without a newline at its end, a last line     *)
(* that gets a newline and another line after it, and a hunk that replaces *)
(* nothing before one with a deletion, at one context line and at none, or *)
(* before another of its kind.                                             *)
MCDiffs ==
  LET C(text) == FileLine("Context", text)
      A(text) == FileLine("Add", text)
      D(text) == FileLine("Delete", text)
  IN  {MakeDiff(<<D(1), A(2), Ending(C(3))>>, <<<<1, 3>>>>),
       MakeDiff(<<Ending(D(1)), A(1), A(2)>>, <<<<1, 3>>>>),
       MakeDiff(<<A(1), C(2), D(3), C(4)>>, <<<<1, 1>>, <<3, 4>>>>),
       MakeDiff(<<A(1), C(2), D(3), C(4)>>, <<<<1, 1>>, <<3, 3>>>>),
       MakeDiff(<<A(1), C(2), A(3), C(4)>>, <<<<1, 1>>, <<3, 3>>>>)}

MCLog == [i \in 1..4 |-> <<i>>]

\* a commit, two that follow each other, and two that do not
Selected(shas, isContiguous) == [shas |-> shas, isContiguous |-> isContiguous]
MCSelections == {Selected({"c1"}, TRUE), Selected({"c1", "c2"}, TRUE), Selected({"c1", "c3"}, FALSE)}
MCFilesOf == [s \in MCSelections |-> IF s.shas = {"c1"} THEN <<"b">> ELSE <<"a", "b">>]

vars == <<focus, partialVars, todoVars, viewVars, indicatorVars, statusVars>>

Init ==
  /\ focus \in {"partial", "todo", "view", "indicators", "status"}
  /\ PartialInit /\ TodoInit /\ ViewInit /\ IndicatorInit /\ StatusInit
  /\ focus # "partial" => /\ disk = CHOOSE d \in MCDiffs : TRUE
                          /\ selection = Fresh("All")
  /\ focus # "indicators" => opened = CHOOSE r \in Repos : TRUE

Next ==
  /\ UNCHANGED focus
  /\ \/ /\ focus = "partial" /\ PartialNext
        /\ UNCHANGED <<todoVars, viewVars, indicatorVars, statusVars>>
     \/ /\ focus = "todo" /\ TodoNext
        /\ UNCHANGED <<partialVars, viewVars, indicatorVars, statusVars>>
     \/ /\ focus = "view" /\ ViewNext
        /\ UNCHANGED <<partialVars, todoVars, indicatorVars, statusVars>>
     \/ /\ focus = "indicators" /\ IndicatorNext
        /\ UNCHANGED <<partialVars, todoVars, viewVars, statusVars>>
     \/ /\ focus = "status" /\ StatusNext
        /\ UNCHANGED <<partialVars, todoVars, viewVars, indicatorVars>>

Spec == Init /\ [][Next]_vars /\ IndicatorFairness /\ StatusFairness

\* All variables have their types.
TypeOK ==
  PartialTypeOK /\ TodoTypeOK /\ ViewTypeOK /\ IndicatorTypeOK /\ StatusTypeOK
=============================================================================
