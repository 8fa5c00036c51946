SPECIFICATION Spec
CONSTANTS
    MaxCommit = 2
    Tags = {t1}
    Slots = {s1, s2}
    Names = {main}
    NoBranch = NoBranch
SYMMETRY Symmetry
INVARIANTS TypeOK ProgressEnds OneBackgroundFetch
PROPERTIES TagLeavesWhenPushed UnfetchedSurvives
