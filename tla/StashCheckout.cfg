SPECIFICATION Spec
CONSTANTS
    Branches = {main, topic}
    Edits = {e1}
    Slots = {s1, s2}
    Refreshers = {}
    MaxSha = 2
    MaxDialogs = 1
INVARIANTS TypeOK
PROPERTIES WorkSurvives DroppedOnlyWhenReplaced
SYMMETRY Symmetry
