SPECIFICATION Spec
CONSTANTS
    MaxCommit = 3
    Tags = {}
    Slots = {s1, s2}
    Names = {main}
    NoBranch = NoBranch
PROPERTIES UnseenSurvives
