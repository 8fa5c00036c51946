SPECIFICATION Spec
CONSTANTS
    MaxCommit = 1
    Tags = {t1}
    Slots = {s1, s2}
    Names = {main}
    NoBranch = NoBranch
PROPERTIES TagKeptUntilPushed
