SPECIFICATION Spec
CONSTANTS
    Branches = {main, topic}
    Edits = {e1}
    Slots = {s1}
    Refreshers = {r1}
    MaxSha = 2
    MaxDialogs = 1
PROPERTIES ChangesFollow
