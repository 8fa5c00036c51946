SPECIFICATION Spec
CONSTANTS
    Branches = {main, topic}
    Edits = {e1, e2}
    Slots = {s1}
    Refreshers = {r1}
    MaxSha = 2
    MaxDialogs = 1
PROPERTIES DiscardsWhatWasShown
