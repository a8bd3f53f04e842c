CONSTANTS
    r1 = r1
    r2 = r2
    Levels <- MCLevels
    Rules <- MCRules
    Edits <- MCEdits
    Apply <- MCApply
    Updaters = {u1, u2}
    Readers = {rd}
    MaxUpdates = 3
SPECIFICATION Spec
PROPERTIES UpdateIsAtomic
