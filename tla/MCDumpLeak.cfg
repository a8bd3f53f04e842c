CONSTANTS
    Levels <- MCLevels
    Rules <- MCRules
    Edits <- MCEdits
    Apply <- MCApply
    Updaters = {u1}
    Readers = {}
    MaxUpdates = 1
    Dumpers = {d1}
    OptionSets <- MCOptionSets
    GlobalMap = GlobalMap
SPECIFICATION DumpSpec
PROPERTIES PublishedFrozen
