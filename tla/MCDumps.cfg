CONSTANTS
    Levels <- MCLevels
    Rules <- MCRules
    Edits <- MCEdits
    Apply <- MCApply
    Updaters = {u1}
    Readers = {}
    MaxUpdates = 1
    Dumpers = {d1, d2}
    OptionSets <- MCOptionSets
    GlobalMap = GlobalMap
    Nodes = {1, 2, 3}
    Nil = Nil
    Keys = {"a", "b", "gone", "secret", "void", "int", "...", "0", "1"}
    Graphs <- MCGraphs
    Limits <- MCLimits
    Removed = {"gone"}
    Masked = {"secret"}
    Dropped = {"void"}
SPECIFICATION MCSpec
INVARIANTS OwnKeysMasked WithinLimits HiddenStaysHidden NothingLostSilently CyclesShownElsewhere
PROPERTIES KeysOnlyGrow DumpEnds
CHECK_DEADLOCK FALSE
