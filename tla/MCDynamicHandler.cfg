CONSTANTS
    c1 = c1
    c2 = c2
    hShared = hShared
    hOwn = hOwn
    r1 = r1
    Levels <- MCLevels
    Rules = {r1}
    Edits <- MCEdits
    Apply <- MCApply
    Updaters = {u1}
    Readers = {}
    MaxUpdates = 2
    Callers = {c1, c2}
    Handlers = {hShared, hOwn}
    Uses <- MCUses
    RecordLevels <- MCRecordLevels
SPECIFICATION FairHandlerSpec
INVARIANTS HandlerTypeOK PrivateHandlersCoherent
PROPERTIES SettledUntilUpdate IsAtomicRegister RebuildingStops LevelTakesEffect UpdateTakesEffectOnPrivate
