CONSTANTS
    Levels <- MCLevels
    Rules = {}
    Edits <- MCEdits
    Apply <- MCApply
    SetLevel <- MCSetLevel
    LevelInfo = 0
    ParseError <- MCParseError
    Strings <- MCStrings
    Requests = {q1}
    Watchers = {w1}
    Others = {}
    Updaters = {q1, w1}
    Readers = {}
    MaxUpdates = 4
    MaxEnvChanges = 2
SPECIFICATION FairLevelSpec
PROPERTIES RequestsAnswered EnvLevelTakesEffect WatchStops
CHECK_DEADLOCK FALSE
