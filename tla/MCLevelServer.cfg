CONSTANTS
    Levels <- MCLevels
    Rules = {}
    Edits <- MCEdits
    Apply <- MCApply
    SetLevel <- MCSetLevel
    LevelInfo = 0
    ParseError <- MCParseError
    Strings <- MCStrings
    Requests = {q1}
    Watchers = {}
    Others = {o1}
    Updaters = {q1, o1}
    Readers = {}
    MaxUpdates = 2
    MaxEnvChanges = 0
SPECIFICATION FairServerSpec
INVARIANTS AnswersFresh PutsTakeEffect
PROPERTIES QuietAfterShutdown CancelStopsServer
CHECK_DEADLOCK FALSE
