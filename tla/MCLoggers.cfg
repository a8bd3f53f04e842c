CONSTANTS
    Names <- MCNames
    MaskTypes = {"secret", "partial"}
    Levels = {"FATAL"}
    Labels = {"FATAL", "CRITICAL"}
    defaultLevelNames <- MCLevelNames
    CorporateMaskRules <- MCCorporateRules
    Limits <- MCLimits
    MaxLoggers = 2
    MaxSets = 3
    MaxKeys = 4
    MaxOptions = 2
    Attrs = {a1, a2}
    Frames <- MCFrames
    Groups = {g1}
    Configs <- MCConfigs
    Contexts <- MCContexts
    Calls <- MCCalls
    LevelError = 8
    MaxHandlers = 4
    Unused = Unused
    Callers = {c1, c2}
    Plain = Plain
    MaxSetups = 2
SPECIFICATION MCSpec
INVARIANTS OptionsDecide AloneKeepsKeys SiblingsIndependent PlacedWhenAttrsFirst StackFromCaller ControlsItselfUnlessRaced FatalPanicsOnlyForeign
CHECK_DEADLOCK FALSE
