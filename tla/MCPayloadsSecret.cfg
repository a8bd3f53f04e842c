CONSTANTS
    Words <- MCWords
    Configs <- MCConfigs
    Names <- MCNames
    GroupPaths <- MCGroupPaths
    MaskValues <- MCValues
    Sensitive <- MCSensitive
    Detects <- MCDetects
    MaxLength = 36
    MaxPart = 10
    CardMin = 3
    CardMax = 4
    Digits <- MCDigits
    IntMin <- MCIntMin
    Lengths <- MCLengths
    Settings <- MCSettings
    HeaderFields <- MCHeaderFields
    BytesPerField = 2
    DefaultLimit = 3
    MaxLogs = 2
SPECIFICATION MCSpec
INVARIANTS SecretHidesCompletely
CHECK_DEADLOCK FALSE
