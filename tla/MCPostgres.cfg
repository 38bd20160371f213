SPECIFICATION MCSpec
CONSTANTS
    NumSettings = 1
    MaxMsgs = 4
    MaxInbox = 1
    Names <- MCNames
    Lower <- MCLower
    Configs <- MCConfigs
    Texts <- MCTexts
    CacheSize = 1
INVARIANTS
    StatementPolicy
    
    SettingsHeld
    
PROPERTIES
    SessionsEnd
CHECK_DEADLOCK FALSE
