SPECIFICATION StartupSpec
CONSTANTS
    d1 = d1  d2 = d2
    DataSource = {d1, d2}
    main = main  t1 = t1  t2 = t2
    Caller = {main, t1, t2}
    Unknown = Unknown
    AllSources = AllSources
    Configs <- SomeConfigs
    Sources <- MCSources
    Env <- MCEnv
    MaxDuration = 1000
INVARIANTS
    StartedAtMostOnce
    AnswersAgree
    RejectedStartsNothing
    LoadedAsConfigured
PROPERTIES
    CallsReturn
    OthersLoaded
CHECK_DEADLOCK FALSE
