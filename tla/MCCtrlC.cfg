\* Ctrl+C while a handler runs.
SPECIFICATION FairSpec
CONSTANTS
    LiveReplies = {"ok"}
    DeadReplies = {"refused"}
    LoginReplies = {"ok"}
    SessionsExpire = FALSE
    InternetInterval = 3
    InternetMaxRetries = 1
    CheckTimeout = 1
    SignalEnabled = FALSE
    SignalInterval = 4
    SignalMaxRetries = 1
    RecoveryMethod = "reload"
    SwitchWait = 1
    RestoreWait = 1
    MinInterval = 5
    WaitAfter = 1
    MetricsEnabled = TRUE
    CallTimeout = 1
    Technology = {"Auto", "NR5G-SA", "LTE"}
    AdminChoices = {}
    MaxLag = 3
PROPERTY CtrlCStops
