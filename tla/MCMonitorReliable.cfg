\* A router that does what it is asked; recovery by reload.
SPECIFICATION FairSpec
CONSTANTS
    LiveReplies = {"ok"}
    DeadReplies = {"refused"}
    LoginReplies = {"ok"}
    SessionsExpire = FALSE
    InternetInterval = 3
    InternetMaxRetries = 2
    CheckTimeout = 1
    SignalEnabled = TRUE
    SignalInterval = 4
    SignalMaxRetries = 2
    RecoveryMethod = "reload"
    SwitchWait = 1
    RestoreWait = 1
    MinInterval = 5
    WaitAfter = 1
    MetricsEnabled = TRUE
    CallTimeout = 1
    Technology = {"Auto", "NR5G-SA", "LTE"}
    AdminChoices = {}
    MaxLag = 3
PROPERTY OutageEndsInReboots
PROPERTY KeepsThePromise
