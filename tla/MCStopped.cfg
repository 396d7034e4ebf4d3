\* systemctl stop in the middle of a reload.
SPECIFICATION ServiceSpec
CONSTANTS
    LiveReplies = {"ok"}
    DeadReplies = {"refused"}
    LoginReplies = {"ok", "refused"}
    SessionsExpire = TRUE
    InternetInterval = 2
    InternetMaxRetries = 1
    CheckTimeout = 0
    SignalEnabled = TRUE
    SignalInterval = 3
    SignalMaxRetries = 1
    RecoveryMethod = "reload"
    SwitchWait = 1
    RestoreWait = 0
    MinInterval = 3
    WaitAfter = 1
    MetricsEnabled = TRUE
    CallTimeout = 1
    Technology = {"Auto", "NR5G-SA"}
    AdminChoices = {}
    MaxLag = 2
    RestartSec = 1
    CrashesHappen = FALSE
    ShutdownFails = FALSE
INVARIANT PreferenceSurvives
