\* A service that crashes, fails to start and is stopped and started; recovery
\* by reload; answers may be lost, but no refusal hides in a body that says ok.
SPECIFICATION ServiceSpec
CONSTANTS
    LiveReplies = {"ok", "lost", "refused"}
    DeadReplies = {"refused"}
    LoginReplies = {"ok", "lost", "refused"}
    SessionsExpire = FALSE
    InternetInterval = 2
    InternetMaxRetries = 2
    CheckTimeout = 0
    SignalEnabled = TRUE
    SignalInterval = 3
    SignalMaxRetries = 2
    RecoveryMethod = "reload"
    SwitchWait = 1
    RestoreWait = 0
    MinInterval = 3
    WaitAfter = 1
    MetricsEnabled = TRUE
    CallTimeout = 1
    Technology = {"Auto", "NR5G-SA"}
    AdminChoices = {"Auto"}
    MaxLag = 2
    RestartSec = 1
    CrashesHappen = TRUE
    ShutdownFails = TRUE
INVARIANTS
    ServiceTypeOK
    DownOnRequestOnly
PROPERTY ResetsNeedEvidence
