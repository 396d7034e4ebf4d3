\* An interval longer than any handler; recovery by reboot.
SPECIFICATION FairSpec
CONSTANTS
    LiveReplies = {"ok"}
    DeadReplies = {"refused"}
    LoginReplies = {"ok"}
    SessionsExpire = TRUE
    InternetInterval = 10
    InternetMaxRetries = 2
    CheckTimeout = 1
    SignalEnabled = TRUE
    SignalInterval = 5
    SignalMaxRetries = 2
    RecoveryMethod = "reboot"
    SwitchWait = 1
    RestoreWait = 1
    MinInterval = 3
    WaitAfter = 1
    MetricsEnabled = FALSE
    CallTimeout = 1
    Technology = {"Auto", "NR5G-SA"}
    AdminChoices = {}
    MaxLag = 12
INVARIANT ChecksKeepTheInterval
PROPERTY SignalChecksRecur
PROPERTY SessionIsRenewed
