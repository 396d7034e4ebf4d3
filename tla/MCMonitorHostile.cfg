\* A router that refuses, misreports and drops sessions, but answers what it
\* does; recovery by reload, and the counters that are exported of it.
SPECIFICATION RecordedSpec
CONSTANTS
    LiveReplies = {"ok", "refused", "refused_in_body"}
    DeadReplies = {"refused", "refused_in_body"}
    LoginReplies = {"ok", "keyless", "lost", "refused", "refused_with_key"}
    SessionsExpire = TRUE
    InternetInterval = 1
    InternetMaxRetries = 2
    CheckTimeout = 0
    SignalEnabled = TRUE
    SignalInterval = 2
    SignalMaxRetries = 2
    RecoveryMethod = "reload"
    SwitchWait = 1
    RestoreWait = 0
    MinInterval = 4
    WaitAfter = 1
    MetricsEnabled = TRUE
    CallTimeout = 1
    Technology = {"Auto", "NR5G-SA"}
    AdminChoices = {"Auto"}
    MaxLag = 1
    MaxRecoveries = 2
INVARIANTS
    TypeOK
    RebootsAreSpaced
    CooldownKept
    RebootsAreForOutages
    PreferenceIsRestored
    RecoveryIsAuthenticated
    SignalRecoveriesAddUp
    RebootsFollowReloads
