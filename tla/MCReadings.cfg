CONSTANTS
    None = None
    NaN = NaN
    Levels <- MCLevels
    Carriers <- MCCarriers
    Uptimes = {93784}
    Labels <- MCLabels
    Forms = {"number", "word", "decimal_comma"}
    NsaForms = {"unit", "nan", "absent"}
    Require5g = TRUE
    Min5gRsrp <- Threshold
    Width = 18
SPECIFICATION Spec
INVARIANTS
    TypeOK
    AlarmsHaveACause
    DegradationIsSeen
    DeviceSampleIsTrue
    RadioSampleIsTrue
