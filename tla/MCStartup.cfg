CONSTANT Files <- MCFiles
SPECIFICATION Spec
INVARIANTS
    TypeOK
    FailuresAreReported
    ProvidersAreStopped
    SpecificIntervals
    OwnEndpoints
\* main ends.
CHECK_DEADLOCK FALSE
