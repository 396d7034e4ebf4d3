CONSTANT Files <- MCFiles
SPECIFICATION Spec
INVARIANT DisabledIsNotChecked
CHECK_DEADLOCK FALSE
