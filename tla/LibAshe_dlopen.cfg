SPECIFICATION Spec
CONSTANTS
    ProgramModules = {"ssl", "crypto"}
INVARIANTS
    FailureIsReported
CHECK_DEADLOCK FALSE
