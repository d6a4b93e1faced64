CONSTANTS
    MaxSessions = 2

SPECIFICATION Spec
INVARIANT GracefulExitIsSuccess
CHECK_DEADLOCK FALSE
