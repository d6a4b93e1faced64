CONSTANTS
    MaxSessions = 2

SPECIFICATION Spec
INVARIANT AttachHonoured
CHECK_DEADLOCK FALSE
