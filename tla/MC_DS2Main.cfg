\* Two connections per server run: enough for keep-alive to loop once.
CONSTANTS
    MaxSessions = 2

SPECIFICATION Spec
INVARIANT PlatformKeepsServing
CHECK_DEADLOCK FALSE
