\* Requests of up to two bytes (a Thumb trap opcode is two), every copy the OS
\* may make of them, and every protection mask.  Targets with up to two
\* modules whose paths are up to three characters long, MAX_PATH two,
\* over one character (the count and order of the libraries do not depend
\* on the characters).
CONSTANTS
    MaxLen = 2
    MaxPath = 2
    PathChars = {"\\"}
    MaxModules = 2

SPECIFICATION Spec
INVARIANT AllocationGrantsRequested
