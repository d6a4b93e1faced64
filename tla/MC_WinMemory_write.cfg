\* Writes of up to two bytes, the length of a Thumb trap opcode.
CONSTANTS
    MaxLen = 2
    MaxPath = 2
    PathChars = {"\\"}
    MaxModules = 1

SPECIFICATION Spec
INVARIANT WriteAllOrNothing
