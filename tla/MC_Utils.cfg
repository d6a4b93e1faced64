\* unsigned int of 2 bits; T of one chunk (unsigned int) and of two (64-bit).
\* Strings of up to one char: every char value of both signednesses.
CONSTANTS
    ChunkBits = 2
    Widths = {2, 4}
    Ops = {"ffs", "popcount"}
    MaxLen = 1

SPECIFICATION UtilsSpec
INVARIANT FFSCorrect HexRoundTrip
\* Both loops end: a state where each has returned has no successor.
CHECK_DEADLOCK FALSE
