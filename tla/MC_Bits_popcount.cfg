\* PopCount<T> on a type of two chunks.
CONSTANTS
    ChunkBits = 2
    Widths = {4}
    Ops = {"popcount"}

SPECIFICATION Spec
INVARIANT PopCountCorrect
CHECK_DEADLOCK FALSE
