\* One module whose path is one character longer than MAX_PATH: a path
\* Windows allows (long paths, \\?\ paths) and nameStr cannot hold.
CONSTANTS
    MaxLen = 1
    MaxPath = 2
    PathChars = {"U", "l", ":", "\\"}
    MaxModules = 1

SPECIFICATION Spec
INVARIANT NameFitsBuffer
