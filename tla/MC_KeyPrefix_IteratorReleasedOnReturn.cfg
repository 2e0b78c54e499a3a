\* Counterexample run: see README, section 3.
CONSTANTS
    MaxByte = 1
    MaxLen = 3
    MaxDbSize = 3
    WordLen = 1
    StorePrefixes <- MCPrefixes
    Bounds <- MCBounds
    NoBound = NoBound
SPECIFICATION Spec
INVARIANT IteratorReleasedOnReturn
CHECK_DEADLOCK FALSE
