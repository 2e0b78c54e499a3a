\* Prefixed scans of every reader over every store of up to 3 keys: the
\* scan refines SubStoreScan, the source is released once, Above is least.
CONSTANTS
    MaxByte = 1
    MaxLen = 3
    MaxDbSize = 3
    WordLen = 1
    StorePrefixes <- MCPrefixes
    Bounds <- MCBounds
    NoBound = NoBound
SPECIFICATION Spec
INVARIANTS
    SourceReleasedOnce
    AboveIsMinimal
PROPERTY
    SubStoreScanSpec
\* A scan ends when its reader returns.
CHECK_DEADLOCK FALSE
