SPECIFICATION Spec
CONSTANTS
    NULL = NULL
    NoMask = NoMask
    Garbage = Garbage
    Hashes <- MCHashes
    MaxPrints <- MCMaxPrints
CHECK_DEADLOCK FALSE
INVARIANT NoUseAfterFree
