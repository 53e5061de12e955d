SPECIFICATION Spec
CONSTANTS
    h1 = h1
    e1 = e1
    e2 = e2
    e3 = e3
    Unset = Unset
    NoResult = NoResult
    Heads <- MCHeads
    Elems <- MCElems
    LIST = h1
INVARIANT TypeOK
INVARIANT NoUseAfterFree
INVARIANT EachElementOnce
INVARIANT ListSurvivesLoop
PROPERTY LoopEnds
