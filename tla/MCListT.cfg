CONSTANTS
    h1 = h1
    h2 = h2
    e1 = e1
    e2 = e2
    e3 = e3
    e4 = e4
    Unset = Unset
    NoResult = NoResult
    Heads <- MCHeads
    Elems <- MCElems
SYMMETRY ElemSymmetry
SPECIFICATION Spec
INVARIANT TypeOK
INVARIANT WellFormed
INVARIANT BothWaysAgree
PROPERTY ImplementsListSeq
