CONSTANTS
    NULL = NULL
    Wild = Wild
    MaxNum <- MCMaxNum
SPECIFICATION Spec
INVARIANT TextReadsBack
