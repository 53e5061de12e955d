CONSTANTS
    NULL = NULL
    Wild = Wild
    MaxNum <- MCMaxNum
SPECIFICATION Spec
INVARIANT TypeOK
INVARIANT CallbackWhenGiven
INVARIANT BracketsBalanced
INVARIANT ElementsSeparated
