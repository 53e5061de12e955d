CONSTANTS
    TAG_BITS <- MCTagBits
    MaxAdds <- MCMaxAdds
    FoldOnOverflow = TRUE
SPECIFICATION Spec
INVARIANT TypeOK
INVARIANT StoredTagsAnswerExactly
INVARIANT EmptyMatchesNothing
INVARIANT NoFalseNegative
