CONSTANTS
    TAG_BITS <- MCTagBits
    MaxAdds <- MCMaxAdds
    FoldOnOverflow = FALSE
SPECIFICATION Spec
INVARIANT NoFalseNegative
