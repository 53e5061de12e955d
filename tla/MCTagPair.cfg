CONSTANT TAG_BITS <- MCTagBits
SPECIFICATION Spec
INVARIANT IntersectsIffCommonTag
INVARIANT ValidIffTwoBits
