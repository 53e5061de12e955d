----------------------------- MODULE MCTagPair -----------------------------
(* TagPair for TLC: tag_type narrowed from 32 to 6 bits (64 values, 4096    *)
(* pairs), which keeps 0, one bit, two bits, more bits and all bits set.    *)
EXTENDS TagPair

MCTagBits == 6
=============================================================================
