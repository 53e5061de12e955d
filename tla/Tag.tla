-------------------------------- MODULE Tag --------------------------------
(***************************************************************************)
(* Tags of lib/tag.h: the superimposed code the flow tracking uses to name *)
(* the dependencies of a switching decision.  A tag is a tag_type value in *)
(* which exactly two bits are set; tags are combined with bitwise OR.      *)
(*                                                                         *)
(* This module has no state: it holds the bit tricks of tag.h as operators *)
(* over naturals below 2^TAG_BITS, and the definitions by sets of bit      *)
(* positions they are checked against (module TagPair).                    *)
(***************************************************************************)
EXTENDS Naturals, FiniteSets, Bitwise

CONSTANT TAG_BITS       \* width of tag_type in bits (uint32_t: 32)

ASSUME TAG_BITS \in Nat /\ TAG_BITS >= 2

TagLimit == 2^TAG_BITS

(* typedef uint32_t tag_type: a tag, or the combination of 0 or more tags. *)
tag_type == 0 .. TagLimit - 1

(* x - 1 in tag_type: unsigned arithmetic, 0 - 1 is the all-ones value.    *)
Decr(x) == (x + TagLimit - 1) % TagLimit

(* x & (x - 1): x with its lowest 1-bit cleared (0 stays 0).               *)
ClearLowest(x) == x & Decr(x)

(* Slip: the test relaxed to "any bit in common".                           *)
tag_intersects_any_bit(a, b) == (a & b) # 0

tag_intersects(a, b) == ClearLowest(a & b) # 0

(* Slip: the second clearing left out, "at least two bits".                *)
tag_is_valid_no_upper(tag) == ClearLowest(tag) # 0

tag_is_valid(tag) ==
    LET x == ClearLowest(tag)
        y == ClearLowest(x)
    IN  x # 0 /\ y = 0

(* tag_create_random and tag_create_deterministic both set two distinct    *)
(* bits; what they can return is the set of all values with two bits set.  *)
tag_create_random ==
    { 2^i + 2^j : <<i, j>> \in { p \in (0 .. TAG_BITS - 1) \X (0 .. TAG_BITS - 1) :
                                    p[1] < p[2] } }

-----------------------------------------------------------------------------
(* Reference definitions, by the set of positions of the 1-bits.           *)

BitsOf(x) == { i \in 0 .. TAG_BITS - 1 : (x \div 2^i) % 2 = 1 }

PopCount(x) == Cardinality(BitsOf(x))

CommonBits(a, b) == BitsOf(a) \cap BitsOf(b)

=============================================================================
