------------------------------ MODULE TagPair ------------------------------
(***************************************************************************)
(* The two tests of lib/tag.h, tag_intersects and tag_is_valid, applied to *)
(* every pair of tag_type values.  The flow tracking holds one combination *)
(* of tags per flow (a) and tests it against the tags to revalidate (b);   *)
(* either may be replaced by any value at any time.                        *)
(***************************************************************************)
EXTENDS Tag

VARIABLES
    a,      \* the tags of a flow: any combination of tags
    b       \* the tags tested against it

vars == <<a, b>>

Init ==
    /\ a = 0
    /\ b = 0

Retag(x) ==
    /\ a' = x
    /\ UNCHANGED b

Retest(x) ==
    /\ b' = x
    /\ UNCHANGED a

Next == \E x \in tag_type : Retag(x) \/ Retest(x)

Spec == Init /\ [][Next]_vars

-----------------------------------------------------------------------------
(* x includes the tag t: every 1-bit of t is a 1-bit of x.                 *)
Includes(x, t) == BitsOf(t) \subseteq BitsOf(x)

(* tag.h says of tag_intersects: "Returns true if 'a' and 'b' have at      *)
(* least one tag in common, false if their set of tags is disjoint."  The  *)
(* test x & (x - 1) on a & b must say exactly that: some two-bit tag is    *)
(* included in both, which one common bit is not enough for.               *)
IntersectsIffCommonTag ==
    tag_intersects(a, b) <=>
        \E t \in tag_create_random : Includes(a, t) /\ Includes(b, t)

(* tag.h says of tag_is_valid: "true if exactly two bits are set to 1 and  *)
(* the rest to 0".  The double clearing of the lowest bit, with the        *)
(* unsigned wrap of 0 - 1, must agree with the count of 1-bits for every   *)
(* value, 0 and the all-ones value included.                               *)
ValidIffTwoBits == tag_is_valid(a) <=> PopCount(a) = 2

=============================================================================
