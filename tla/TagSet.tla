------------------------------- MODULE TagSet -------------------------------
(***************************************************************************)
(* struct tag_set of lib/tag.h: the tags that must be revalidated, kept as *)
(* the OR of all of them (total) and, to reduce the ambiguity of that OR,  *)
(* TAG_SET_SIZE tags kept one by one.  The flow tracking adds tags as the  *)
(* dependencies of its decisions change, tests each flow's tags against    *)
(* the set, and initialises the set again after a round of revalidation.   *)
(*                                                                         *)
(* The tests (tag_set_is_empty, tag_set_intersects) are the inline         *)
(* functions of tag.h.  tag_set_init and tag_set_add are only declared     *)
(* there; they are modelled from section 4.1 of the specification, which   *)
(* reads two ways on what an add does once the array is full:              *)
(*   FoldOnOverflow = FALSE  the tag is ORed into total only (section 4.1) *)
(*   FoldOnOverflow = TRUE   it is also ORed into a slot of the array      *)
(*                           ("an overflow slot", section 3)               *)
(***************************************************************************)
EXTENDS Tag, Sequences, Functions

CONSTANTS
    MaxAdds,            \* bound: adds between two tag_set_init
    FoldOnOverflow      \* which reading of tag_set_add on a full array

ASSUME MaxAdds \in Nat /\ FoldOnOverflow \in BOOLEAN

TAG_SET_SIZE == 4

Slots == 0 .. TAG_SET_SIZE - 1

VARIABLES
    total,      \* set->total
    tags,       \* set->tags[TAG_SET_SIZE]
    n,          \* set->n
    added       \* history: the tags added since tag_set_init, in order

vars == <<total, tags, n, added>>

-----------------------------------------------------------------------------
(* The array as tag_set_init leaves it.  tag_set_intersects reads all four *)
(* slots whatever n is, so the slots never written must hold no tag.       *)
ClearedSlots == [i \in Slots |-> 0]

Init ==
    /\ total = 0
    /\ tags = ClearedSlots
    /\ n = 0
    /\ added = <<>>

tag_set_init ==
    /\ total' = 0
    /\ tags' = ClearedSlots
    /\ n' = 0
    /\ added' = <<>>

(* tag_set_add while the array has room: the tag takes the next slot.      *)
AddAppend(tag) ==
    /\ n < TAG_SET_SIZE
    /\ tags' = [tags EXCEPT ![n] = tag]
    /\ n' = n + 1
    /\ total' = total | tag

(* Slip: n counts the adds on a full array too.                            *)
AddOverflow_counts(tag) ==
    /\ n >= TAG_SET_SIZE
    /\ UNCHANGED tags
    /\ n' = n + 1
    /\ total' = total | tag

(* tag_set_add on a full array: total always takes the tag; the array      *)
(* takes it, in some slot, only under the section 3 reading.               *)
AddOverflow(tag) ==
    /\ n >= TAG_SET_SIZE
    /\ IF FoldOnOverflow
         THEN \E i \in Slots : tags' = [tags EXCEPT ![i] = @ | tag]
         ELSE UNCHANGED tags
    /\ UNCHANGED n
    /\ total' = total | tag

(* Callers add only tags made by tag_create_random or                      *)
(* tag_create_deterministic.                                               *)
tag_set_add(tag) ==
    /\ Len(added) < MaxAdds
    /\ AddAppend(tag) \/ AddOverflow(tag)
    /\ added' = Append(added, tag)

(* Slip: the negation dropped.                                             *)
tag_set_is_empty_inverted == n # 0

tag_set_is_empty == n = 0

(* Slip: one of the four slot tests left out.                              *)
tag_set_intersects_skips_slot(q) ==
    /\ tag_intersects(total, q)
    /\ \E i \in Slots \ {0} : tag_intersects(tags[i], q)

tag_set_intersects(q) ==
    /\ tag_intersects(total, q)
    /\ \E i \in Slots : tag_intersects(tags[i], q)

Next ==
    \/ \E tag \in tag_create_random : tag_set_add(tag)
    \/ tag_set_init

Spec == Init /\ [][Next]_vars

-----------------------------------------------------------------------------
TypeOK ==
    /\ total \in tag_type
    /\ tags \in [Slots -> tag_type]
    /\ n \in 0 .. TAG_SET_SIZE
    /\ added \in Seq(tag_create_random)

(* tag.h: "A tag set accumulates tags with reduced ambiguity compared to a *)
(* single tag."  Until an add finds the array full, the two stages of      *)
(* tag_set_intersects leave no ambiguity for a single tag: it intersects   *)
(* exactly when it is one of the tags added, although total alone would    *)
(* accept every pair of its bits, and although slots beyond n are read     *)
(* too.                                                                    *)
StoredTagsAnswerExactly ==
    Len(added) <= TAG_SET_SIZE =>
        \A q \in tag_create_random : tag_set_intersects(q) <=> q \in Range(added)

(* tag.h says of tag_set_is_empty: "Returns true if 'set' will match no    *)
(* tags at all, false if it will match at least one tag".  It looks at n   *)
(* only, tag_set_intersects at total and the slots only: the three must    *)
(* stay in step through adds and re-initialisation.                        *)
EmptyMatchesNothing ==
    tag_set_is_empty <=> \A q \in tag_type : ~tag_set_intersects(q)

(* tag.h: "a value that is the bitwise-OR combination of a number of tags  *)
(* will always include the tags that were combined", and section 8 of the  *)
(* specification: after five adds "intersects(set, t5) is true (caught by  *)
(* total even though the array only holds the first 4)".  No tag added     *)
(* since tag_set_init may test as absent, or a flow that depends on it is  *)
(* not revalidated.                                                        *)
NoFalseNegative ==
    \A i \in DOMAIN added : tag_set_intersects(added[i])

=============================================================================
