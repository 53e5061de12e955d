------------------------------- MODULE MCListT ------------------------------
(***************************************************************************)
(* ListT for TLC: two heads and four elements, so that a range of two      *)
(* elements can be spliced out of the middle of a list, with an element    *)
(* left on either side of it, to another place of that list and into the   *)
(* other list.  The functions of list_t.c treat every element alike, so    *)
(* the elements are a symmetry set; the heads are not (Init and ListSeq    *)
(* choose among them).                                                     *)
(***************************************************************************)
EXTENDS ListT, TLC

CONSTANTS h1, h2, e1, e2, e3, e4

MCHeads == {h1, h2}

MCElems == {e1, e2, e3, e4}

ElemSymmetry == Permutations(MCElems)

=============================================================================
