----------------------------- MODULE MCListIter -----------------------------
(***************************************************************************)
(* ListIter for TLC: one list of up to three elements.  Three elements     *)
(* give a loop a node before ITER, ITER, and a node after it, so a body    *)
(* can remove on either side of the cursor and the cursor itself.          *)
(***************************************************************************)
EXTENDS ListIter

CONSTANTS h1, e1, e2, e3

MCHeads == {h1}

MCElems == {e1, e2, e3}

=============================================================================
