------------------------------ MODULE ListIter ------------------------------
(***************************************************************************)
(* The three loops of lib/list_t.h over a list of ListT:                   *)
(*                                                                         *)
(*   LIST_FOR_EACH          ITER = LIST->next; ITER != LIST; ITER->next    *)
(*   LIST_FOR_EACH_REVERSE  ITER = LIST->prev; ITER != LIST; ITER->prev    *)
(*   LIST_FOR_EACH_SAFE     as the first, but NEXT = ITER->next is read in *)
(*                          the test, before the body, and ITER = NEXT     *)
(*                                                                         *)
(* The body is the caller's.  Here it looks at ITER and then leaves the    *)
(* list alone or removes one element with list_t_remove and frees it,      *)
(* which is what the loops of the switch do with the _SAFE form.  What a   *)
(* body may remove is the contract of the macro it is in: not ITER in the  *)
(* plain loops, which read ITER's pointer after the body, and not NEXT in  *)
(* the _SAFE loop, which continues from it.  A freed node is memory the    *)
(* loop must not read; a read of it can give any node.                     *)
(***************************************************************************)
EXTENDS Naturals, Sequences, FiniteSets, SequencesExt

CONSTANTS Heads, Elems, Unset, NoResult,
          LIST      \* the head of the list the loops run over

VARIABLES
    next, prev, ret,    \* the list, as in ListT
    macro,              \* the loop that runs
    pc,                 \* where it is: "idle", "test", "body", "step"
    ITER,               \* the loop variable
    NEXT,               \* the second loop variable of LIST_FOR_EACH_SAFE
    seen,               \* the nodes the body has run for in this loop
    freed               \* the nodes that were freed

L == INSTANCE ListT

loop == <<macro, pc, ITER, NEXT, seen>>

vars == <<next, prev, ret, macro, pc, ITER, NEXT, seen, freed>>

Macros == {"LIST_FOR_EACH", "LIST_FOR_EACH_REVERSE", "LIST_FOR_EACH_SAFE"}

ASSUME LIST \in Heads

-----------------------------------------------------------------------------
(* The three clauses of the for statements.                                *)

(* x->next or x->prev, which is undefined when x was freed or was never    *)
(* given a value.                                                          *)
Read(ptr, x) == IF x \in freed \/ ptr[x] = Unset THEN L!Nodes ELSE {ptr[x]}

(* The first clause: where the loop m starts.                              *)
First(m) == IF m = "LIST_FOR_EACH_REVERSE" THEN prev[LIST] ELSE next[LIST]

(* Slip: the node itself cached, not the one after it.                     *)
Cached_self == {ITER}

(* NEXT = ITER->next, the first half of the test of LIST_FOR_EACH_SAFE.    *)
Cached == Read(next, ITER)

(* Slip: the _SAFE loop advancing like the plain one.                      *)
Advance_unsafe ==
    IF macro = "LIST_FOR_EACH_REVERSE" THEN Read(prev, ITER) ELSE Read(next, ITER)

(* Slip: the reverse loop advancing forwards.                              *)
Advance_forward ==
    IF macro = "LIST_FOR_EACH_SAFE" THEN {NEXT} ELSE Read(next, ITER)

(* The third clause: what ITER can be after it.                            *)
Advance ==
    CASE macro = "LIST_FOR_EACH" -> Read(next, ITER)
      [] macro = "LIST_FOR_EACH_REVERSE" -> Read(prev, ITER)
      [] macro = "LIST_FOR_EACH_SAFE" -> {NEXT}

(* What the body may remove without breaking the loop it is in: in the     *)
(* plain loops any element but ITER, in the _SAFE loop any but NEXT.  Of   *)
(* ITER the body knows only that the loop handed it over: it removes it    *)
(* also when an earlier round did, through the pointers that round left.   *)
Removable ==
    IF macro = "LIST_FOR_EACH_SAFE" THEN (L!Linked \cup ({ITER} \cap freed)) \ {NEXT}
    ELSE L!Linked \ {ITER}

-----------------------------------------------------------------------------
Init ==
    /\ L!Init
    /\ macro = "LIST_FOR_EACH"
    /\ pc = "idle"
    /\ ITER = Unset /\ NEXT = Unset
    /\ seen = {}
    /\ freed = {}

(* Between two loops the caller puts a node, new or freed before, at the   *)
(* back of the list.                                                       *)
Fill(elem) ==
    /\ pc = "idle"
    /\ L!PushBack(LIST, elem)
    /\ freed' = freed \ {elem}
    /\ UNCHANGED loop

(* The first clause of the for statement.                                  *)
Enter(m) ==
    /\ pc = "idle"
    /\ macro' = m
    /\ ITER' = First(m)
    /\ pc' = "test"
    /\ seen' = {}
    /\ UNCHANGED <<next, prev, ret, NEXT, freed>>

(* The second clause: for the _SAFE loop the read of NEXT, then for all    *)
(* the comparison of ITER with LIST.                                       *)
Test ==
    /\ pc = "test"
    /\ IF macro = "LIST_FOR_EACH_SAFE" THEN NEXT' \in Cached ELSE UNCHANGED NEXT
    /\ pc' = IF ITER = LIST THEN "idle" ELSE "body"
    /\ UNCHANGED <<next, prev, ret, macro, ITER, seen, freed>>

(* The body looks at ITER and changes nothing.                             *)
BodyKeeps ==
    /\ pc = "body"
    /\ seen' = seen \cup {ITER}
    /\ pc' = "step"
    /\ UNCHANGED <<next, prev, ret, macro, ITER, NEXT, freed>>

(* The body looks at ITER, removes 'elem' from the list and frees it.      *)
BodyRemoves(elem) ==
    /\ pc = "body"
    /\ seen' = seen \cup {ITER}
    /\ L!RemoveElem(elem)
    /\ freed' = freed \cup {elem}
    /\ pc' = "step"
    /\ UNCHANGED <<macro, ITER, NEXT>>

(* The third clause.                                                       *)
Step ==
    /\ pc = "step"
    /\ ITER' \in Advance
    /\ pc' = "test"
    /\ UNCHANGED <<next, prev, ret, macro, NEXT, seen, freed>>

Iterate == Test \/ BodyKeeps \/ (\E elem \in Removable : BodyRemoves(elem)) \/ Step

Next ==
    \/ \E elem \in Elems : Fill(elem)
    \/ \E m \in Macros : Enter(m)
    \/ Iterate

(* A loop that was entered runs on: the program does not stop between two  *)
(* clauses of a for statement.                                             *)
Spec == Init /\ [][Next]_vars /\ WF_vars(Iterate)

-----------------------------------------------------------------------------
TypeOK ==
    /\ L!TypeOK
    /\ macro \in Macros
    /\ pc \in {"idle", "test", "body", "step"}
    /\ ITER \in L!Nodes \cup {Unset}
    /\ NEXT \in L!Nodes \cup {Unset}
    /\ seen \subseteq Elems
    /\ freed \subseteq Elems

(* The node whose pointer the loop reads next.                             *)
ReadsPointerOf ==
    CASE pc = "test" /\ macro = "LIST_FOR_EACH_SAFE" -> {ITER}
      [] pc = "step" /\ macro # "LIST_FOR_EACH_SAFE" -> {ITER}
      [] OTHER -> {}

(* No loop touches freed memory: the body is never run for a node that was *)
(* freed, and ITER->next or ITER->prev is never read from one.  For        *)
(* LIST_FOR_EACH_SAFE this is what NEXT is for: the body frees ITER, and   *)
(* the loop continues from the pointer it read before.                     *)
NoUseAfterFree ==
    /\ pc = "body" => ITER \notin freed
    /\ ReadsPointerOf \cap freed = {}

(* The nodes the loop will still come to, from where it continues.         *)
Ahead ==
    LET ptr == IF macro = "LIST_FOR_EACH_REVERSE" THEN prev ELSE next
        from == IF pc = "step" THEN Advance ELSE {ITER}
    IN  UNION { ToSet(L!Chain(ptr, c, LIST, L!MaxWalk)) : c \in from }

(* While a loop runs, every element of the list has had its turn or is     *)
(* still ahead, and none that had its turn is ahead again, whatever the    *)
(* body removed on the way, before or behind ITER: when the loop ends, the *)
(* body has run once for each element that is left.                        *)
EachElementOnce ==
    pc # "idle" =>
        /\ L!Linked \subseteq seen \cup Ahead
        /\ seen \cap Ahead = {}

(* list_t.c says of list_t_remove: "Undefined behavior if 'elem' is not in *)
(* a list."  The body of a _SAFE loop removes the node it is handed and    *)
(* cannot tell whether it still is in one.  No loop hands its body a node  *)
(* that an earlier round removed, so no node is unlinked twice through     *)
(* pointers that have gone stale, and the list is a ring in both           *)
(* directions in every round and when the loop is over.                    *)
ListSurvivesLoop == L!WellFormed

(* Every loop ends: it comes back to LIST, after at most as many rounds as *)
(* the list had elements, also when the body removes elements on the way.  *)
LoopEnds == (pc # "idle") ~> (pc = "idle")

=============================================================================
