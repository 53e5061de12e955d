------------------------------- MODULE ListT -------------------------------
(***************************************************************************)
(* The doubly linked list of lib/list_t.c and lib/list_t.h: a circular     *)
(* list through a sentinel, the list head.  A struct list_t is a node; the *)
(* state is the 'next' and the 'prev' pointer of every node.               *)
(*                                                                         *)
(* Every function is a pure operator from the memory before the call to    *)
(* the memory after it, its pointer writes applied one after the other in  *)
(* the order of the source, each reading what the earlier ones wrote.  An  *)
(* action is one call.  The code checks none of its preconditions; the     *)
(* guards of the actions are the contracts its comments give ("undefined   *)
(* behavior if 'elem' is not in a list"), so that the model shows what the *)
(* list does for a caller who keeps them.                                  *)
(***************************************************************************)
EXTENDS Naturals, Sequences, FiniteSets, SequencesExt

CONSTANTS
    Heads,      \* the nodes used as list heads
    Elems,      \* the nodes used as elements
    Unset,      \* the pointer of a node that was never written
    NoResult    \* 'ret' before any call has returned a node

Nodes == Heads \cup Elems

ASSUME
    /\ Heads \cap Elems = {}
    /\ IsFiniteSet(Nodes)
    /\ Unset \notin Nodes /\ NoResult \notin Nodes

VARIABLES
    next,       \* next[x]: x->next
    prev,       \* prev[x]: x->prev
    ret         \* the node the last call that returns one returned

vars == <<next, prev, ret>>

(* The memory the functions work on: both pointers of every node.          *)
mem == [next |-> next, prev |-> prev]

(* x->next = y and x->prev = y.                                            *)
SetNext(m, x, y) == [m EXCEPT !.next[x] = y]

SetPrev(m, x, y) == [m EXCEPT !.prev[x] = y]

(* Bound: no walk along pointers takes more steps than there are nodes.    *)
MaxWalk == Cardinality(Nodes)

(* The nodes met from 'from' along the pointers ptr before 'stop'.         *)
RECURSIVE Chain(_, _, _, _)
Chain(ptr, from, stop, fuel) ==
    IF from = stop \/ from \notin Nodes \/ fuel = 0 THEN <<>>
    ELSE Cons(from, Chain(ptr, ptr[from], stop, fuel - 1))

-----------------------------------------------------------------------------
(* The functions of list_t.c.                                              *)

(* Slip: only one of the two pointers set.                                 *)
list_t_init_next_only(m, list) == SetNext(m, list, list)

list_t_init(m, list) == SetNext(SetPrev(m, list, list), list, list)

(* Slip: the last two writes in the other order: before->prev is already   *)
(* 'elem' when it is followed.                                             *)
list_t_insert_late_link(m, before, elem) ==
    LET m1 == SetPrev(m, elem, m.prev[before])
        m2 == SetNext(m1, elem, before)
        m3 == SetPrev(m2, before, elem)
    IN  SetNext(m3, m3.prev[before], elem)

list_t_insert(m, before, elem) ==
    LET m1 == SetPrev(m, elem, m.prev[before])
        m2 == SetNext(m1, elem, before)
        m3 == SetNext(m2, m2.prev[before], elem)
    IN  SetPrev(m3, before, elem)

(* Slip: 'last' taken as the last node moved, not the one after it.        *)
list_t_splice_inclusive(m, before, first, last) ==
    IF first = last THEN m
    ELSE LET m1 == SetNext(m, m.prev[first], m.next[last])
             m2 == SetPrev(m1, m1.next[last], m1.prev[first])
             m3 == SetPrev(m2, first, m2.prev[before])
             m4 == SetNext(m3, last, before)
             m5 == SetNext(m4, m4.prev[before], first)
         IN  SetPrev(m5, before, last)

list_t_splice(m, before, first, last_excl) ==
    IF first = last_excl THEN m
    ELSE LET last == m.prev[last_excl]
             m1 == SetNext(m, m.prev[first], m.next[last])
             m2 == SetPrev(m1, m1.next[last], m1.prev[first])
             m3 == SetPrev(m2, first, m2.prev[before])
             m4 == SetNext(m3, last, before)
             m5 == SetNext(m4, m4.prev[before], first)
         IN  SetPrev(m5, before, last)

list_t_push_front(m, list, elem) == list_t_insert(m, m.next[list], elem)

list_t_push_back(m, list, elem) == list_t_insert(m, list, elem)

list_t_replace(m, element, position) ==
    LET m1 == SetNext(m, element, m.next[position])
        m2 == SetPrev(m1, m1.next[element], element)
        m3 == SetPrev(m2, element, m2.prev[position])
    IN  SetNext(m3, m3.prev[element], element)

(* Slip: the node after 'elem' not told of its new predecessor.            *)
list_t_remove_forward_only(m, elem) ==
    LET m1 == SetNext(m, m.prev[elem], m.next[elem])
    IN  [mem |-> m1, ret |-> m1.next[elem]]

(* The functions that return a node give the memory and the node.          *)
list_t_remove(m, elem) ==
    LET m1 == SetNext(m, m.prev[elem], m.next[elem])
        m2 == SetPrev(m1, m1.next[elem], m1.prev[elem])
    IN  [mem |-> m2, ret |-> m2.next[elem]]

list_t_pop_front(m, list) ==
    LET front == m.next[list]
    IN  [mem |-> list_t_remove(m, front).mem, ret |-> front]

list_t_pop_back(m, list) ==
    LET back == m.prev[list]
    IN  [mem |-> list_t_remove(m, back).mem, ret |-> back]

list_t_is_empty(m, list) == m.next[list] = list

list_t_front(m, list) == m.next[list]

list_t_back(m, list) == m.prev[list]

(* The loop from list->next until it is back at 'list', counting.          *)
list_t_size(m, list) == Len(Chain(m.next, m.next[list], list, MaxWalk))

-----------------------------------------------------------------------------
(* What a caller knows of the nodes, used in the contracts.                *)

(* The elements of the list of h, front to back, and back to front.        *)
Walk(h) == Chain(next, next[h], h, MaxWalk)

WalkBack(h) == Chain(prev, prev[h], h, MaxWalk)

(* The elements that are in a list.                                        *)
Linked == UNION { ToSet(Walk(h)) : h \in Heads }

(* The nodes a caller may name as a position of a list.                    *)
Places == Heads \cup Linked

(* The nodes from 'first' up to 'last', exclusive, are elements of one     *)
(* list: the walk from 'first' comes to 'last' before it comes to a head.  *)
IsRange(first, last) ==
    first # last => ToSet(Chain(next, first, last, MaxWalk)) \subseteq Elems

-----------------------------------------------------------------------------
(* The memory before any call: nothing written, then list_t_init of every  *)
(* head (LIST_INITIALIZER).                                                *)
Blank == [next |-> [x \in Nodes |-> Unset], prev |-> [x \in Nodes |-> Unset]]

InitialMem == FoldLeft(list_t_init, Blank, SetToSeq(Heads))

Init ==
    /\ next = InitialMem.next
    /\ prev = InitialMem.prev
    /\ ret = NoResult

(* A call that returns nothing leaves m, one that returns a node r.        *)
Returns(m) == next' = m.next /\ prev' = m.prev /\ UNCHANGED ret

ReturnsNode(r) == next' = r.mem.next /\ prev' = r.mem.prev /\ ret' = r.ret

(* list_t_init of a head in use: its elements are no longer in a list.     *)
ListInit(list) == Returns(list_t_init(mem, list))

Insert(before, elem) ==
    /\ elem \notin Linked
    /\ Returns(list_t_insert(mem, before, elem))

Splice(before, first, last) ==
    /\ IsRange(first, last)
    /\ before \notin ToSet(Chain(next, first, last, MaxWalk))
    /\ Returns(list_t_splice(mem, before, first, last))

PushFront(list, elem) ==
    /\ elem \notin Linked
    /\ Returns(list_t_push_front(mem, list, elem))

PushBack(list, elem) ==
    /\ elem \notin Linked
    /\ Returns(list_t_push_back(mem, list, elem))

Replace(element, position) ==
    /\ element \notin Linked
    /\ Returns(list_t_replace(mem, element, position))

RemoveElem(elem) == ReturnsNode(list_t_remove(mem, elem))

PopFront(list) ==
    /\ ~list_t_is_empty(mem, list)
    /\ ReturnsNode(list_t_pop_front(mem, list))

PopBack(list) ==
    /\ ~list_t_is_empty(mem, list)
    /\ ReturnsNode(list_t_pop_back(mem, list))

(* list_t_front and list_t_back assert that the list is not empty.         *)
FrontOf(list) ==
    /\ ~list_t_is_empty(mem, list)
    /\ ret' = list_t_front(mem, list)
    /\ UNCHANGED <<next, prev>>

BackOf(list) ==
    /\ ~list_t_is_empty(mem, list)
    /\ ret' = list_t_back(mem, list)
    /\ UNCHANGED <<next, prev>>

Next ==
    \/ \E list \in Heads :
        \/ ListInit(list)
        \/ PopFront(list) \/ PopBack(list)
        \/ FrontOf(list) \/ BackOf(list)
        \/ \E elem \in Elems : PushFront(list, elem) \/ PushBack(list, elem)
    \/ \E before \in Places, elem \in Elems : Insert(before, elem)
    \/ \E before, first, last \in Places : Splice(before, first, last)
    \/ \E element \in Elems, position \in Linked : Replace(element, position)
    \/ \E elem \in Linked : RemoveElem(elem)

Spec == Init /\ [][Next]_vars

-----------------------------------------------------------------------------
TypeOK ==
    /\ next \in [Nodes -> Nodes \cup {Unset}]
    /\ prev \in [Nodes -> Nodes \cup {Unset}]
    /\ ret \in Nodes \cup {NoResult}
    /\ \A x \in Places : next[x] \in Nodes /\ prev[x] \in Nodes

(* The list of a head, the head included.                                  *)
Ring(h) == {h} \cup ToSet(Walk(h))

(* Every function of list_t.c follows prev and next pointers it has not    *)
(* checked.  They lead where they should only if, after any sequence of    *)
(* calls, every list is a ring in both directions: from each node of the   *)
(* list, next and prev stay in the list and undo each other; no head is    *)
(* linked into another list and no element is in two.                      *)
WellFormed ==
    /\ \A h \in Heads : \A x \in Ring(h) :
        /\ next[x] \in Ring(h)
        /\ prev[next[x]] = x
        /\ next[prev[x]] = x
    /\ \A h \in Heads : ToSet(Walk(h)) \subseteq Elems
    /\ \A h1, h2 \in Heads : h1 # h2 => ToSet(Walk(h1)) \cap ToSet(Walk(h2)) = {}

(* A walk from the back (LIST_FOR_EACH_REVERSE, list_t_pop_back) sees what *)
(* a walk from the front sees (LIST_FOR_EACH, list_t_size), reversed: the  *)
(* count of list_t_size is the number of elements either walk visits, and  *)
(* list_t_is_empty, which looks at next only, agrees with prev.            *)
BothWaysAgree ==
    \A h \in Heads :
        /\ WalkBack(h) = Reverse(Walk(h))
        /\ list_t_size(mem, h) = Len(WalkBack(h))
        /\ list_t_is_empty(mem, h) <=> prev[h] = h

(* list_t.c behaves as the sequences its comments speak of: read from the  *)
(* head along next, the lists change with every call as ListSeq says the   *)
(* sequences change ("inserts 'elem' just before 'before'", "removes       *)
(* elements 'first' though 'last' (exclusive) ... then inserts them just   *)
(* before 'before'", "returns the element that followed it"), also when    *)
(* the range spliced is moved within its own list or the nodes named carry *)
(* pointers left over from a list they were in before.                     *)
Abstract == INSTANCE ListSeq WITH seqs <- [h \in Heads |-> Walk(h)], result <- ret

ImplementsListSeq == Abstract!Spec

=============================================================================
