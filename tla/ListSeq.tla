------------------------------ MODULE ListSeq ------------------------------
(***************************************************************************)
(* What the doubly linked list of lib/list_t.c promises to its callers,    *)
(* with the pointers left out: every list head owns a sequence of          *)
(* elements, an element is in at most one sequence, and each operation     *)
(* does to the sequences what its comment in list_t.c says.  'result' is   *)
(* what the last operation that returns a node returned.                   *)
(***************************************************************************)
EXTENDS Naturals, Sequences, SequencesExt

CONSTANTS
    Heads,      \* the list heads
    Elems,      \* the elements that can be put in a list
    NoResult    \* 'result' before any operation has returned a node

VARIABLES seqs, result

vars == <<seqs, result>>

Members(h) == ToSet(seqs[h])

Linked == UNION { Members(h) : h \in Heads }

(* A node of a list: its head, which stands for the end, or an element.    *)
Places == Heads \cup Linked

ListOf(place) ==
    IF place \in Heads THEN place ELSE CHOOSE h \in Heads : place \in Members(h)

(* Where 'place' is in the sequence s of its list; the head is past the    *)
(* last element.                                                           *)
PositionIn(s, place) ==
    IF place \in ToSet(s) THEN CHOOSE i \in DOMAIN s : s[i] = place ELSE Len(s) + 1

(* The node at position i of the list of h, the head being past the end.   *)
NodeAt(h, i) == IF i \in DOMAIN seqs[h] THEN seqs[h][i] ELSE h

(* s with the sequence 'moved' put in just before 'place'.                 *)
PutBefore(s, place, moved) ==
    LET i == PositionIn(s, place)
    IN  SubSeq(s, 1, i - 1) \o moved \o SubSeq(s, i, Len(s))

Without(s, gone) == SelectSeq(s, LAMBDA e : e \notin gone)

-----------------------------------------------------------------------------
Init ==
    /\ seqs = [h \in Heads |-> <<>>]
    /\ result = NoResult

(* "Initializes 'list' as an empty list."                                  *)
Reset(h) ==
    /\ seqs' = [seqs EXCEPT ![h] = <<>>]
    /\ UNCHANGED result

(* "Inserts 'elem' just before 'before'"; at the beginning or the end of a *)
(* list for the two pushes.                                                *)
Insert(place, e) ==
    /\ e \notin Linked
    /\ seqs' = [seqs EXCEPT ![ListOf(place)] = PutBefore(@, place, <<e>>)]
    /\ UNCHANGED result

(* "Removes elements 'first' though 'last' (exclusive) from their current  *)
(* list, then inserts them just before 'before'."                          *)
Splice(place, h, j, k) ==
    LET moved == SubSeq(seqs[h], j, k - 1)
        cut == [seqs EXCEPT ![h] = Without(@, ToSet(moved))]
    IN  /\ j <= k
        /\ place \notin ToSet(moved)
        /\ seqs' = [cut EXCEPT ![ListOf(place)] = PutBefore(@, place, moved)]
        /\ UNCHANGED result

(* "Puts 'elem' in the position currently occupied by 'position'.          *)
(* Afterward, 'position' is not part of a list."                           *)
Replace(e, position) ==
    /\ e \notin Linked
    /\ LET h == ListOf(position)
       IN  seqs' = [seqs EXCEPT ![h] = ReplaceAt(@, PositionIn(@, position), e)]
    /\ UNCHANGED result

(* "Removes 'elem' from its list and returns the element that followed     *)
(* it"; that is the head when 'elem' was the last.                         *)
RemoveElem(e) ==
    LET h == ListOf(e)
    IN  /\ seqs' = [seqs EXCEPT ![h] = Without(@, {e})]
        /\ result' = NodeAt(h, PositionIn(seqs[h], e) + 1)

(* "Removes the front element from 'list' and returns it."                 *)
PopFront(h) ==
    /\ seqs[h] # <<>>
    /\ seqs' = [seqs EXCEPT ![h] = Tail(@)]
    /\ result' = Head(seqs[h])

(* "Removes the back element from 'list' and returns it."                  *)
PopBack(h) ==
    /\ seqs[h] # <<>>
    /\ seqs' = [seqs EXCEPT ![h] = Front(@)]
    /\ result' = Last(seqs[h])

(* "Returns the front element in 'list'."                                  *)
FrontOf(h) ==
    /\ seqs[h] # <<>>
    /\ result' = Head(seqs[h])
    /\ UNCHANGED seqs

(* "Returns the back element in 'list'."                                   *)
BackOf(h) ==
    /\ seqs[h] # <<>>
    /\ result' = Last(seqs[h])
    /\ UNCHANGED seqs

Next ==
    \/ \E h \in Heads : Reset(h) \/ PopFront(h) \/ PopBack(h) \/ FrontOf(h) \/ BackOf(h)
    \/ \E place \in Places, e \in Elems : Insert(place, e)
    \/ \E place \in Places, h \in Heads :
           \E j, k \in 1 .. Len(seqs[h]) + 1 : Splice(place, h, j, k)
    \/ \E e \in Elems, position \in Linked : Replace(e, position)
    \/ \E e \in Linked : RemoveElem(e)

Spec == Init /\ [][Next]_vars

=============================================================================
