--------------------------- MODULE IntrusiveList ---------------------------
(***************************************************************************)
(* The circular doubly linked lists of list.h.  A memory m maps every      *)
(* struct list, a head or a member of some structure, to its two pointers. *)
(***************************************************************************)
EXTENDS Integers, Sequences

Link(n, p) == [n |-> n, p |-> p]

SetNext(m, x, y) == [m EXCEPT ![x] = Link(y, m[x].p)]
SetPrev(m, x, y) == [m EXCEPT ![x] = Link(m[x].n, y)]

LIST_INIT(m, l) == [m EXCEPT ![l] = Link(l, l)]

(* Adds el behind the head: four assignments, in the order of the macro.   *)
LIST_ADD(m, lh, el) ==
    LET first == m[lh].n
        m1 == SetNext(m, el, first)
        m2 == SetNext(m1, lh, el)
        m3 == SetPrev(m2, first, el)
    IN  SetPrev(m3, el, lh)

MutantLIST_DEL(m, el) == SetPrev(m, m[el].n, m[el].p)

(* Takes el out of whatever list it is in; el keeps its own pointers.      *)
LIST_DEL(m, el) ==
    LET m1 == SetPrev(m, m[el].n, m[el].p)
    IN  SetNext(m1, m1[el].p, m1[el].n)

LIST_ISEMPTY(m, lh) == m[lh].n = lh

(* The i-th node of the ring that starts and ends at its head. *)
RingNode(lh, order, i) ==
    IF i = 0 \/ i = Len(order) + 1 THEN lh ELSE order[i]

(* The memory holds, from lh, exactly the list order, both ways round.     *)
Represents(m, lh, order) ==
    /\ \A i \in 0 .. Len(order) :
         /\ m[RingNode(lh, order, i)].n = RingNode(lh, order, i + 1)
         /\ m[RingNode(lh, order, i + 1)].p = RingNode(lh, order, i)
    /\ \A i, j \in 1 .. Len(order) : order[i] = order[j] => i = j
    /\ \A i \in 1 .. Len(order) : order[i] # lh

WithoutNth(order, k) ==
    [i \in 1 .. Len(order) - 1 |-> IF i < k THEN order[i] ELSE order[i + 1]]
=============================================================================
