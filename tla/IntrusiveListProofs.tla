------------------------ MODULE IntrusiveListProofs ------------------------
(***************************************************************************)
(* What the macros of list.h do to a list, for every memory and every list *)
(* in it: the one they are applied to, and any other.                      *)
(***************************************************************************)
EXTENDS IntrusiveList, TLAPS

Memory(N) == [N -> [n : N, p : N]]

LEMMA LinkFields == \A a, b : Link(a, b).n = a /\ Link(a, b).p = b
BY DEF Link

(* Everything a list passes through. *)
Ring(lh, order) == {lh} \cup {order[i] : i \in 1 .. Len(order)}

(* The pointers after LIST_ADD, node by node: the three nodes it touches,  *)
(* and no other.                                                           *)
LEMMA AddEffect ==
    ASSUME NEW N, NEW m \in Memory(N), NEW lh \in N, NEW el \in N,
           el # lh, el # m[lh].n
    PROVE  /\ LIST_ADD(m, lh, el) \in Memory(N)
           /\ \A x \in N :
                /\ LIST_ADD(m, lh, el)[x].n =
                     IF x = el THEN m[lh].n ELSE IF x = lh THEN el ELSE m[x].n
                /\ LIST_ADD(m, lh, el)[x].p =
                     IF x = el THEN lh ELSE IF x = m[lh].n THEN el ELSE m[x].p
                /\ x \notin {lh, el, m[lh].n}
                     => LIST_ADD(m, lh, el)[x] = m[x]
<1> DEFINE first == m[lh].n
           m1 == SetNext(m, el, first)
           m2 == SetNext(m1, lh, el)
           m3 == SetPrev(m2, first, el)
           m4 == SetPrev(m3, el, lh)
<1>1. first \in N
  BY DEF Memory
<1>2. /\ m1 \in Memory(N)
      /\ \A x \in N : m1[x] = IF x = el THEN Link(first, m[x].p) ELSE m[x]
  BY <1>1 DEF Memory, SetNext, Link
<1>3. /\ m2 \in Memory(N)
      /\ \A x \in N : m2[x] = IF x = lh THEN Link(el, m1[x].p) ELSE m1[x]
  <2> HIDE DEF m1
  <2> QED  BY <1>2 DEF Memory, SetNext, Link
<1>4. /\ m3 \in Memory(N)
      /\ \A x \in N : m3[x] = IF x = first THEN Link(m2[x].n, el) ELSE m2[x]
  <2> HIDE DEF m2, first
  <2> QED  BY <1>1, <1>3 DEF Memory, SetPrev, Link
<1>5. /\ m4 \in Memory(N)
      /\ \A x \in N : m4[x] = IF x = el THEN Link(m3[x].n, lh) ELSE m3[x]
  <2> HIDE DEF m3
  <2> QED  BY <1>4 DEF Memory, SetPrev, Link
<1>6. LIST_ADD(m, lh, el) = m4
  BY DEF LIST_ADD
<1>7. \A x \in N :
        /\ m4[x].n = IF x = el THEN first ELSE IF x = lh THEN el ELSE m[x].n
        /\ m4[x].p = IF x = el THEN lh ELSE IF x = first THEN el ELSE m[x].p
        /\ x \notin {lh, el, first} => m4[x] = m[x]
  <2> HIDE DEF m1, m2, m3, m4, first
  <2> TAKE x \in N
  <2>1. el # first /\ el # lh
    BY DEF first
  <2>2. /\ m4[x] = IF x = el THEN Link(m3[x].n, lh) ELSE m3[x]
        /\ m3[x] = IF x = first THEN Link(m2[x].n, el) ELSE m2[x]
        /\ m2[x] = IF x = lh THEN Link(el, m1[x].p) ELSE m1[x]
        /\ m1[x] = IF x = el THEN Link(first, m[x].p) ELSE m[x]
    BY <1>2, <1>3, <1>4, <1>5
  <2> QED  BY <2>1, <2>2, LinkFields
<1> QED  BY <1>5, <1>6, <1>7

(* The pointers after LIST_DEL, node by node. *)
LEMMA DelEffect ==
    ASSUME NEW N, NEW m \in Memory(N), NEW el \in N,
           el # m[el].n, el # m[el].p
    PROVE  /\ LIST_DEL(m, el) \in Memory(N)
           /\ \A x \in N :
                /\ LIST_DEL(m, el)[x].n = IF x = m[el].p THEN m[el].n ELSE m[x].n
                /\ LIST_DEL(m, el)[x].p = IF x = m[el].n THEN m[el].p ELSE m[x].p
                /\ x \notin {m[el].n, m[el].p} => LIST_DEL(m, el)[x] = m[x]
<1> DEFINE nx == m[el].n
           pv == m[el].p
           m1 == SetPrev(m, nx, pv)
           m2 == SetNext(m1, pv, nx)
<1>1. nx \in N /\ pv \in N
  BY DEF Memory
<1>2. /\ m1 \in Memory(N)
      /\ \A x \in N : m1[x] = IF x = nx THEN Link(m[x].n, pv) ELSE m[x]
  <2> HIDE DEF nx, pv
  <2> QED  BY <1>1 DEF Memory, SetPrev, Link
<1>3. /\ m2 \in Memory(N)
      /\ \A x \in N : m2[x] = IF x = pv THEN Link(nx, m1[x].p) ELSE m1[x]
  <2> HIDE DEF m1, nx, pv
  <2> QED  BY <1>1, <1>2 DEF Memory, SetNext, Link
<1>4. m1[el] = m[el]
  BY <1>2
<1>5. LIST_DEL(m, el) = m2
  BY <1>4 DEF LIST_DEL
<1>6. \A x \in N :
        /\ m2[x].n = IF x = pv THEN nx ELSE m[x].n
        /\ m2[x].p = IF x = nx THEN pv ELSE m[x].p
        /\ x \notin {nx, pv} => m2[x] = m[x]
  <2> HIDE DEF m1, m2, nx, pv
  <2> TAKE x \in N
  <2>1. /\ m2[x] = IF x = pv THEN Link(nx, m1[x].p) ELSE m1[x]
        /\ m1[x] = IF x = nx THEN Link(m[x].n, pv) ELSE m[x]
    BY <1>2, <1>3
  <2> QED  BY <2>1, LinkFields
<1> QED  BY <1>3, <1>5, <1>6

(* A list is not disturbed by what happens outside the nodes it passes.    *)
LEMMA Frame ==
    ASSUME NEW m, NEW q, NEW lh, NEW order, Len(order) \in Nat,
           Represents(m, lh, order),
           \A x \in Ring(lh, order) : q[x] = m[x]
    PROVE  Represents(q, lh, order)
<1>1. \A i \in 0 .. Len(order) + 1 : RingNode(lh, order, i) \in Ring(lh, order)
  BY DEF RingNode, Ring
<1>2. \A i \in 0 .. Len(order) :
        /\ q[RingNode(lh, order, i)] = m[RingNode(lh, order, i)]
        /\ q[RingNode(lh, order, i + 1)] = m[RingNode(lh, order, i + 1)]
  BY <1>1
<1> QED  BY <1>2 DEF Represents

(* What follows the head, and what a member's pointers are. *)
LEMMA RingPointers ==
    ASSUME NEW m, NEW lh, NEW order, Len(order) \in Nat,
           Represents(m, lh, order)
    PROVE  /\ m[lh].n = RingNode(lh, order, 1)
           /\ \A k \in 1 .. Len(order) :
                /\ m[order[k]].n = RingNode(lh, order, k + 1)
                /\ m[order[k]].p = RingNode(lh, order, k - 1)
                /\ order[k] # m[order[k]].n
                /\ order[k] # m[order[k]].p
<1>1. m[lh].n = RingNode(lh, order, 1)
  BY DEF Represents, RingNode
<1>2. ASSUME NEW k \in 1 .. Len(order)
      PROVE  /\ m[order[k]].n = RingNode(lh, order, k + 1)
             /\ m[order[k]].p = RingNode(lh, order, k - 1)
  <2>1. k \in 0 .. Len(order) /\ k - 1 \in 0 .. Len(order) /\ (k - 1) + 1 = k
    OBVIOUS
  <2>2. RingNode(lh, order, k) = order[k]
    BY DEF RingNode
  <2> QED  BY <2>1, <2>2 DEF Represents
<1>3. ASSUME NEW k \in 1 .. Len(order)
      PROVE  /\ order[k] # RingNode(lh, order, k + 1)
             /\ order[k] # RingNode(lh, order, k - 1)
  BY DEF Represents, RingNode
<1> QED  BY <1>1, <1>2, <1>3

LEMMA RingInN ==
    ASSUME NEW N, NEW lh \in N, NEW order \in Seq(N)
    PROVE  \A i \in 0 .. Len(order) + 1 : RingNode(lh, order, i) \in N
BY DEF RingNode

(* No node is passed twice on the way round. *)
LEMMA RingInjective ==
    ASSUME NEW m, NEW lh, NEW order, Len(order) \in Nat,
           Represents(m, lh, order)
    PROVE  /\ \A i, j \in 0 .. Len(order) :
                RingNode(lh, order, i) = RingNode(lh, order, j) => i = j
           /\ \A i, j \in 1 .. Len(order) + 1 :
                RingNode(lh, order, i) = RingNode(lh, order, j) => i = j
BY DEF Represents, RingNode

LEMMA PrependFacts ==
    ASSUME NEW S, NEW order \in Seq(S), NEW el \in S
    PROVE  /\ <<el>> \o order \in Seq(S)
           /\ Len(<<el>> \o order) = Len(order) + 1
           /\ (<<el>> \o order)[1] = el
           /\ \A i \in 1 .. Len(order) : (<<el>> \o order)[i + 1] = order[i]
OBVIOUS

LEMMA WithoutFacts ==
    ASSUME NEW S, NEW order \in Seq(S), NEW k \in 1 .. Len(order)
    PROVE  /\ WithoutNth(order, k) \in Seq(S)
           /\ Len(WithoutNth(order, k)) = Len(order) - 1
           /\ \A i \in 1 .. Len(order) - 1 :
                WithoutNth(order, k)[i] = IF i < k THEN order[i] ELSE order[i + 1]
BY DEF WithoutNth

(* LIST_ADD of a node that is not in the list puts it first, and leaves a  *)
(* well-formed list: the macro of list.h:83.                               *)
THEOREM AddPutsFirst ==
    ASSUME NEW N, NEW m \in Memory(N), NEW lh \in N, NEW el \in N,
           NEW order \in Seq(N),
           Represents(m, lh, order), el \notin Ring(lh, order)
    PROVE  Represents(LIST_ADD(m, lh, el), lh, <<el>> \o order)
<1> DEFINE q == LIST_ADD(m, lh, el)
           new == <<el>> \o order
           RN(i) == RingNode(lh, order, i)
           RM(i) == RingNode(lh, new, i)
<1>1. Len(order) \in Nat
  OBVIOUS
<1>2. /\ Len(new) = Len(order) + 1
      /\ new[1] = el
      /\ \A i \in 1 .. Len(order) : new[i + 1] = order[i]
  BY PrependFacts
<1>3. m[lh].n = RN(1)
  BY <1>1, RingPointers
<1>4. \A i \in 0 .. Len(order) + 1 : RN(i) # el
  BY DEF RingNode, Ring
<1>5. /\ RM(0) = lh /\ RM(1) = el
      /\ \A i \in 1 .. Len(order) + 1 : RM(i + 1) = RN(i)
  <2> HIDE DEF new
  <2> QED  BY <1>1, <1>2 DEF RingNode
<1>6. el # lh /\ el # m[lh].n
  BY <1>1, <1>3, <1>4 DEF Ring
<1>7. \A x \in N :
        /\ q[x].n = IF x = el THEN m[lh].n ELSE IF x = lh THEN el ELSE m[x].n
        /\ q[x].p = IF x = el THEN lh ELSE IF x = m[lh].n THEN el ELSE m[x].p
  BY <1>6, AddEffect
<1>8. /\ \A i \in 0 .. Len(order) : RN(i) \in N
      /\ \A i \in 0 .. Len(order) : RN(i + 1) \in N
      /\ \A i \in 0 .. Len(order) : m[RN(i)].n = RN(i + 1) /\ m[RN(i + 1)].p = RN(i)
  <2>1. \A i \in 0 .. Len(order) : m[RN(i)].n = RN(i + 1) /\ m[RN(i + 1)].p = RN(i)
    BY DEF Represents
  <2>2. \A i \in 0 .. Len(order) :
          i \in 0 .. Len(order) + 1 /\ i + 1 \in 0 .. Len(order) + 1
    BY <1>1
  <2> QED  BY <2>1, <2>2, RingInN
<1>9. ASSUME NEW i \in 0 .. Len(new)
      PROVE  q[RM(i)].n = RM(i + 1) /\ q[RM(i + 1)].p = RM(i)
  <2> HIDE DEF q, new, RN, RM
  <2>1. CASE i = 0
    BY <2>1, <1>5, <1>6, <1>7
  <2>2. CASE i = 1
    <3>1. RM(2) = RN(1) /\ RN(1) \in N /\ RN(1) # el
      <4>1. 0 \in 0 .. Len(order) /\ 1 \in 1 .. Len(order) + 1 /\ 0 + 1 = 1 /\ 1 + 1 = 2
            /\ 1 \in 0 .. Len(order) + 1
        BY <1>1
      <4> QED  BY <4>1, <1>4, <1>5, <1>8
    <3> QED  BY <2>2, <3>1, <1>3, <1>5, <1>6, <1>7
  <2>3. CASE i \in 2 .. Len(order) + 1
    <3>1. /\ i - 1 \in 1 .. Len(order) + 1 /\ i \in 1 .. Len(order) + 1
          /\ i - 1 \in 0 .. Len(order) /\ i \in 0 .. Len(order) + 1
          /\ (i - 1) + 1 = i /\ i # 1 /\ i - 1 # 0
          /\ 1 \in 1 .. Len(order) + 1 /\ 0 \in 0 .. Len(order)
          /\ i - 1 \in 0 .. Len(order) + 1
      BY <1>1, <2>3
    <3>2. /\ RM(i) = RN(i - 1) /\ RM(i + 1) = RN(i)
          /\ RN(i - 1) \in N /\ RN(i) \in N
          /\ m[RN(i - 1)].n = RN(i) /\ m[RN(i)].p = RN(i - 1)
      BY <3>1, <1>5, <1>8
    <3>3. RN(i) # RN(1) /\ RN(i - 1) # RN(0)
      BY <3>1, <1>1, RingInjective DEF RN
    <3>4. RN(0) = lh
      BY DEF RN, RingNode
    <3> QED  BY <3>1, <3>2, <3>3, <3>4, <1>3, <1>4, <1>7
  <2> QED  BY <2>1, <2>2, <2>3, <1>1, <1>2
<1>10. \A i, j \in 1 .. Len(new) : new[i] = new[j] => i = j
  <2>1. \A i \in 1 .. Len(new) : new[i] = IF i = 1 THEN el ELSE order[i - 1]
    <3> HIDE DEF new
    <3> TAKE i \in 1 .. Len(new)
    <3>1. CASE i = 1
      BY <3>1, <1>2
    <3>2. CASE i # 1
      <4>1. i - 1 \in 1 .. Len(order) /\ (i - 1) + 1 = i
        BY <1>1, <1>2, <3>2
      <4> QED  BY <4>1, <3>2, <1>2
    <3> QED  BY <3>1, <3>2
  <2>2. \A i \in 1 .. Len(order) : order[i] # el
    BY DEF Ring
  <2>3. \A i, j \in 1 .. Len(order) : order[i] = order[j] => i = j
    BY DEF Represents
  <2> HIDE DEF new
  <2> SUFFICES ASSUME NEW i \in 1 .. Len(new), NEW j \in 1 .. Len(new),
                      new[i] = new[j]
               PROVE  i = j
    OBVIOUS
  <2>4. /\ i # 1 => i - 1 \in 1 .. Len(order)
        /\ j # 1 => j - 1 \in 1 .. Len(order)
    BY <1>1, <1>2
  <2>5. i = 1 <=> j = 1
    BY <2>1, <2>2, <2>4
  <2>6. CASE i # 1 /\ j # 1
    <3>1. order[i - 1] = order[j - 1]
      BY <2>1, <2>6
    <3> QED  BY <2>3, <2>4, <2>6, <3>1, <1>1, <1>2
  <2> QED  BY <2>5, <2>6
<1>11. \A i \in 1 .. Len(new) : new[i] # lh
  <2> SUFFICES ASSUME NEW i \in 1 .. Len(new) PROVE new[i] # lh
    OBVIOUS
  <2>1. CASE i = 1
    BY <2>1, <1>2, <1>6
  <2>2. CASE i # 1
    <3> HIDE DEF new
    <3>1. i - 1 \in 1 .. Len(order) /\ (i - 1) + 1 = i
      BY <1>1, <1>2, <2>2
    <3>2. new[i] = order[i - 1]
      BY <3>1, <1>2
    <3> QED  BY <3>1, <3>2 DEF Represents
  <2> QED  BY <2>1, <2>2
<1> QED  BY <1>9, <1>10, <1>11 DEF Represents

(* LIST_DEL of a member, wherever it is, leaves the list without it: the   *)
(* macro of list.h:110.                                                    *)
THEOREM DelTakesOut ==
    ASSUME NEW N, NEW m \in Memory(N), NEW lh \in N,
           NEW order \in Seq(N),
           Represents(m, lh, order), NEW k \in 1 .. Len(order)
    PROVE  Represents(LIST_DEL(m, order[k]), lh, WithoutNth(order, k))
<1> DEFINE el == order[k]
           q == LIST_DEL(m, el)
           new == WithoutNth(order, k)
           RN(i) == RingNode(lh, order, i)
           RM(i) == RingNode(lh, new, i)
<1>1. Len(order) \in Nat /\ k \in Nat
  OBVIOUS
<1>2. /\ Len(new) = Len(order) - 1
      /\ \A i \in 1 .. Len(new) : new[i] = IF i < k THEN order[i] ELSE order[i + 1]
  BY WithoutFacts
<1>3. /\ m[el].n = RN(k + 1) /\ m[el].p = RN(k - 1)
      /\ el # m[el].n /\ el # m[el].p
  BY <1>1, RingPointers
<1>4. /\ \A i \in 0 .. Len(order) : RN(i) \in N
      /\ \A i \in 0 .. Len(order) : RN(i + 1) \in N
      /\ \A i \in 0 .. Len(order) : m[RN(i)].n = RN(i + 1) /\ m[RN(i + 1)].p = RN(i)
  <2>1. \A i \in 0 .. Len(order) : m[RN(i)].n = RN(i + 1) /\ m[RN(i + 1)].p = RN(i)
    BY DEF Represents
  <2>2. \A i \in 0 .. Len(order) :
          i \in 0 .. Len(order) + 1 /\ i + 1 \in 0 .. Len(order) + 1
    BY <1>1
  <2> QED  BY <2>1, <2>2, RingInN
<1>5. \A x \in N :
        /\ q[x].n = IF x = RN(k - 1) THEN RN(k + 1) ELSE m[x].n
        /\ q[x].p = IF x = RN(k + 1) THEN RN(k - 1) ELSE m[x].p
  <2>1. el \in N
    OBVIOUS
  <2> HIDE DEF el, RN
  <2> QED  BY <1>3, <2>1, DelEffect
<1>6. \A i \in 0 .. Len(order) : RM(i) = IF i < k THEN RN(i) ELSE RN(i + 1)
  <2> HIDE DEF new
  <2> SUFFICES ASSUME NEW i \in 0 .. Len(order)
               PROVE  RM(i) = IF i < k THEN RN(i) ELSE RN(i + 1)
    OBVIOUS
  <2>1. CASE i \in 1 .. Len(new)
    BY <1>1, <1>2, <2>1 DEF RingNode
  <2>2. CASE i = 0
    BY <1>1, <1>2, <2>2 DEF RingNode
  <2>3. CASE i = Len(order)
    <3>1. i = Len(new) + 1 /\ ~(i < k) /\ i + 1 = Len(order) + 1
      BY <1>1, <1>2, <2>3
    <3> QED  BY <3>1 DEF RingNode
  <2> QED  BY <1>1, <1>2, <2>1, <2>2, <2>3
<1>7. /\ \A i, j \in 0 .. Len(order) : RN(i) = RN(j) => i = j
      /\ \A i, j \in 1 .. Len(order) + 1 : RN(i) = RN(j) => i = j
  BY <1>1, RingInjective
<1>8. ASSUME NEW i \in 0 .. Len(new)
      PROVE  q[RM(i)].n = RM(i + 1) /\ q[RM(i + 1)].p = RM(i)
  <2> HIDE DEF q, new, RN, RM
  <2>0. /\ i \in 0 .. Len(order) - 1 /\ i \in 0 .. Len(order)
        /\ i + 1 \in 0 .. Len(order) /\ i + 1 \in 1 .. Len(order) + 1
        /\ (i + 1) + 1 \in 1 .. Len(order) + 1
        /\ k - 1 \in 0 .. Len(order) /\ k + 1 \in 1 .. Len(order) + 1
    BY <1>1, <1>2
  <2>1. CASE i < k - 1
    <3>1. /\ i < k /\ i + 1 < k /\ i # k - 1 /\ i + 1 # k + 1
      BY <1>1, <2>0, <2>1
    <3>2. RM(i) = RN(i) /\ RM(i + 1) = RN(i + 1)
      BY <2>0, <3>1, <1>6
    <3>3. RN(i) # RN(k - 1) /\ RN(i + 1) # RN(k + 1)
      BY <2>0, <3>1, <1>7
    <3> QED  BY <2>0, <3>2, <3>3, <1>4, <1>5
  <2>2. CASE i = k - 1
    <3>1. i < k /\ ~(i + 1 < k) /\ (i + 1) + 1 = k + 1
      BY <1>1, <2>0, <2>2
    <3>2. RM(i) = RN(k - 1) /\ RM(i + 1) = RN(k + 1)
      BY <2>0, <2>2, <3>1, <1>6
    <3>3. RN(k - 1) \in N /\ RN(k + 1) \in N
      BY <2>0, <1>4, <1>1
    <3> QED  BY <3>2, <3>3, <1>5
  <2>3. CASE i > k - 1
    <3>1. /\ ~(i < k) /\ ~(i + 1 < k) /\ i + 1 # k - 1 /\ (i + 1) + 1 # k + 1
      BY <1>1, <2>0, <2>3
    <3>2. RM(i) = RN(i + 1) /\ RM(i + 1) = RN((i + 1) + 1)
      BY <2>0, <3>1, <1>6
    <3>3. RN(i + 1) # RN(k - 1) /\ RN((i + 1) + 1) # RN(k + 1)
      BY <2>0, <3>1, <1>7
    <3> QED  BY <2>0, <3>2, <3>3, <1>4, <1>5
  <2> QED  BY <2>0, <2>1, <2>2, <2>3, <1>1
<1>9. /\ \A i, j \in 1 .. Len(new) : new[i] = new[j] => i = j
      /\ \A i \in 1 .. Len(new) : new[i] # lh
  <2>1. /\ \A i, j \in 1 .. Len(order) : order[i] = order[j] => i = j
        /\ \A i \in 1 .. Len(order) : order[i] # lh
    BY DEF Represents
  <2> HIDE DEF new
  <2> QED  BY <1>1, <1>2, <2>1, SMTT(30)
<1> QED  BY <1>8, <1>9 DEF Represents
=============================================================================
