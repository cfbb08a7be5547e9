----------------------------- MODULE DataProofs -----------------------------
(***************************************************************************)
(* The data that the components share.  What the scans of TableScan find;  *)
(* that a ring is a queue: for every size, putting appends and popping     *)
(* takes the first element away, wherever the ring wraps around; what      *)
(* keeps the frames of a queue in their order; which elements of a         *)
(* sequence belong to a part of it; when a function that is given step by  *)
(* step exists; powers of two, and the fields of a number between them.    *)
(***************************************************************************)
EXTENDS TableScan, Ring, Order, Bits, TLAPS, SequenceTheorems, WellFoundedInduction, FiniteSetTheorems

\* A nonempty set of naturals has a first element, and FirstOf returns it:
\* the table scans of the code find a slot when there is one.
LEMMA FirstOfMember ==
  ASSUME NEW S \in SUBSET Nat, S # {}
  PROVE  FirstOf(S) \in S /\ \A j \in S : FirstOf(S) <= j
<1> DEFINE Less == {ss \in Nat \X Nat : ss[1] < ss[2]}
<1>1. IsWellFoundedOn(Less, Nat)
  BY NatLessThanWellFounded DEF OpToRel
<1>2. \A x, y \in Nat : <<y, x>> \notin Less => x <= y
  OBVIOUS
<1> HIDE DEF Less
<1>3. \E x \in S : \A y \in S : <<y, x>> \notin Less
  BY <1>1, WFMin
<1>4. \E x \in S : \A y \in S : x <= y
  BY <1>2, <1>3
<1>5. QED
  BY <1>4, Zenon DEF FirstOf
-----------------------------------------------------------------------------
(* Rings.                                                                  *)

\* An index that runs over the end of the array does so once.
LEMMA WrapUp ==
  ASSUME NEW size \in Nat \ {0}, NEW k \in 0 .. 2 * size - 1
  PROVE  k % size = (IF k < size THEN k ELSE k - size) /\ k % size \in 0 .. size - 1
  BY SMT

\* The distance between two of them is at most two rounds.
LEMMA WrapDown ==
  ASSUME NEW size \in Nat \ {0}, NEW d \in Int, -(2 * size) <= d, d < size
  PROVE  /\ d % size = IF d >= 0 THEN d ELSE IF d >= -size THEN d + size ELSE d + 2 * size
         /\ d % size \in 0 .. size - 1
  BY SMT

LEMMA RingContentsType ==
  ASSUME NEW size \in Nat \ {0}, NEW E, NEW r \in Rings(size, E)
  PROVE  /\ RingContents(r, size) \in Seq(E)
         /\ Len(RingContents(r, size)) = r.count
         /\ \A k \in 1 .. r.count :
              RingContents(r, size)[k] = r.slots[(r.head + k - 1) % size]
<1>1. r.head \in 0 .. size - 1 /\ r.count \in 0 .. size /\ r.slots \in [0 .. size - 1 -> E]
  BY DEF Rings
<1>2. \A k \in 1 .. r.count : (r.head + k - 1) % size \in 0 .. size - 1
  <2> SUFFICES ASSUME NEW k \in 1 .. r.count PROVE (r.head + k - 1) % size \in 0 .. size - 1
    OBVIOUS
  <2>1. r.head + k - 1 \in 0 .. 2 * size - 1
    BY <1>1
  <2>2. QED
    BY <2>1, WrapUp
<1>3. \A k \in 1 .. r.count : r.slots[(r.head + k - 1) % size] \in E
  BY <1>1, <1>2
<1>4. r.count \in Nat
  BY <1>1
<1>5. QED
  BY <1>3, <1>4 DEF RingContents

LEMMA EmptyRingContents ==
  ASSUME NEW size \in Nat \ {0}, NEW E, NEW e \in E
  PROVE  EmptyRing(size, e) \in Rings(size, E) /\ RingContents(EmptyRing(size, e), size) = <<>>
BY DEF EmptyRing, Rings, RingContents

\* Elements that are put stand behind the ones already there, which stay.
LEMMA RingPutAppends ==
  ASSUME NEW size \in Nat \ {0}, NEW E, NEW r \in Rings(size, E), NEW s \in Seq(E),
         r.count + Len(s) <= size
  PROVE  /\ RingPut(r, size, s) \in Rings(size, E)
         /\ RingContents(RingPut(r, size, s), size) = RingContents(r, size) \o s
<1> DEFINE n == RingPut(r, size, s)
           place(i) == (i - r.head - r.count) % size
<1>1. /\ r.head \in 0 .. size - 1 /\ r.count \in 0 .. size /\ r.slots \in [0 .. size - 1 -> E]
      /\ Len(s) \in Nat
  BY LenProperties DEF Rings
<1>2. /\ n.slots = [i \in 0 .. size - 1 |->
                     IF place(i) < Len(s) THEN s[place(i) + 1] ELSE r.slots[i]]
      /\ n.head = r.head /\ n.count = r.count + Len(s)
  BY DEF RingPut
<1>3. \A i \in 0 .. size - 1 : place(i) \in 0 .. size - 1
  BY <1>1, SMT
<1> HIDE DEF place
<1>4. n.slots \in [0 .. size - 1 -> E]
  <2>1. \A i \in 0 .. size - 1 : place(i) < Len(s) => s[place(i) + 1] \in E
    <3> SUFFICES ASSUME NEW i \in 0 .. size - 1, place(i) < Len(s) PROVE s[place(i) + 1] \in E
      OBVIOUS
    <3>1. place(i) + 1 \in 1 .. Len(s)
      <4>1. place(i) \in 0 .. size - 1
        BY <1>3
      <4>2. QED
        BY <1>1, <4>1
    <3>2. QED
      BY <3>1, ElementOfSeq
  <2>2. QED
    BY <1>1, <1>2, <2>1
<1>5. n \in Rings(size, E)
  <2>1. n.count \in 0 .. size
    BY <1>1, <1>2
  <2>2. n = [slots |-> n.slots, head |-> n.head, count |-> n.count]
    BY DEF RingPut
  <2>3. QED
    BY <1>1, <1>2, <1>4, <2>1, <2>2 DEF Rings
<1> HIDE DEF n
<1>6. \A k \in 1 .. r.count + Len(s) :
        n.slots[(r.head + k - 1) % size] =
          IF k <= r.count THEN r.slots[(r.head + k - 1) % size] ELSE s[k - r.count]
  <2> SUFFICES ASSUME NEW k \in 1 .. r.count + Len(s)
               PROVE  n.slots[(r.head + k - 1) % size] =
                        IF k <= r.count THEN r.slots[(r.head + k - 1) % size] ELSE s[k - r.count]
    OBVIOUS
  <2> DEFINE j == r.head + k - 1
             i == j % size
             d == i - r.head - r.count
  <2>1. j \in 0 .. 2 * size - 1
    BY <1>1
  <2>2. i \in 0 .. size - 1 /\ i = IF j < size THEN j ELSE j - size
    <3> HIDE DEF j
    <3>1. QED
      BY <2>1, WrapUp
  <2>3. place(i) = IF k <= r.count THEN k - r.count - 1 + size ELSE k - r.count - 1
    <3> DEFINE h == r.head
               c == r.count
               l == Len(s)
    <3>1. h \in 0 .. size - 1 /\ c \in 0 .. size /\ l \in Nat /\ c + l <= size
      BY <1>1
    <3>2. k \in 1 .. c + l /\ j = h + k - 1 /\ d = i - h - c
      OBVIOUS
    <3>3. place(i) = d % size
      BY DEF place
    <3> HIDE DEF h, c, l, i, j, d
    <3>4. /\ d \in Int /\ -(2 * size) <= d /\ d < size
          /\ \/ d = k - 1 - c
             \/ d = k - 1 - c - size
      BY <2>2, <3>1, <3>2
    <3>5. d % size = IF d >= 0 THEN d ELSE IF d >= -size THEN d + size ELSE d + 2 * size
      BY <3>4, WrapDown
    <3>6. d % size = IF k <= c THEN k - c - 1 + size ELSE k - c - 1
      <4> DEFINE m == d % size
      <4>1. m = IF d >= 0 THEN d ELSE IF d >= -size THEN d + size ELSE d + 2 * size
        BY <3>5
      <4>2. k \in Int /\ c \in Int /\ 1 <= k /\ 0 <= c /\ c <= size /\ k <= size
        BY <3>1, <3>2
      <4> HIDE DEF m
      <4>3. CASE d = k - 1 - c
        BY <3>4, <4>1, <4>2, <4>3
      <4>4. CASE d = k - 1 - c - size
        BY <3>4, <4>1, <4>2, <4>4
      <4> QED
        BY <3>4, <4>3, <4>4 DEF m
    <3>7. QED
      BY <3>3, <3>6 DEF c
  <2> HIDE DEF i
  <2>4. place(i) < Len(s) <=> k > r.count
    BY <1>1, <2>3
  <2>5. k > r.count => place(i) + 1 = k - r.count
    BY <1>1, <2>3
  <2>6. n.slots[i] = IF place(i) < Len(s) THEN s[place(i) + 1] ELSE r.slots[i]
    BY <1>2, <2>2
  <2>7. QED
    BY <1>1, <2>4, <2>5, <2>6 DEF i
<1>7. /\ RingContents(n, size) \in Seq(E) /\ Len(RingContents(n, size)) = r.count + Len(s)
      /\ RingContents(r, size) \in Seq(E) /\ Len(RingContents(r, size)) = r.count
      /\ RingContents(r, size) \o s \in Seq(E)
  BY <1>2, <1>5, RingContentsType, ConcatProperties
<1>8. \A k \in 1 .. r.count + Len(s) :
        RingContents(n, size)[k] = (RingContents(r, size) \o s)[k]
  <2> SUFFICES ASSUME NEW k \in 1 .. r.count + Len(s)
               PROVE  RingContents(n, size)[k] = (RingContents(r, size) \o s)[k]
    OBVIOUS
  <2>1. RingContents(n, size)[k] = n.slots[(r.head + k - 1) % size]
    BY <1>2, <1>5, RingContentsType
  <2>2. (RingContents(r, size) \o s)[k] =
          IF k <= r.count THEN RingContents(r, size)[k] ELSE s[k - r.count]
    BY <1>1, <1>7, ConcatProperties
  <2>3. k <= r.count => RingContents(r, size)[k] = r.slots[(r.head + k - 1) % size]
    BY <1>1, RingContentsType
  <2>4. QED
    BY <1>6, <2>1, <2>2, <2>3
<1>9. Len(RingContents(r, size) \o s) = r.count + Len(s)
  BY <1>7, ConcatProperties
<1>10. RingContents(n, size) = RingContents(r, size) \o s
  BY <1>7, <1>8, <1>9, SeqEqual
<1>11. QED
  BY <1>5, <1>10 DEF n

\* The element that is popped is the one at head, and the others stay.
LEMMA RingPopTakesHead ==
  ASSUME NEW size \in Nat \ {0}, NEW E, NEW r \in Rings(size, E), r.count > 0
  PROVE  /\ RingPop(r, size) \in Rings(size, E)
         /\ r.slots[r.head] \in E
         /\ RingContents(r, size) = <<r.slots[r.head]>> \o RingContents(RingPop(r, size), size)
<1> DEFINE n == RingPop(r, size)
<1>1. r.head \in 0 .. size - 1 /\ r.count \in 1 .. size /\ r.slots \in [0 .. size - 1 -> E]
  BY DEF Rings
<1>2. n.slots = r.slots /\ n.head = (r.head + 1) % size /\ n.count = r.count - 1
  BY DEF RingPop, Rings
<1> HIDE DEF n
<1>3. /\ n.head = IF r.head + 1 < size THEN r.head + 1 ELSE (r.head + 1) - size
      /\ n.head \in 0 .. size - 1
  <2> DEFINE y == r.head + 1
             x == y % size
  <2>1. y \in 0 .. 2 * size - 1
    BY <1>1
  <2>2. n.head = x
    BY <1>2
  <2> HIDE DEF y
  <2>3. x = (IF y < size THEN y ELSE y - size) /\ x \in 0 .. size - 1
    BY <2>1, WrapUp
  <2> HIDE DEF x
  <2>4. n.head = (IF y < size THEN y ELSE y - size) /\ n.head \in 0 .. size - 1
    BY <2>2, <2>3
  <2>5. QED
    BY <2>4 DEF y
<1>4. n \in Rings(size, E)
  <2>1. n.count \in 0 .. size
    BY <1>1, <1>2
  <2>2. r = [slots |-> r.slots, head |-> r.head, count |-> r.count]
    BY DEF Rings
  <2> DEFINE h == (r.head + 1) % size
  <2> HIDE DEF h
  <2>6. n = [r EXCEPT !.head = h, !.count = r.count - 1]
    BY DEF RingPop, h, n
  <2>3. n = [slots |-> n.slots, head |-> n.head, count |-> n.count]
    BY <2>2, <2>6
  <2>4. QED
    BY <1>1, <1>2, <1>3, <2>1, <2>3 DEF Rings
<1> DEFINE e == r.slots[r.head]
<1>5. e \in E
  BY <1>1
<1>6. \A k \in 2 .. r.count : (n.head + (k - 1) - 1) % size = (r.head + k - 1) % size
  <2> SUFFICES ASSUME NEW k \in 2 .. r.count
               PROVE  (n.head + (k - 1) - 1) % size = (r.head + k - 1) % size
    OBVIOUS
  <2> DEFINE a == n.head + (k - 1) - 1
             b == r.head + k - 1
  <2>1. /\ a \in 0 .. 2 * size - 1 /\ b \in 0 .. 2 * size - 1
        /\ a = b \/ (a = b - size /\ b >= size)
    <3> DEFINE h == r.head
               g == n.head
               c == r.count
    <3>1. /\ h \in 0 .. size - 1 /\ c \in 1 .. size /\ k \in 2 .. c
          /\ g = IF h + 1 < size THEN h + 1 ELSE h + 1 - size
      BY <1>1, <1>3
    <3>2. a = g + (k - 1) - 1 /\ b = h + k - 1
      OBVIOUS
    <3> HIDE DEF h, g, c, a, b
    <3>3. QED
      BY <3>1, <3>2
  <2> HIDE DEF a, b
  <2>2. /\ a % size = IF a < size THEN a ELSE a - size
        /\ b % size = IF b < size THEN b ELSE b - size
    BY <2>1, WrapUp
  <2>3. a % size = b % size
    BY <2>1, <2>2
  <2>4. QED
    BY <2>3 DEF a, b
<1>7. (r.head + 1 - 1) % size = r.head
  <2> DEFINE h == r.head + 1 - 1
  <2>1. h = r.head /\ h \in 0 .. size - 1 /\ h \in 0 .. 2 * size - 1
    BY <1>1
  <2> HIDE DEF h
  <2>2. h % size = IF h < size THEN h ELSE h - size
    BY <2>1, WrapUp
  <2>3. h < size
    BY <2>1
  <2>4. h % size = r.head
    BY <2>1, <2>2, <2>3, Zenon
  <2>5. QED
    BY <2>4, Zenon DEF h
<1>8. /\ RingContents(r, size) \in Seq(E) /\ Len(RingContents(r, size)) = r.count
      /\ RingContents(n, size) \in Seq(E) /\ Len(RingContents(n, size)) = r.count - 1
  BY <1>2, <1>4, RingContentsType
<1>9. RingContents(r, size)[1] = e
  BY <1>1, <1>7, RingContentsType
<1>10. \A k \in 2 .. r.count : RingContents(r, size)[k] = RingContents(n, size)[k - 1]
  <2> SUFFICES ASSUME NEW k \in 2 .. r.count
               PROVE  RingContents(r, size)[k] = RingContents(n, size)[k - 1]
    OBVIOUS
  <2>1. k - 1 \in 1 .. n.count /\ k \in 1 .. r.count
    BY <1>1, <1>2
  <2>2. /\ RingContents(n, size)[k - 1] = n.slots[(n.head + (k - 1) - 1) % size]
        /\ RingContents(r, size)[k] = r.slots[(r.head + k - 1) % size]
    BY <1>4, <2>1, RingContentsType
  <2>3. QED
    BY <1>2, <1>6, <2>2
<1> DEFINE rest == RingContents(n, size)
           all == RingContents(r, size)
<1>11. <<e>> \in Seq(E) /\ Len(<<e>>) = 1 /\ <<e>>[1] = e
  BY <1>5
<1> HIDE DEF rest, all, e
<1>12. <<e>> \o rest \in Seq(E) /\ Len(<<e>> \o rest) = r.count
  BY <1>1, <1>8, <1>11, ConcatProperties DEF rest
<1>13. \A k \in 1 .. r.count : (<<e>> \o rest)[k] = IF k = 1 THEN e ELSE rest[k - 1]
  BY <1>1, <1>8, <1>11, ConcatProperties DEF rest
<1>14. \A k \in 1 .. r.count : all[k] = (<<e>> \o rest)[k]
  <2>1. r.count \in Nat /\ \A k \in 1 .. r.count : k = 1 \/ k \in 2 .. r.count
    BY <1>1
  <2>2. all[1] = e /\ \A k \in 2 .. r.count : k # 1 /\ all[k] = rest[k - 1]
    BY <1>9, <1>10, <2>1 DEF all, rest
  <2>3. QED
    BY <1>13, <2>1, <2>2
<1>15. all = <<e>> \o rest
  BY <1>8, <1>12, <1>14, SeqEqual DEF all
<1>16. QED
  BY <1>4, <1>5, <1>15 DEF all, rest, e, n
-----------------------------------------------------------------------------
(* Queues of numbered frames.                                              *)

\* In an empty queue everything is in order.
LEMMA EmptyInOrder ==
  ASSUME NEW F, NEW t, NEW n
  PROVE  /\ Rising(<<>>, F) /\ UpTo(<<>>, n, F)
         /\ Before(<<>>, t, F) /\ Before(t, <<>>, F)
BY DEF Rising, Before, UpTo

\* A frame that joins a queue comes after those that are there.
LEMMA AppendInOrder ==
  ASSUME NEW F, NEW s \in Seq(Nat), NEW t \in Seq(Nat), NEW e \in Nat
  PROVE  /\ Rising(s, F) /\ Before(s, <<e>>, F) => Rising(Append(s, e), F)
         /\ Before(s, t, F) /\ Before(<<e>>, t, F) => Before(Append(s, e), t, F)
         /\ Before(t, s, F) /\ Before(t, <<e>>, F) => Before(t, Append(s, e), F)
<1>1. /\ Append(s, e) \in Seq(Nat) /\ DOMAIN Append(s, e) = 1 .. Len(s) + 1
      /\ \A i \in 1 .. Len(s) : Append(s, e)[i] = s[i]
      /\ Append(s, e)[Len(s) + 1] = e
      /\ DOMAIN s = 1 .. Len(s) /\ Len(s) \in Nat
  OBVIOUS
<1>2. DOMAIN <<e>> = {1} /\ <<e>>[1] = e
  OBVIOUS
<1> DEFINE a == Append(s, e)
           u == <<e>>
<1>3. \A i \in DOMAIN a :
        (i \in DOMAIN s /\ a[i] = s[i]) \/ (i = Len(s) + 1 /\ a[i] = e)
  BY <1>1
<1> HIDE DEF a, u
<1>4. Rising(s, F) /\ Before(s, u, F) => Rising(a, F)
  <2> SUFFICES ASSUME Rising(s, F), Before(s, u, F), NEW i \in DOMAIN a, NEW j \in DOMAIN a,
                      i < j, a[i] \in F, a[j] \in F
               PROVE  a[i] < a[j]
    BY DEF Rising
  <2>1. i \in DOMAIN s /\ a[i] = s[i]
    BY <1>1, <1>3 DEF a
  <2>2. CASE j \in DOMAIN s /\ a[j] = s[j]
    BY <2>1, <2>2 DEF Rising
  <2>3. CASE a[j] = e
    BY <2>1, <2>3, <1>2 DEF Before, u
  <2> QED
    BY <1>3, <2>2, <2>3
<1>5. 1 \in DOMAIN u /\ u[1] = e
  BY <1>2 DEF u
<1>6. Before(s, t, F) /\ Before(u, t, F) => Before(a, t, F)
  <2> SUFFICES ASSUME Before(s, t, F), Before(u, t, F), NEW i \in DOMAIN a, NEW j \in DOMAIN t,
                      a[i] \in F, t[j] \in F
               PROVE  a[i] < t[j]
    BY DEF Before
  <2>1. CASE i \in DOMAIN s /\ a[i] = s[i]
    BY <2>1 DEF Before
  <2>2. CASE a[i] = e
    BY <1>5, <2>2 DEF Before
  <2> QED
    BY <1>3, <2>1, <2>2
<1>7. Before(t, s, F) /\ Before(t, u, F) => Before(t, a, F)
  <2> SUFFICES ASSUME Before(t, s, F), Before(t, u, F), NEW i \in DOMAIN a, NEW j \in DOMAIN t,
                      a[i] \in F, t[j] \in F
               PROVE  t[j] < a[i]
    BY DEF Before
  <2>1. CASE i \in DOMAIN s /\ a[i] = s[i]
    BY <2>1 DEF Before
  <2>2. CASE a[i] = e
    BY <1>5, <2>2 DEF Before
  <2> QED
    BY <1>3, <2>1, <2>2
<1> QED
  BY <1>4, <1>6, <1>7 DEF a, u

\* A frame that leaves a queue comes before those that stay.
LEMMA TailInOrder ==
  ASSUME NEW F, NEW s \in Seq(Nat), s # <<>>, NEW t \in Seq(Nat), NEW n
  PROVE  /\ Rising(s, F) => Rising(Tail(s), F) /\ Before(<<Head(s)>>, Tail(s), F)
         /\ Before(s, t, F) => Before(Tail(s), t, F) /\ Before(<<Head(s)>>, t, F)
         /\ Before(t, s, F) => Before(t, Tail(s), F) /\ Before(t, <<Head(s)>>, F)
         /\ UpTo(s, n, F) => UpTo(Tail(s), n, F) /\ UpTo(<<Head(s)>>, n, F)
<1> DEFINE r == Tail(s)
           h == <<Head(s)>>
<1>1. /\ DOMAIN r = 1 .. Len(s) - 1 /\ DOMAIN s = 1 .. Len(s) /\ Len(s) \in Nat
      /\ \A i \in 1 .. Len(s) - 1 : r[i] = s[i + 1]
      /\ DOMAIN h = {1} /\ h[1] = s[1] /\ 1 \in DOMAIN s
  OBVIOUS
<1>2. \A i \in DOMAIN r : i \in Nat /\ i + 1 \in DOMAIN s /\ r[i] = s[i + 1] /\ 1 < i + 1
  BY <1>1
<1> HIDE DEF r, h
<1>3. Rising(s, F) => Rising(r, F) /\ Before(h, r, F)
  <2> SUFFICES ASSUME Rising(s, F) PROVE Rising(r, F) /\ Before(h, r, F)
    OBVIOUS
  <2>1. \A i, j \in DOMAIN s : i < j /\ s[i] \in F /\ s[j] \in F => s[i] < s[j]
    BY DEF Rising
  <2>2. Rising(r, F)
    <3> SUFFICES ASSUME NEW i \in DOMAIN r, NEW j \in DOMAIN r, i < j, r[i] \in F, r[j] \in F
                 PROVE  r[i] < r[j]
      BY DEF Rising
    <3>1. i + 1 \in DOMAIN s /\ j + 1 \in DOMAIN s /\ i + 1 < j + 1
      BY <1>2
    <3> QED
      BY <1>2, <2>1, <3>1
  <2>3. Before(h, r, F)
    BY <1>1, <1>2, <2>1 DEF Before
  <2> QED
    BY <2>2, <2>3
<1>4. Before(s, t, F) => Before(r, t, F) /\ Before(h, t, F)
  BY <1>1, <1>2 DEF Before
<1>5. Before(t, s, F) => Before(t, r, F) /\ Before(t, h, F)
  BY <1>1, <1>2 DEF Before
<1>6. UpTo(s, n, F) => UpTo(r, n, F) /\ UpTo(h, n, F)
  BY <1>1, <1>2 DEF UpTo
<1> QED
  BY <1>3, <1>4, <1>5, <1>6 DEF r, h

\* A frame with a higher number than all others comes after them.
LEMMA NewestInOrder ==
  ASSUME NEW F, NEW s \in Seq(Nat), NEW n \in Nat, NEW e \in Nat, UpTo(s, n, F)
  PROVE  /\ e > n => Before(s, <<e>>, F)
         /\ e \notin F => Before(s, <<e>>, F) /\ Before(<<e>>, s, F)
         /\ \A m \in Nat : m >= n => UpTo(s, m, F)
         /\ \A m \in Nat : m >= n /\ (e \in F => e <= m) => UpTo(Append(s, e), m, F)
<1>1. DOMAIN <<e>> = {1} /\ <<e>>[1] = e
  OBVIOUS
<1>2. \A i \in DOMAIN s : s[i] \in Nat
  OBVIOUS
<1>3. \A i \in DOMAIN Append(s, e) :
        (i \in DOMAIN s /\ Append(s, e)[i] = s[i]) \/ Append(s, e)[i] = e
  OBVIOUS
<1> DEFINE u == <<e>>
           a == Append(s, e)
<1> HIDE DEF u, a
<1>4. (e > n => Before(s, u, F)) /\ (e \notin F => Before(s, u, F) /\ Before(u, s, F))
  BY <1>1, <1>2 DEF Before, UpTo, u
<1>5. \A m \in Nat : m >= n => UpTo(s, m, F)
  BY <1>2 DEF UpTo
<1>6. \A m \in Nat : m >= n /\ (e \in F => e <= m) => UpTo(a, m, F)
  BY <1>2, <1>3 DEF UpTo, a
<1> QED
  BY <1>4, <1>5, <1>6 DEF u, a

\* Above the last frame of a queue in order there is none.
LEMMA LastIsHighest ==
  ASSUME NEW F, NEW s \in Seq(Nat), \A i \in DOMAIN s : s[i] \in F,
         NEW e \in F, e \in Nat, Before(s, <<e>>, F)
  PROVE  LastOr0(s) \in Nat /\ (e > 0 => LastOr0(s) < e)
<1>1. DOMAIN <<e>> = {1} /\ <<e>>[1] = e
  OBVIOUS
<1>2. s # <<>> => Len(s) \in DOMAIN s /\ s[Len(s)] \in Nat
  OBVIOUS
<1>3. \A i \in DOMAIN s : s[i] < e
  BY <1>1 DEF Before
<1> QED
  BY <1>2, <1>3 DEF LastOr0

\* Frames that leave a queue together keep their order and come before the rest.
LEMMA SplitInOrder ==
  ASSUME NEW F, NEW s \in Seq(Nat), NEW k \in 1 .. Len(s), NEW t, NEW n
  PROVE  LET a == SubSeq(s, 1, k)
             b == SubSeq(s, k + 1, Len(s))
         IN  /\ Rising(s, F) => Rising(a, F) /\ Rising(b, F) /\ Before(a, b, F)
             /\ Before(s, t, F) => Before(a, t, F) /\ Before(b, t, F)
             /\ Before(t, s, F) => Before(t, a, F) /\ Before(t, b, F)
             /\ UpTo(s, n, F) => UpTo(a, n, F) /\ UpTo(b, n, F)
<1> DEFINE a == SubSeq(s, 1, k)
           b == SubSeq(s, k + 1, Len(s))
<1>1. k \in Nat /\ Len(s) \in Nat /\ 1 <= k /\ k <= Len(s) /\ DOMAIN s = 1 .. Len(s)
  OBVIOUS
<1>2. \A i \in DOMAIN a : i \in DOMAIN s /\ a[i] = s[i] /\ i \in Nat /\ i <= k
  BY <1>1
<1>3. \A i \in DOMAIN b : i \in Nat /\ 1 <= i /\ k + i \in DOMAIN s /\ b[i] = s[k + i]
  BY <1>1
<1> HIDE DEF a, b
<1>4. ASSUME Rising(s, F) PROVE Rising(a, F) /\ Rising(b, F) /\ Before(a, b, F)
  <2>1. \A i, j \in DOMAIN s : i < j /\ s[i] \in F /\ s[j] \in F => s[i] < s[j]
    BY <1>4 DEF Rising
  <2>2. Rising(a, F)
    BY <1>2, <2>1 DEF Rising
  <2>3. Rising(b, F)
    <3> SUFFICES ASSUME NEW i \in DOMAIN b, NEW j \in DOMAIN b, i < j, b[i] \in F, b[j] \in F
                 PROVE  b[i] < b[j]
      BY DEF Rising
    <3>1. k + i \in DOMAIN s /\ k + j \in DOMAIN s /\ k + i < k + j
      BY <1>1, <1>3
    <3> QED
      BY <1>3, <2>1, <3>1
  <2>4. Before(a, b, F)
    <3> SUFFICES ASSUME NEW i \in DOMAIN a, NEW j \in DOMAIN b, a[i] \in F, b[j] \in F
                 PROVE  a[i] < b[j]
      BY DEF Before
    <3>1. i \in DOMAIN s /\ k + j \in DOMAIN s /\ i < k + j
      BY <1>1, <1>2, <1>3
    <3> QED
      BY <1>2, <1>3, <2>1, <3>1
  <2> QED
    BY <2>2, <2>3, <2>4
<1>5. Before(s, t, F) => Before(a, t, F) /\ Before(b, t, F)
  BY <1>2, <1>3 DEF Before
<1>6. Before(t, s, F) => Before(t, a, F) /\ Before(t, b, F)
  BY <1>2, <1>3 DEF Before
<1>7. UpTo(s, n, F) => UpTo(a, n, F) /\ UpTo(b, n, F)
  BY <1>2, <1>3 DEF UpTo
<1> QED
  BY <1>4, <1>5, <1>6, <1>7 DEF a, b

-----------------------------------------------------------------------------
(* Parts of a queue.                                                       *)

\* Induction, on a set: one that has 0 and with n also n + 1 has all naturals.
LEMMA AllNaturals ==
  ASSUME NEW S, 0 \in S, \A n \in Nat : n \in S => n + 1 \in S
  PROVE  Nat \subseteq S
<1> SUFFICES ASSUME Nat \ S # {} PROVE FALSE
  OBVIOUS
<1> DEFINE T == Nat \ S
<1>1. T \in SUBSET Nat /\ T # {}
  OBVIOUS
<1>2. PICK m \in T : \A j \in T : m <= j
  BY <1>1, FirstOfMember
<1>3. m \in Nat /\ m # 0
  BY <1>2
<1>4. m - 1 \in Nat /\ (m - 1) + 1 = m /\ ~ (m <= m - 1)
  BY <1>3
<1>5. m - 1 \in S
  BY <1>2, <1>4
<1> QED
  BY <1>2, <1>4, <1>5

\* Among the first n positions, every rank up to the number of those in S is taken.
LEMMA RanksTaken ==
  ASSUME NEW n \in Nat, NEW S \in SUBSET (1 .. n), NEW k \in 1 .. Cardinality(S)
  PROVE  \E i \in S : Rank(S, i) = k
<1> DEFINE Taken(T) == \A l \in 1 .. Cardinality(T) : \E i \in T : Rank(T, i) = l
           N == {m \in Nat : \A T \in SUBSET (1 .. m) : Taken(T)}
<1>1. 0 \in N
  <2> SUFFICES ASSUME NEW T \in SUBSET (1 .. 0) PROVE Taken(T)
    OBVIOUS
  <2>1. T = {}
    OBVIOUS
  <2>2. Cardinality(T) = 0
    BY <2>1, FS_EmptySet
  <2> QED
    BY <2>2
<1>2. ASSUME NEW m \in Nat, m \in N PROVE m + 1 \in N
  <2> SUFFICES ASSUME NEW T \in SUBSET (1 .. m + 1) PROVE Taken(T)
    OBVIOUS
  <2>1. CASE m + 1 \notin T
    <3>1. T \in SUBSET (1 .. m)
      BY <2>1
    <3> QED
      BY <1>2, <3>1
  <2>2. CASE m + 1 \in T
    <3> DEFINE U == T \ {m + 1}
    <3>1. U \in SUBSET (1 .. m) /\ T = U \union {m + 1} /\ m + 1 \notin U
      BY <2>2
    <3>2. IsFiniteSet(U)
      <4>1. IsFiniteSet(1 .. m)
        BY FS_Interval
      <4> HIDE DEF U
      <4> QED
        BY <3>1, <4>1, FS_Subset
    <3>3. Cardinality(U) \in Nat /\ Cardinality(T) = Cardinality(U) + 1
      BY <3>1, <3>2, FS_CardinalityType, FS_AddElement
    <3>4. Taken(U)
      BY <1>2, <3>1
    <3>5. ASSUME NEW i \in U PROVE Rank(T, i) = Rank(U, i)
      <4>1. {j \in T : j <= i} = {j \in U : j <= i}
        BY <3>1, <3>5
      <4> QED
        BY <4>1 DEF Rank
    <3>6. Rank(T, m + 1) = Cardinality(T)
      <4>1. \A j \in T : j <= m + 1
        OBVIOUS
      <4>2. {j \in T : j <= m + 1} = T
        BY <4>1
      <4> QED
        BY <4>2 DEF Rank
    <3> HIDE DEF U
    <3> SUFFICES ASSUME NEW l \in 1 .. Cardinality(T) PROVE \E i \in T : Rank(T, i) = l
      OBVIOUS
    <3>7. CASE l = Cardinality(T)
      BY <2>2, <3>6, <3>7
    <3>8. CASE l # Cardinality(T)
      <4>1. l \in 1 .. Cardinality(U)
        BY <3>3, <3>8
      <4>2. PICK i \in U : Rank(U, i) = l
        BY <3>4, <4>1
      <4> QED
        BY <3>1, <3>5, <4>2
    <3> QED
      BY <3>7, <3>8
  <2> QED
    BY <2>1, <2>2
<1> HIDE DEF N
<1>3. n \in N
  BY <1>1, <1>2, AllNaturals
<1> QED
  BY <1>3 DEF N

\* What is appended to a queue is appended to a part of it, or is not in it.
LEMMA PickedAppend ==
  ASSUME NEW X, NEW s \in Seq(X), NEW e, NEW S \in SUBSET (1 .. Len(s))
  PROVE  /\ Picked(Append(s, e), S) = Picked(s, S)
         /\ Picked(Append(s, e), S \union {Len(s) + 1}) = Append(Picked(s, S), e)
         /\ Len(Picked(s, S)) = Cardinality(S) /\ Cardinality(S) \in Nat
<1> DEFINE n == Len(s)
           t == Append(s, e)
           T == S \union {n + 1}
           c == Cardinality(S)
<1>1. n \in Nat /\ n + 1 \notin S /\ t[n + 1] = e /\ \A i \in 1 .. n : t[i] = s[i]
  OBVIOUS
<1> HIDE DEF n, t
<1>2. IsFiniteSet(S) /\ S \in SUBSET (1 .. n)
  <2>1. IsFiniteSet(1 .. n)
    BY <1>1, FS_Interval
  <2>2. S \in SUBSET (1 .. n)
    BY DEF n
  <2> QED
    BY <2>1, <2>2, FS_Subset
<1>3. c \in Nat /\ Cardinality(T) = c + 1
  BY <1>1, <1>2, FS_CardinalityType, FS_AddElement
<1>4. ASSUME NEW k \in 1 .. c PROVE Nth(S, k) \in 1 .. n /\ Nth(T, k) = Nth(S, k)
  <2>1. \E i \in S : Rank(S, i) = k
    BY <1>1, <1>2, <1>4, RanksTaken
  <2>2. Nth(S, k) \in S
    BY <2>1 DEF Nth
  <2>3. ASSUME NEW i \in S PROVE Rank(T, i) = Rank(S, i)
    <3>1. {j \in T : j <= i} = {j \in S : j <= i}
      BY <1>1, <1>2
    <3> QED
      BY <3>1 DEF Rank
  <2>4. Rank(T, n + 1) = c + 1
    <3>1. {j \in T : j <= n + 1} = T
      BY <1>1, <1>2
    <3> QED
      BY <1>3, <3>1 DEF Rank
  <2>5. c + 1 # k
    BY <1>3
  <2>6. \A i : (i \in T /\ Rank(T, i) = k) <=> (i \in S /\ Rank(S, i) = k)
    BY <1>1, <2>3, <2>4, <2>5
  <2>7. Nth(T, k) = Nth(S, k)
    BY <2>6 DEF Nth
  <2> QED
    BY <1>2, <2>2, <2>7
<1>5. Nth(T, c + 1) = n + 1
  <2>1. Rank(T, n + 1) = c + 1
    <3>1. {j \in T : j <= n + 1} = T
      BY <1>1, <1>2
    <3> QED
      BY <1>3, <3>1 DEF Rank
  <2>2. ASSUME NEW i \in S PROVE Rank(T, i) # c + 1
    <3>1. {j \in T : j <= i} \in SUBSET S
      BY <1>1, <1>2
    <3>2. Rank(T, i) <= c /\ Rank(T, i) \in Nat
      BY <1>2, <3>1, FS_Subset, FS_CardinalityType DEF Rank
    <3> QED
      BY <1>3, <3>2
  <2>3. \A i \in T : Rank(T, i) = c + 1 => i = n + 1
    BY <2>2
  <2> QED
    BY <2>1, <2>3 DEF Nth
<1>6. /\ Picked(t, S) = [k \in 1 .. c |-> t[Nth(S, k)]]
      /\ Picked(s, S) = [k \in 1 .. c |-> s[Nth(S, k)]]
      /\ Picked(t, T) = [k \in 1 .. c + 1 |-> t[Nth(T, k)]]
  BY <1>3 DEF Picked
<1> HIDE DEF T, c
<1>7. Picked(t, S) = Picked(s, S)
  BY <1>1, <1>4, <1>6
<1>8. Len(Picked(s, S)) = c
  BY <1>3, <1>6
<1>9. Picked(t, T) = Append(Picked(s, S), e)
  <2> DEFINE p == Picked(s, S)
             q == Append(p, e)
             Y == {p[k] : k \in 1 .. c}
  <2>1. p \in Seq(Y)
    <3>1. DOMAIN p = 1 .. c
      BY <1>6
    <3>2. p = [k \in 1 .. c |-> p[k]] /\ \A k \in 1 .. c : p[k] \in Y
      BY <1>6
    <3> HIDE DEF p, Y
    <3> QED
      BY <1>3, <3>1, <3>2
  <2>2. /\ q = [k \in 1 .. c + 1 |-> q[k]] /\ q[c + 1] = e
        /\ \A k \in 1 .. c : q[k] = s[Nth(S, k)]
    BY <1>3, <1>6, <1>8, <2>1
  <2>3. \A k \in 1 .. c + 1 : t[Nth(T, k)] = q[k]
    <3> SUFFICES ASSUME NEW k \in 1 .. c + 1 PROVE t[Nth(T, k)] = q[k]
      OBVIOUS
    <3>1. k \in 1 .. c \/ k = c + 1
      BY <1>3
    <3> QED
      BY <1>1, <1>4, <1>5, <2>2, <3>1
  <2> HIDE DEF p, q
  <2>4. Picked(t, T) = q
    BY <1>6, <2>2, <2>3
  <2> QED
    BY <2>4 DEF p, q
<1> QED
  BY <1>3, <1>7, <1>8, <1>9 DEF t, T, n, c

\* A part of a sequence is made of its elements, in their order, and of all those in the part.
LEMMA PickedFacts ==
  ASSUME NEW X, NEW s \in Seq(X), NEW S \in SUBSET (1 .. Len(s))
  PROVE  /\ Picked(s, S) \in Seq(X)
         /\ DOMAIN Picked(s, S) = 1 .. Cardinality(S) /\ Cardinality(S) \in Nat
         /\ \A k \in DOMAIN Picked(s, S) : Nth(S, k) \in S /\ Picked(s, S)[k] = s[Nth(S, k)]
         /\ \A k, l \in DOMAIN Picked(s, S) : k < l => Nth(S, k) < Nth(S, l)
         /\ \A i \in S : \E k \in DOMAIN Picked(s, S) : Nth(S, k) = i
<1> DEFINE n == Len(s)
           c == Cardinality(S)
<1>1. n \in Nat /\ \A i \in 1 .. n : s[i] \in X
  OBVIOUS
<1>2. S \in SUBSET (1 .. n)
  OBVIOUS
<1>3. IsFiniteSet(S) /\ c \in Nat
  <2>1. IsFiniteSet(1 .. n)
    BY <1>1, FS_Interval
  <2> QED
    BY <1>2, <2>1, FS_Subset, FS_CardinalityType
<1>4. Picked(s, S) = [k \in 1 .. c |-> s[Nth(S, k)]]
  BY DEF Picked
<1> HIDE DEF n, c
<1>5. ASSUME NEW i \in S
      PROVE  /\ Rank(S, i) \in 1 .. c
             /\ \A j \in S : j < i => Rank(S, j) < Rank(S, i)
  <2> DEFINE T(j) == {h \in S : h <= j}
  <2>1. \A j \in S : T(j) \in SUBSET S
    OBVIOUS
  <2>2. \A j \in S : IsFiniteSet(T(j)) /\ Cardinality(T(j)) \in Nat /\ Cardinality(T(j)) <= c
    BY <1>3, <2>1, FS_Subset, FS_CardinalityType DEF c
  <2>3. ASSUME NEW j \in S, j < i PROVE Cardinality(T(j)) < Cardinality(T(i))
    <3>1. T(j) \in SUBSET T(i) /\ i \in T(i) /\ i \notin T(j)
      <4>1. \A h \in S : h \in Nat
        BY <1>1, <1>2
      <4>2. \A h \in S : h <= j => h <= i
        BY <4>1, <2>3
      <4>3. i <= i /\ ~ (i <= j)
        BY <4>1, <2>3
      <4> QED
        BY <4>2, <4>3
    <3> HIDE DEF T
    <3>2. Cardinality(T(j)) <= Cardinality(T(i)) /\ Cardinality(T(j)) # Cardinality(T(i))
      BY <2>2, <3>1, FS_Subset
    <3> QED
      BY <2>2, <3>2
  <2>4. Cardinality(T(i)) # 0
    <3>1. i \in T(i)
      BY <1>1, <1>2
    <3> HIDE DEF T
    <3> QED
      BY <2>2, <3>1, FS_EmptySet
  <2>5. \A j \in S : Rank(S, j) = Cardinality(T(j))
    BY DEF Rank
  <2> HIDE DEF T
  <2> QED
    BY <1>3, <2>2, <2>3, <2>4, <2>5
<1>6. ASSUME NEW k \in 1 .. c PROVE Nth(S, k) \in S /\ Rank(S, Nth(S, k)) = k
  <2>1. \E i \in S : Rank(S, i) = k
    BY <1>1, <1>2, <1>6, RanksTaken DEF c
  <2> QED
    BY <2>1 DEF Nth
<1>7. ASSUME NEW k \in 1 .. c, NEW l \in 1 .. c, k < l PROVE Nth(S, k) < Nth(S, l)
  <2>1. PICK i : i = Nth(S, k)
    OBVIOUS
  <2>2. PICK j : j = Nth(S, l)
    OBVIOUS
  <2>3. i \in S /\ Rank(S, i) = k /\ j \in S /\ Rank(S, j) = l
    BY <1>6, <2>1, <2>2
  <2>4. i \in Nat /\ j \in Nat
    BY <1>1, <1>2, <2>3
  <2>5. k \in Nat /\ l \in Nat
    BY <1>3
  <2>6. i # j /\ ~ (j < i)
    BY <1>5, <1>7, <2>3, <2>5
  <2> QED
    BY <2>1, <2>2, <2>4, <2>6
<1>8. ASSUME NEW i \in S PROVE \E k \in 1 .. c : Nth(S, k) = i
  <2>1. PICK k \in 1 .. c : k = Rank(S, i)
    BY <1>5, <1>8
  <2>2. PICK j : j = Nth(S, k)
    OBVIOUS
  <2>3. j \in S /\ Rank(S, j) = Rank(S, i)
    BY <1>6, <2>1, <2>2
  <2>4. i \in Nat /\ j \in Nat
    BY <1>1, <1>2, <1>8, <2>3
  <2>5. Rank(S, i) \in Nat
    BY <1>3, <1>5, <1>8
  <2>6. ~ (i < j) /\ ~ (j < i)
    BY <1>5, <1>8, <2>3, <2>5
  <2> QED
    BY <2>2, <2>4, <2>6
<1>9. Picked(s, S) \in Seq(X) /\ DOMAIN Picked(s, S) = 1 .. c
  <2>1. \A k \in 1 .. c : s[Nth(S, k)] \in X
    BY <1>1, <1>2, <1>6
  <2> QED
    BY <1>3, <1>4, <2>1
<1> QED
  BY <1>3, <1>4, <1>6, <1>7, <1>8, <1>9 DEF c

-----------------------------------------------------------------------------
(* Functions that are given step by step.                                  *)

\* A function may be defined from one number to the next.
StepsUpTo(X, g, a, n) == a \in X /\ g \in [1 .. n -> [X -> X]]

LEMMA StepByStep ==
  ASSUME NEW n \in Nat, NEW X, NEW a, NEW g, StepsUpTo(X, g, a, n)
  PROVE  \E f \in [0 .. n -> X] : f[0] = a /\ \A i \in 1 .. n : f[i] = g[i][f[i - 1]]
<1> DEFINE Upto(m) == \E f \in [0 .. m -> X] : f[0] = a /\ \A i \in 1 .. m : f[i] = g[i][f[i - 1]]
           N == {m \in Nat : m <= n => Upto(m)}
<1>0. a \in X /\ g \in [1 .. n -> [X -> X]]
  BY DEF StepsUpTo
<1>1. 0 \in N
  <2> DEFINE h == [i \in 0 .. 0 |-> a]
  <2>1. h \in [0 .. 0 -> X] /\ h[0] = a /\ 1 .. 0 = {}
    BY <1>0
  <2> HIDE DEF h
  <2>2. Upto(0)
    BY <2>1
  <2> QED
    BY <2>2
<1>2. \A m \in Nat : m \in N => m + 1 \in N
  <2> HIDE DEF Upto
  <2> SUFFICES ASSUME NEW m \in Nat, Upto(m), m + 1 <= n PROVE Upto(m + 1)
    OBVIOUS
  <2> USE DEF Upto
  <2>1. PICK f \in [0 .. m -> X] : f[0] = a /\ \A i \in 1 .. m : f[i] = g[i][f[i - 1]]
    OBVIOUS
  <2>2. f[m] \in X /\ m + 1 \in 1 .. n /\ g[m + 1][f[m]] \in X
    BY <1>0
  <2>3. PICK c \in X : c = g[m + 1][f[m]]
    BY <2>2
  <2>4. PICK h \in [0 .. m + 1 -> X] : h[m + 1] = c /\ \A i \in 0 .. m : h[i] = f[i]
    <3> DEFINE e == [i \in 0 .. m + 1 |-> IF i = m + 1 THEN c ELSE f[i]]
    <3>1. e \in [0 .. m + 1 -> X] /\ e[m + 1] = c
      OBVIOUS
    <3>2. \A i \in 0 .. m : i \in 0 .. m + 1 /\ i # m + 1
      OBVIOUS
    <3>3. \A i \in 0 .. m : e[i] = f[i]
      BY <3>2
    <3> HIDE DEF e
    <3> QED
      BY <3>1, <3>3
  <2>5. h[0] = a
    BY <2>1, <2>4, 0 \in 0 .. m
  <2>6. ASSUME NEW i \in 1 .. m + 1 PROVE h[i] = g[i][h[i - 1]]
    <3>1. i - 1 \in 0 .. m /\ h[i - 1] = f[i - 1]
      BY <2>4
    <3>2. CASE i = m + 1
      BY <3>1, <3>2, <2>3, <2>4
    <3>3. CASE i \in 1 .. m
      <4>1. i \in 0 .. m /\ h[i] = f[i]
        BY <3>3, <2>4
      <4>2. f[i] = g[i][f[i - 1]]
        BY <3>3, <2>1
      <4> QED
        BY <3>1, <4>1, <4>2
    <3> QED
      BY <3>2, <3>3
  <2> QED
    BY <2>4, <2>5, <2>6
<1> HIDE DEF N, Upto
<1>3. n \in N
  BY <1>1, <1>2, AllNaturals
<1>4. Upto(n)
  BY <1>3 DEF N
<1> QED
  BY <1>4 DEF Upto

-----------------------------------------------------------------------------
(* Powers of two.                                                          *)

\* Pow2 is what its definition says.
LEMMA Doubling ==
  ASSUME NEW w \in Nat
  PROVE  \E f : f = [n \in 0 .. w |-> IF n = 0 THEN 1 ELSE 2 * f[n - 1]]
<1> DEFINE g == [i \in 1 .. w |-> [y \in Nat |-> 2 * y]]
           one == 1
<1>1. StepsUpTo(Nat, g, one, w) /\ one = 1
  BY DEF StepsUpTo
<1>2. \A i \in 1 .. w, y \in Nat : g[i][y] = 2 * y
  OBVIOUS
<1> HIDE DEF g, one
<1>3. PICK f \in [0 .. w -> Nat] : f[0] = one /\ \A i \in 1 .. w : f[i] = g[i][f[i - 1]]
  BY <1>1, StepByStep
<1>4. \A i \in 1 .. w : f[i] = 2 * f[i - 1]
  <2>1. \A i \in 1 .. w : f[i - 1] \in Nat
    OBVIOUS
  <2> QED
    BY <1>2, <1>3, <2>1
<1>5. f = [n \in 0 .. w |-> IF n = 0 THEN 1 ELSE 2 * f[n - 1]]
  BY <1>1, <1>3, <1>4
<1> QED
  BY <1>5

LEMMA Powers ==
  /\ Pow2[0] = 1
  /\ \A n \in 1 .. WordBits : Pow2[n] = 2 * Pow2[n - 1]
  /\ \A n \in 0 .. WordBits : Pow2[n] \in Nat \ {0}
<1> DEFINE Double(f) == [n \in 0 .. WordBits |-> IF n = 0 THEN 1 ELSE 2 * f[n - 1]]
<1>1. WordBits \in Nat
  BY DEF WordBits
<1>2. \E f : f = Double(f)
  BY <1>1, Doubling
<1>3. Pow2 = Double(Pow2)
  <2>1. Pow2 = CHOOSE f : f = Double(f)
    BY DEF Pow2
  <2> HIDE DEF Double
  <2> QED
    BY <1>2, <2>1
<1>4. Pow2[0] = 1 /\ \A n \in 1 .. WordBits : Pow2[n] = 2 * Pow2[n - 1]
  <2>1. \A n \in 0 .. WordBits : Pow2[n] = IF n = 0 THEN 1 ELSE 2 * Pow2[n - 1]
    BY <1>3
  <2>2. 0 \in 0 .. WordBits /\ \A n \in 1 .. WordBits : n \in 0 .. WordBits /\ n # 0
    BY <1>1
  <2> QED
    BY <2>1, <2>2
<1> DEFINE S == {n \in Nat : n <= WordBits => Pow2[n] \in Nat \ {0}}
<1>5. 0 \in S
  BY <1>4
<1>6. \A n \in Nat : n \in S => n + 1 \in S
  <2> SUFFICES ASSUME NEW n \in Nat, n \in S, n + 1 <= WordBits PROVE Pow2[n + 1] \in Nat \ {0}
    OBVIOUS
  <2>1. Pow2[n + 1] = 2 * Pow2[n] /\ Pow2[n] \in Nat \ {0}
    BY <1>1, <1>4
  <2> QED
    BY <2>1
<1> HIDE DEF S
<1>7. Nat \subseteq S
  BY <1>5, <1>6, AllNaturals
<1> QED
  BY <1>1, <1>4, <1>7 DEF S

\* A shift by a and by b is a shift by their sum.
LEMMA PowersMultiply ==
  ASSUME NEW a \in Nat, NEW b \in Nat, a + b <= WordBits
  PROVE  Pow2[a + b] = Pow2[a] * Pow2[b]
<1> DEFINE S == {n \in Nat : a + n <= WordBits => Pow2[a + n] = Pow2[a] * Pow2[n]}
<1>0. WordBits \in Nat
  BY DEF WordBits
<1>1. 0 \in S
  BY <1>0, Powers
<1>2. \A n \in Nat : n \in S => n + 1 \in S
  <2> SUFFICES ASSUME NEW n \in S, a + (n + 1) <= WordBits PROVE Pow2[a + (n + 1)] = Pow2[a] * Pow2[n + 1]
    OBVIOUS
  <2>1. /\ n \in 0 .. WordBits /\ a \in 0 .. WordBits /\ a + (n + 1) \in 1 .. WordBits
        /\ n + 1 \in 1 .. WordBits /\ (n + 1) - 1 = n /\ (a + (n + 1)) - 1 = a + n
    BY <1>0
  <2>2. Pow2[a + n] = Pow2[a] * Pow2[n]
    BY <1>0, <2>1
  <2>3. Pow2[n + 1] = 2 * Pow2[n] /\ Pow2[a + (n + 1)] = 2 * Pow2[a + n]
    <3>1. \A m \in 1 .. WordBits : Pow2[m] = 2 * Pow2[m - 1]
      BY Powers
    <3> QED
      BY <2>1, <3>1
  <2>4. Pow2[a] \in Nat /\ Pow2[n] \in Nat
    BY <2>1, Powers
  <2>5. Pow2[a] * (2 * Pow2[n]) = 2 * (Pow2[a] * Pow2[n])
    BY <2>4
  <2> QED
    BY <2>1, <2>2, <2>3, <2>5
<1> HIDE DEF S
<1>3. b \in S
  BY <1>1, <1>2, AllNaturals
<1> QED
  BY <1>3 DEF S

-----------------------------------------------------------------------------
(* Fields of a number: x \div s is x shifted by a field of s values, and   *)
(* x % s is that field.                                                    *)

LEMMA Divided ==
  ASSUME NEW x \in Nat, NEW s \in Nat \ {0}
  PROVE  /\ x \div s \in Nat
         /\ x % s \in 0 .. s - 1
         /\ x = s * (x \div s) + (x % s)
  BY SMT

LEMMA DividedOnce ==
  ASSUME NEW s \in Nat \ {0}, NEW q \in Nat, NEW r \in 0 .. s - 1
  PROVE  (s * q + r) \div s = q /\ (s * q + r) % s = r
  BY SMT

\* A field of w values in front of one of s values.
LEMMA FieldBounds ==
  ASSUME NEW s \in Nat \ {0}, NEW w \in Nat \ {0}, NEW h \in Nat, NEW e \in 0 .. w - 1, NEW l \in 0 .. s - 1
  PROVE  /\ s * e + l \in 0 .. s * w - 1
         /\ s * w \in Nat \ {0}
         /\ s * (w * h + e) + l = (s * w) * h + (s * e + l)
         /\ w * h + e \in Nat
<1>1. s * e <= s * (w - 1) /\ s * (w - 1) = s * w - s /\ s * e \in Nat /\ s * w \in Nat
  BY SMT
<1>2. s * w \in Nat \ {0}
  BY SMT
<1>3. s * (w * h + e) + l = (s * w) * h + (s * e + l) /\ w * h + e \in Nat
  BY SMT
<1> QED
  BY <1>1, <1>2, <1>3

\* p has e in a field of w values, with l before it and h behind it.
Fielded(p, s, w, h, e, l) ==
  h \in Nat /\ e \in 0 .. w - 1 /\ l \in 0 .. s - 1 /\ p = s * (w * h + e) + l

LEMMA FieldRead ==
  ASSUME NEW s \in Nat \ {0}, NEW w \in Nat \ {0}, NEW h, NEW e, NEW l,
         NEW q, Fielded(q, s, w, h, e, l)
  PROVE  /\ q \in Nat
         /\ q \div s = w * h + e
         /\ (q \div s) % w = e
         /\ q % s = l
         /\ q \div (s * w) = h
<1>0. h \in Nat /\ e \in 0 .. w - 1 /\ l \in 0 .. s - 1 /\ q = s * (w * h + e) + l
  BY DEF Fielded
<1>1. /\ s * e + l \in 0 .. s * w - 1 /\ s * w \in Nat \ {0}
      /\ q = (s * w) * h + (s * e + l) /\ w * h + e \in Nat
  BY <1>0, FieldBounds
<1>2. q \in Nat
  BY <1>0, <1>1
<1>3. q \div s = w * h + e /\ q % s = l
  <2>1. PICK a \in Nat : a = w * h + e
    BY <1>1
  <2>2. q = s * a + l
    BY <1>0, <2>1
  <2>3. q \div s = a /\ q % s = l
    BY <1>0, <2>2, DividedOnce
  <2> QED
    BY <2>1, <2>3
<1>4. (w * h + e) % w = e
  BY <1>0, DividedOnce
<1>5. q \div (s * w) = h
  BY <1>0, <1>1, DividedOnce
<1> QED
  BY <1>2, <1>3, <1>4, <1>5

\* Every number is one with such a field.
LEMMA FieldSplit ==
  ASSUME NEW p \in Nat, NEW s \in Nat \ {0}, NEW w \in Nat \ {0}
  PROVE  \E h, e, l : Fielded(p, s, w, h, e, l)
<1>1. PICK a \in Nat, l \in 0 .. s - 1 : p = s * a + l
  BY Divided
<1>2. PICK h \in Nat, e \in 0 .. w - 1 : a = w * h + e
  BY Divided
<1>3. Fielded(p, s, w, h, e, l)
  BY <1>1, <1>2 DEF Fielded
<1> QED
  BY <1>3

\* q is p with e in this field.
Overwritten(q, p, s, w, e) == e \in 0 .. w - 1 /\ q = (p - ((p \div s) % w) * s) + e * s

\* Writing a field leaves the ones before it and behind it alone.
LEMMA FieldWritten ==
  ASSUME NEW p \in Nat, NEW s \in Nat \ {0}, NEW w \in Nat \ {0}, NEW e, NEW q, Overwritten(q, p, s, w, e)
  PROVE  /\ q \in Nat
         /\ (q \div s) % w = e
         /\ q % s = p % s
         /\ q \div (s * w) = p \div (s * w)
<1>1. PICK h, v, l : Fielded(p, s, w, h, v, l)
  BY FieldSplit
<1>2. (p \div s) % w = v /\ p % s = l /\ p \div (s * w) = h
  BY <1>1, FieldRead
<1>3. h \in Nat /\ v \in 0 .. w - 1 /\ l \in 0 .. s - 1 /\ p = s * (w * h + v) + l
  BY <1>1 DEF Fielded
<1>0. e \in 0 .. w - 1 /\ q = (p - ((p \div s) % w) * s) + e * s
  BY DEF Overwritten
<1>4. q = (s * (w * h + v) + l) - v * s + e * s
  BY <1>0, <1>2, <1>3
<1>5. (s * (w * h + v) + l) - v * s + e * s = s * (w * h + e) + l
  BY <1>0, <1>3, SMT
<1>6. Fielded(q, s, w, h, e, l)
  BY <1>0, <1>3, <1>4, <1>5 DEF Fielded
<1>7. q \in Nat /\ (q \div s) % w = e /\ q % s = l /\ q \div (s * w) = h
  BY <1>6, FieldRead
<1> QED
  BY <1>2, <1>7

\* A field behind a shorter one can be read without it, and one in front of a longer one within it.
LEMMA FieldBehind ==
  ASSUME NEW p \in Nat, NEW s \in Nat \ {0}, NEW d \in Nat \ {0}
  PROVE  p \div (s * d) = (p \div s) \div d
<1>1. PICK h, e, l : Fielded(p, s, d, h, e, l)
  BY FieldSplit
<1>2. p \div s = d * h + e /\ p \div (s * d) = h
  BY <1>1, FieldRead
<1>3. (d * h + e) \div d = h
  BY <1>1, DividedOnce DEF Fielded
<1> QED
  BY <1>2, <1>3

FartherOn(b, s, w, d) == d \in Nat \ {0} /\ b = (s * w) * d

LEMMA FieldBefore ==
  ASSUME NEW p \in Nat, NEW s \in Nat \ {0}, NEW w \in Nat \ {0}, NEW d, NEW b, FartherOn(b, s, w, d)
  PROVE  (p \div s) % w = ((p % b) \div s) % w
<1>0. d \in Nat \ {0} /\ b = (s * w) * d
  BY DEF FartherOn
<1>1. s * w \in Nat \ {0} /\ b \in Nat \ {0}
  BY <1>0, SMT
<1>2. PICK h, e, l : Fielded(p, s, w, h, e, l)
  BY FieldSplit
<1>3. h \in Nat /\ e \in 0 .. w - 1 /\ l \in 0 .. s - 1 /\ p = s * (w * h + e) + l
  BY <1>2 DEF Fielded
<1>4. (p \div s) % w = e
  BY <1>2, FieldRead
<1>5. h \in Nat
  BY <1>3
<1>6. PICK x \in Nat, y \in 0 .. d - 1 : h = d * x + y
  BY <1>0, <1>5, Divided
<1> DEFINE r == s * (w * y + e) + l
<1>7. r = (s * w) * y + (s * e + l) /\ s * e + l \in 0 .. s * w - 1
  BY <1>3, FieldBounds
<1>8. r \in 0 .. b - 1
  <2>1. (s * w) * y + (s * e + l) \in 0 .. (s * w) * d - 1
    BY <1>0, <1>1, <1>6, <1>7, FieldBounds
  <2> QED
    BY <1>0, <1>7, <2>1
<1>9. p = b * x + r
  <2>1. s * (w * (d * x + y) + e) + l = ((s * w) * d) * x + (s * (w * y + e) + l)
    BY <1>0, <1>3, SMT
  <2> QED
    BY <1>0, <1>3, <1>6, <2>1
<1>10. Fielded(r, s, w, y, e, l)
  BY <1>3 DEF Fielded
<1> HIDE DEF r
<1>11. p % b = r
  BY <1>1, <1>8, <1>9, DividedOnce
<1>12. (r \div s) % w = e
  BY <1>10, FieldRead
<1> QED
  BY <1>11, <1>12, <1>4

-----------------------------------------------------------------------------
(* Functions given by what they grow by.                                   *)

LEMMA Summing ==
  ASSUME NEW n \in Nat, NEW len \in [1 .. n -> Nat]
  PROVE  \E f : f = [i \in 0 .. n |-> IF i = 0 THEN 0 ELSE f[i - 1] + len[i]]
<1> DEFINE g == [i \in 1 .. n |-> [y \in Nat |-> y + len[i]]]
           zero == 0
<1>1. StepsUpTo(Nat, g, zero, n) /\ zero = 0
  BY DEF StepsUpTo
<1>2. \A i \in 1 .. n, y \in Nat : g[i][y] = y + len[i]
  OBVIOUS
<1> HIDE DEF g, zero
<1>3. PICK f \in [0 .. n -> Nat] : f[0] = zero /\ \A i \in 1 .. n : f[i] = g[i][f[i - 1]]
  BY <1>1, StepByStep
<1>4. \A i \in 1 .. n : f[i] = f[i - 1] + len[i]
  <2>1. \A i \in 1 .. n : f[i - 1] \in Nat
    OBVIOUS
  <2> QED
    BY <1>2, <1>3, <2>1
<1>5. f = [i \in 0 .. n |-> IF i = 0 THEN 0 ELSE f[i - 1] + len[i]]
  BY <1>1, <1>3, <1>4
<1> QED
  BY <1>5

\* What only grows does not get less.
Grows(f, n) ==
  f[0] \in Nat /\ \A i \in 1 .. n : f[i - 1] \in Nat => f[i] \in Nat /\ f[i - 1] <= f[i]

LEMMA Growing ==
  ASSUME NEW n \in Nat, NEW f, Grows(f, n)
  PROVE  \A j \in 0 .. n : f[j] \in Nat /\ \A i \in 0 .. j : f[i] \in Nat /\ f[i] <= f[j]
<1> DEFINE Up(j) == f[j] \in Nat /\ \A i \in 0 .. j : f[i] \in Nat /\ f[i] <= f[j]
           S == {j \in Nat : j <= n => Up(j)}
<1>0. f[0] \in Nat /\ \A i \in 1 .. n : f[i - 1] \in Nat => f[i] \in Nat /\ f[i - 1] <= f[i]
  BY DEF Grows
<1>1. 0 \in S
  BY <1>0
<1>2. \A j \in Nat : j \in S => j + 1 \in S
  <2> HIDE DEF Up
  <2> SUFFICES ASSUME NEW j \in Nat, Up(j), j + 1 <= n PROVE Up(j + 1)
    OBVIOUS
  <2> USE DEF Up
  <2>1. j + 1 \in 1 .. n /\ (j + 1) - 1 = j
    OBVIOUS
  <2>2. f[j] \in Nat /\ f[j + 1] \in Nat /\ f[j] <= f[j + 1]
    BY <1>0, <2>1
  <2>3. ASSUME NEW i \in 0 .. j + 1 PROVE f[i] \in Nat /\ f[i] <= f[j + 1]
    <3>1. CASE i = j + 1
      BY <3>1, <2>2
    <3>2. CASE i \in 0 .. j
      BY <3>2, <2>2
    <3> QED
      BY <3>1, <3>2
  <2> QED
    BY <2>2, <2>3
<1> HIDE DEF S, Up
<1>3. Nat \subseteq S
  BY <1>1, <1>2, AllNaturals
<1>4. \A j \in 0 .. n : Up(j)
  BY <1>3 DEF S
<1> QED
  BY <1>4 DEF Up
=============================================================================
