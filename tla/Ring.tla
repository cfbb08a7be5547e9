-------------------------------- MODULE Ring --------------------------------
(***************************************************************************)
(* The rings of uni_can_protoplexer_queue_t: an array of the application,  *)
(* the index of its oldest element and the number of elements.             *)
(***************************************************************************)
EXTENDS Integers, Sequences

Rings(size, Elements) ==
  [slots : [0 .. size - 1 -> Elements], head : 0 .. size - 1, count : 0 .. size]

EmptyRing(size, element) ==
  [slots |-> [i \in 0 .. size - 1 |-> element], head |-> 0, count |-> 0]

\* The elements of ring r, the oldest first.
RingContents(r, size) ==
  [k \in 1 .. r.count |-> r.slots[(r.head + k - 1) % size]]

\* Puts the elements of s behind those of r, one after the other.
RingPut(r, size, s) ==
  [slots |-> [i \in 0 .. size - 1 |->
                LET k == (i - r.head - r.count) % size
                IN  IF k < Len(s) THEN s[k + 1] ELSE r.slots[i]],
   head |-> r.head,
   count |-> r.count + Len(s)]

\* Removes the oldest element of r.
RingPop(r, size) ==
  [r EXCEPT !.head = (@ + 1) % size, !.count = @ - 1]
=============================================================================
