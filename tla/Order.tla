-------------------------------- MODULE Order --------------------------------
(***************************************************************************)
(* Sequences of numbers that keep an order.  The frames of a channel are   *)
(* numbered as they come in and pass through one queue after the other;    *)
(* what in these queues is no frame has a number outside of F.             *)
(***************************************************************************)
EXTENDS Naturals, Sequences, FiniteSets

\* The numbers of the frames in s rise.
Rising(s, F) ==
  \A i, j \in DOMAIN s : i < j /\ s[i] \in F /\ s[j] \in F => s[i] < s[j]

\* Every frame in s has a smaller number than every frame in t.
Before(s, t, F) ==
  \A i \in DOMAIN s, j \in DOMAIN t : s[i] \in F /\ t[j] \in F => s[i] < t[j]

\* No frame in s has a number above n.
UpTo(s, n, F) == \A i \in DOMAIN s : s[i] \in F => s[i] <= n

\* The last number, or 0 when there is none.
LastOr0(s) == IF s = <<>> THEN 0 ELSE s[Len(s)]

\* The element of S that k - 1 others come before, and the elements of s at the
\* positions in S.
Rank(S, i) == Cardinality({j \in S : j <= i})
Nth(S, k) == CHOOSE i \in S : Rank(S, i) = k
Picked(s, S) == [k \in 1 .. Cardinality(S) |-> s[Nth(S, k)]]
==============================================================================
