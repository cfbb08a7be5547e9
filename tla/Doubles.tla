------------------------------- MODULE Doubles -------------------------------
(***************************************************************************)
(* Arithmetic on doubles, as uni_can_j1939_msg.c does it with scaled       *)
(* signals.  A number is an integer of the least units that a double tells *)
(* apart; 1.0 is Unit of them.  A sum is exact in units and then rounded,  *)
(* a product x * y is Nearest(x * y, Unit), a quotient x / y is            *)
(* Nearest(x * Unit, y).  Numbers too great for a double are left out.     *)
(***************************************************************************)
EXTENDS Bits

CONSTANTS
  Precision,  \* digits of a double (53)
  Exponents,  \* the greatest power of two between two doubles (2045)
  Unit        \* the units of 1.0 (2^1074)
ASSUME DoubleAssumption ==
  /\ Precision \in 5 .. WordBits
  /\ Exponents \in Nat
  /\ Unit \in Nat /\ Unit >= Pow2[Precision]

Twos[e \in 0 .. Exponents] == IF e = 0 THEN 1 ELSE 2 * Twos[e - 1]
Size(n) == IF n < 0 THEN 0 - n ELSE n

\* The distance of the doubles next to n >= 0: n has all digits, or the distance is the least.
Reaches(n, e) == e = 0 \/ Pow2[Precision - 1] * Twos[e] <= n
Gap(n) == Twos[CHOOSE e \in 0 .. Exponents :
                 Reaches(n, e) /\ \A f \in 0 .. Exponents : Reaches(n, f) => f <= e]

\* The double nearest to n / d, the even one of two.
Nearest(n, d) ==
  LET g    == Gap(Size(n) \div d)
      low  == n \div (d * g)
      rest == 2 * (n % (d * g))
  IN  g * IF rest > d * g \/ (rest = d * g /\ low % 2 = 1) THEN low + 1 ELSE low

IsDouble(n) == Nearest(n, 1) = n
=============================================================================
