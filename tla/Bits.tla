-------------------------------- MODULE Bits --------------------------------
(***************************************************************************)
(* Bits of numbers: a mask and a shift of the code are a remainder and a   *)
(* division by a power of two here.                                        *)
(***************************************************************************)
EXTENDS Integers, Sequences

\* The widest number of the code, uint64_t.
WordBits == 64

Pow2[n \in 0 .. WordBits] == IF n = 0 THEN 1 ELSE 2 * Pow2[n - 1]

Bit(x, i) == (x \div Pow2[i]) % 2
=============================================================================
