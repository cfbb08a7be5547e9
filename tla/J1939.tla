------------------------------- MODULE J1939 -------------------------------
(***************************************************************************)
(* Identifiers and signals of SAE J1939: the pure functions of             *)
(* uni_can_j1939_pgn.c and uni_can_j1939_msg.c.                            *)
(***************************************************************************)
EXTENDS Doubles

CONSTANTS
  PayloadBits,  \* bits of the payload of a message (64 in the code)
  NaN           \* not a number, or an infinite one
ASSUME PayloadAssumption == PayloadBits \in 1 .. WordBits
ASSUME NaNAssumption == NaN \notin Int

PGN_REQUEST == 59904
J1939_PRIORITY == 6
EXT_PDU_FORMAT == 240

-----------------------------------------------------------------------------
(* Fields of an identifier.                                                *)

Priority(id)    == (id \div 2^26) % 8
DataPage(id)    == (id \div 2^24) % 2
PduFormat(id)   == (id \div 2^16) % 256
PduSpecific(id) == (id \div 2^8) % 256
SourceAddr(id)  == id % 256

ContainsDstAddr(id) == PduFormat(id) < EXT_PDU_FORMAT

\* pgnnumber_mask and pgnnumber: a destination address is no part of the number.
PgnNumberMask(id) == 2^24 + 255 * 2^16 + (IF ContainsDstAddr(id) THEN 0 ELSE 255 * 2^8)
PgnNumber(id) ==
  DataPage(id) * 2^16 + PduFormat(id) * 2^8 + (IF ContainsDstAddr(id) THEN 0 ELSE PduSpecific(id))

\* pgn_create_3, pgn_create_2 and pgn_create.  The mask keeps the lower 17
\* bits of pgn, so that its upper ones need not be shifted here.
Create3(pgn) == PgnNumber((pgn % 2^21) * 2^8) * 2^8
\* Faulty: the PDU specific byte is written into every identifier.
Create2Any(pgn, specific) ==
  Create3(pgn) - PduSpecific(Create3(pgn)) * 2^8 + (specific % 256) * 2^8
Create2(pgn, specific) ==
  Create3(pgn) + (IF ContainsDstAddr(Create3(pgn)) THEN (specific % 256) * 2^8 ELSE 0)
\* Faulty: the priority loses its upper bit.
CreateLow(priority, pgn, specific, source) ==
  (priority % 4) * 2^26 + Create2(pgn, specific) + (source % 256)
Create(priority, pgn, specific, source) ==
  (priority % 8) * 2^26 + Create2(pgn, specific) + (source % 256)

\* pgn_create_to_array and pgn_create_from_array: 18 bits, the lowest byte first.
ToArray(pgn) == <<pgn % 256, (pgn \div 2^8) % 256, (pgn \div 2^16) % 4>>
FromArray(data) == data[1] + data[2] * 2^8 + data[3] * 2^16

-----------------------------------------------------------------------------
(* Signals: consecutive fields of the payload, the first in the lowest     *)
(* bits.  A signal is [length, slot, offset, scale, max]: a SLOT signal    *)
(* stands for a double, NaN if all its bits are set, any other for its     *)
(* bits.  Identifiers of signals are their places in the description.      *)

Start(desc, k) ==
  LET sum[i \in 0 .. Len(desc)] == IF i = 0 THEN 0 ELSE sum[i - 1] + desc[i].length
  IN  sum[k - 1]

\* 1ULL << 64 is undefined: x86 shifts by nothing, a compiler may compute all bits or none.
ValMax(signal) ==
  IF signal.length < PayloadBits THEN {Pow2[signal.length] - 1} ELSE {0, Pow2[PayloadBits] - 1}

\* x & m where m is one less than a power of two.
Masked(x, m) == x % (m + 1)

SignalGet(payload, desc, k, m) ==
  LET val     == Masked(payload \div Pow2[Start(desc, k)], m)
      product == Nearest(Nearest(val * Unit, 1) * desc[k].scale, Unit)
  IN  IF ~ desc[k].slot THEN val
      ELSE IF val = m THEN NaN ELSE Nearest(product + desc[k].offset, 1)

\* (value - offset) / scale, and the conversion to uint64_t: what is behind the
\* point is cut off, and a number of -1.0 or less is undefined.
Quotient(signal, value) == Nearest(Nearest(value - signal.offset, 1) * Unit, signal.scale)
Encodings(signal, value, m) ==
  IF ~ signal.slot THEN {Masked(value, m)}
  ELSE IF value = NaN THEN {m}
  ELSE IF value > signal.max THEN {m}
  ELSE LET q == Quotient(signal, value)
       IN  IF q >= 0 THEN {Masked(q \div Unit, m)}
           ELSE IF q > 0 - Unit THEN {0} ELSE 0 .. m

\* Faulty: the bits of the older value stay.
SignalSetOver(payload, desc, k, value, m) ==
  {payload - Masked(payload \div Pow2[Start(desc, k)], m) * Pow2[Start(desc, k)]
     + (IF e > Masked(payload \div Pow2[Start(desc, k)], m) THEN e
        ELSE Masked(payload \div Pow2[Start(desc, k)], m)) * Pow2[Start(desc, k)]
     : e \in Encodings(desc[k], value, m)}
SignalSet(payload, desc, k, value, m) ==
  {payload - Masked(payload \div Pow2[Start(desc, k)], m) * Pow2[Start(desc, k)] + e * Pow2[Start(desc, k)]
     : e \in Encodings(desc[k], value, m)}
=============================================================================
