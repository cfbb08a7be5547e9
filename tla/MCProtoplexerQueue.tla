------------------------- MODULE MCProtoplexerQueue -------------------------
(* Values for the constants of ProtoplexerQueue that a configuration file   *)
(* cannot write.                                                            *)
EXTENDS ProtoplexerQueue

\* A checksum without collisions on the data used here (bytes 0 to 2).
Injective(data) ==
  LET value[k \in 0 .. Len(data)] == IF k = 0 THEN 1 ELSE 4 * value[k - 1] + data[k]
  IN  value[Len(data)]

TwoReceivers == { <<1, 3>>, <<1, 4>> }

\* A message of two chunks, so that the ring of three chunks wraps inside one.
TwoChunks == {[id |-> 2, data |-> <<1, 1, 1>>]}

\* What the theorem about the lossy stream asks of the checksum.
ASSUME TellingAssumption == Telling
=============================================================================
