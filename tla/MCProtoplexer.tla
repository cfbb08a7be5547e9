---------------------------- MODULE MCProtoplexer ----------------------------
(* Values for the constants of Protoplexer that a configuration file cannot *)
(* write.                                                                   *)
EXTENDS Protoplexer

\* A checksum without collisions on the data used here (bytes 0 to 2).
Injective(data) ==
  LET value[k \in 0 .. Len(data)] == IF k = 0 THEN 1 ELSE 4 * value[k - 1] + data[k]
  IN  value[Len(data)]

\* Addressed to the receiver, and to somebody else.
TwoReceivers == { <<1, 3>>, <<1, 4>> }

\* One chunk and two; the longer two differ in the second chunk only.
Varied ==
  {[id |-> 1, data |-> <<1>>], [id |-> 2, data |-> <<1, 1, 1>>],
   [id |-> 2, data |-> <<1, 1, 2>>]}
\* No data, two chunks, more data than a reassembly holds.
Sizes == {[id |-> 1, data |-> <<>>], [id |-> 2, data |-> <<1, 2, 1>>],
          [id |-> 1, data |-> <<2, 2, 2, 2>>]}

Foreign(from, first, headed, id, length, body) ==
  [id |-> CanIdCreate(from, 3, first), headed |-> headed,
   head |-> [id |-> id, length |-> length, crc |-> 0], body |-> body, num |-> 0]

\* A header and nothing else, of this sender and of address 0, which is not
\* valid; headers with the error identifier, with more data than announced and
\* with too great a length; a first chunk without a header; data, and an
\* oversized frame.
ForeignChunks ==
  {Foreign(1, TRUE, TRUE, 1, 3, <<>>), Foreign(0, TRUE, TRUE, 1, 0, <<>>),
   Foreign(1, TRUE, TRUE, 0, 0, <<>>), Foreign(1, TRUE, TRUE, 1, 1, <<2, 2>>),
   Foreign(1, TRUE, TRUE, 1, 4, <<>>), Foreign(1, TRUE, FALSE, 0, 0, <<2>>),
   Foreign(1, FALSE, FALSE, 0, 0, <<2>>),
   Foreign(1, FALSE, FALSE, 0, 0, <<2, 2, 2, 2, 2, 2, 2, 2, 2>>)}

\* What the theorem about the lossy stream asks of the checksum.
ASSUME TellingAssumption == Telling
=============================================================================
