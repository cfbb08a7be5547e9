---------------------------- MODULE MCJ1939Node ----------------------------
(* Values for the constants of J1939Node that a configuration file cannot   *)
(* write.                                                                   *)
EXTENDS J1939Node

\* Two channels in one bank: the first has no slot, the second three, of which
\* it may use two, as FiltersMax is 2.
Firsts == [c \in Channels |-> 0]
Counts == [c \in Channels |-> IF c = "a" THEN 0 ELSE 3]
Bank == 0 .. 2

Addresses == [c \in Channels |-> IF c = "a" THEN 17 ELSE 33]

\* A group for everybody, and requests; one that is sent to one node.
Engine == 61444
Groups == [c \in Channels |-> IF c = "a" THEN {Engine} ELSE {Engine, PGN_REQUEST, 44544}]

\* Two raw bits, a number, another raw field.  With doubles of 8 digits the number
\* has steps of about 0.2 from -1.0 to 0.2 in units of 1/4096.
Offset == 0 - 4096
Scale == 820
Signals ==
  << [length |-> 2, slot |-> FALSE, offset |-> 0, scale |-> 1, max |-> 0],
     [length |-> 3, slot |-> TRUE, offset |-> Offset, scale |-> Scale, max |-> Offset + 6 * Scale],
     [length |-> 3, slot |-> FALSE, offset |-> 0, scale |-> 1, max |-> 0] >>
\* Below the offset by more than a step, on a step that is read as the step below, under
\* a step by less than a rounding, and too great.
SlotNumbers == {NaN, 0 - 5120, 0 - 2464, 0 - 8, 828}
ASSUME DoublesAssumption ==
  \A n \in {Scale, Offset, Offset + 6 * Scale} \union (SlotNumbers \ {NaN}) : IsDouble(n)
\* The losing step is in the run: the code makes one step less of it.
ASSUME StepIsLost ==
  /\ IsDouble(0 - 2464) /\ Nearest(Nearest(2 * Unit * Scale, Unit) + Offset, 1) = 0 - 2464
  /\ Encodings(Signals[2], 0 - 2464, 7) = {1}

Noise(id, std, remote, dlc) ==
  [id |-> id, std |-> std, remote |-> remote, dlc |-> dlc,
   data |-> [payload |-> 0, num |-> 0, meaning |-> "none"]]
\* A remote frame and a CAN FD frame of the group.
ForeignFrames ==
  {Noise(Create(3, Engine, 0, 99), FALSE, TRUE, 0), Noise(Create(3, Engine, 0, 99), FALSE, FALSE, 12)}

ASSUME NoneUnderstoodAssumption == NoneUnderstood
=============================================================================
