------------------------------- MODULE MCImp -------------------------------
(* Values for the constants of Imp that a configuration file cannot write. *)
EXTENDS Imp

AcceptAnyone == [n \in Nodes |-> [i \in Slots |-> 0 .. DEVICE_ID_MAX]]
\* The second slot of every node is kept for broadcasts and for node 2.
SecondSlotReserved ==
  [n \in Nodes |-> [i \in Slots |-> IF i = 2 THEN {2, ALL} ELSE 0 .. DEVICE_ID_MAX]]

\* Payloads of two chunks, of one and of none; one that the validator refuses.
LongThenShort == << <<1, 2, 3>>, <<4>> >>
ThreeTransfers == << <<1, 2, 3>>, <<4>>, <<>> >>
ShortPayloads == {<<4>>}

ASSUME PayloadsDifferAssumption == PayloadsDiffer

EvenSizes == [n \in Nodes |-> 3]
\* Node 2 takes two bytes, the others three.
UnevenSizes == [n \in Nodes |-> IF n = 2 THEN 2 ELSE 3]

EvenTimeouts == [n \in Nodes |-> 1]
\* Node 2 is more patient than the others.
UnevenTimeouts == [n \in Nodes |-> IF n = 2 THEN 2 ELSE 1]

\* Frames of a node that follows no session, of one outside the protocol and
\* of one that is not addressed to anybody here.  Node 3 starts transfers of
\* its own, with the parity of its address, and never goes on with them.
NoisyFrames ==
  {MakeFrame(3, 1, 1, CMD_START, <<>>), MakeFrame(3, 1, 1, CMD_DATA, <<7, 8>>),
   MakeFrame(3, 1, 1, CMD_END, <<>>), MakeFrame(2, 1, 0, CMD_ACK, <<>>),
   MakeFrame(2, 1, 0, CMD_NACK, <<>>), MakeFrame(2, 1, 0, CMD_DATA, <<7>>),
   MakeFrame(2, 1, 0, CMD_ABORT_WA, <<>>), MakeFrame(1, 2, 0, CMD_ACK, <<>>),
   MakeFrame(ALL, 1, 1, CMD_START, <<>>), MakeFrame(2, ALL, 0, CMD_START, <<>>),
   MakeFrame(2, 1, 0, 9, <<>>), MakeFrame(2, 1, 0, CMD_DATA, <<1, 2, 3>>)}
=============================================================================
