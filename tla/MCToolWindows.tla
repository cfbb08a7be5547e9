---------------------------- MODULE MCToolWindows ----------------------------
(* Values for the constants of ToolWindows that a configuration file cannot  *)
(* write.                                                                    *)
EXTENDS ToolWindows

\* Two of the five providers of Windows, whose drivers between them hide devices in
\* use, may not start, may fail, and know devices by number and by place; and Linux.
\* Each has two devices, so that one may come to be known by what the other was.
TwoBuilds == {<<"pcan", "wavesahre">>, <<"socketcan">>}
SixUnits == <<"p1", "p2", "w1", "w2", "can0", "can1">>
UnitProvider ==
  [p1 |-> "pcan", p2 |-> "pcan", w1 |-> "wavesahre", w2 |-> "wavesahre",
   can0 |-> "socketcan", can1 |-> "socketcan"]
UnitChannels == [p1 |-> 1, p2 |-> 1, w1 |-> 2, w2 |-> 2, can0 |-> 1, can1 |-> 1]

Number(name, type, offset) == [name |-> name, type |-> type, offset |-> offset, bit |-> 0]
BitField(name, offset, bit) == [name |-> name, type |-> "bit", offset |-> offset, bit |-> bit]
Good(id, fields) == [is |-> "good", id |-> id, fields |-> fields]

\* The first file ends in an exception after its first message, and the second
\* describes this message again.
FirstFile == [exists |-> TRUE, entries |->
  << Good(1, <<Number("old", "u8", 0)>>), [is |-> "bad"] >>]
\* Two bits of a byte in front of which a number is written; a number over
\* another one, with bytes behind.
SecondFile == [exists |-> TRUE, entries |->
  << [is |-> "skip"],
     Good(1, <<Number("count", "u32be", 1), BitField("low", 0, 0), BitField("high", 0, 1)>>),
     Good(2, <<Number("word", "u32le", 0), Number("over", "u16le", 2),
                Number("tail", "bytes", 5), Number("byte", "u8", 4)>>) >>]
ByteStrings == {<<>>, <<3, 2>>}

(***************************************************************************)
(* The bound of the run.  What is received and what is ignored does not    *)
(* depend on which devices there are, only on whether one is connected:    *)
(* devices come and go, and some are missing at first, as long as the      *)
(* receive window is as it was at the start, and the receive window is     *)
(* used with all devices of the build there.                               *)
(***************************************************************************)
AsAtTheStart == received = 0 /\ ~ filter /\ ignored = <<>> /\ ~ broken
AllThere == changes = 0 /\ \A u \in ToSet(Units) : ProviderOf[u] \in ToSet(providers) => u \in attached
OneWindowAtATime == AsAtTheStart \/ AllThere
=============================================================================
