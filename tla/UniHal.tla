------------------------------- MODULE UniHal -------------------------------
(***************************************************************************)
(* Channels of the Uni.HAL backend: CAN peripherals of a microcontroller   *)
(* behind the functions of uni_can_channel.h.  Nothing runs by itself; the *)
(* application calls (J1939Node.tla), and what is refused changes nothing. *)
(*                                                                         *)
(* The peripherals are external.  They share one bank of filter slots, as  *)
(* the two of a bxCAN do; each has a receive FIFO and a few mailboxes, and *)
(* the bus connects them with each other and with foreign nodes.           *)
(***************************************************************************)
EXTENDS Bits, FiniteSets

CONSTANTS
  Channels,     \* the channels, each on a peripheral of its own
  SlotFirst,    \* SlotFirst[c]: filter_slot_first of channel c
  SlotCount,    \* SlotCount[c]: filter_slot_count of channel c
  FiltersMax,   \* UNI_CAN_UNIHAL_FILTERS_MAX (14 in the code)
  BankSlots,    \* the slots of the filter bank
  IdBits,       \* bits of an extended identifier (29)
  FifoSize,     \* frames in a receive FIFO
  Mailboxes,    \* UNI_CAN_UNIHAL_TX_MAILBOXES (3 in the code)
  MaxLen,       \* UNI_CAN_MESSAGE_MAXLEN
  Foreign,      \* frames of other nodes
  MaxForeign    \* how many foreign frames appear at most

Least(x, y) == IF x < y THEN x ELSE y
\* The slots that filter_add may use.
SlotsOf(c) == SlotFirst[c] .. SlotFirst[c] + Least(SlotCount[c], FiltersMax) - 1

ASSUME SlotsAssumption ==
  /\ FiltersMax \in Nat
  /\ SlotFirst \in [Channels -> Nat] /\ SlotCount \in [Channels -> Nat]
  /\ \A c \in Channels : SlotsOf(c) \subseteq BankSlots
  /\ \A c, d \in Channels : c # d => SlotsOf(c) \intersect SlotsOf(d) = {}
ASSUME HalAssumption ==
  /\ IdBits \in 11 .. WordBits /\ FifoSize \in Nat /\ Mailboxes \in Nat /\ MaxLen \in Nat
  /\ MaxForeign \in Nat

VARIABLES
  ops,       \* ops[c]: base.ops of the channel is set
  filters,   \* filters[c]: filter_id and filter_mask, in the order of their slots
  inited,    \* inited[c]: the peripheral of c is initialised
  started,   \* started[c]: it takes part in the bus
  bank,      \* bank[s]: the filter in slot s and the peripheral that it feeds
  fifo,      \* fifo[c]: received frames, oldest first
  boxes,     \* boxes[c]: frames in mailboxes
  foreign    \* how many foreign frames have appeared

channelVars == <<ops, filters>>
halVars == <<inited, started, bank, fifo, boxes>>
vars == <<channelVars, halVars, foreign>>

NoFilter == [can |-> "none", id |-> 0, mask |-> 0]

Init ==
  /\ ops = [c \in Channels |-> FALSE]
  /\ filters = [c \in Channels |-> <<>>]
  /\ inited = [c \in Channels |-> FALSE]
  /\ started = [c \in Channels |-> FALSE]
  /\ bank = [s \in BankSlots |-> NoFilter]
  /\ fifo = [c \in Channels |-> <<>>]
  /\ boxes = [c \in Channels |-> <<>>]
  /\ foreign = 0

-----------------------------------------------------------------------------
(* The life of a channel.                                                  *)

\* Every function of uni_can_channel.h refuses a channel that is not set up.
Callable(c) == ops[c]

\* uni_can_unihal_channel_setup: nothing happens to the peripheral, its filters stay.
Setup(c) ==
  /\ ops' = [ops EXCEPT ![c] = TRUE]
  /\ filters' = [filters EXCEPT ![c] = <<>>]
  /\ UNCHANGED <<halVars, foreign>>

\* The peripheral may refuse each of the calls; it does not start while the bus is not idle.
InitChannel(c) ==
  /\ Callable(c)
  /\ \E ok \in BOOLEAN : inited' = [inited EXCEPT ![c] = @ \/ ok]
  /\ UNCHANGED <<channelVars, started, bank, fifo, boxes, foreign>>

Open(c) ==
  /\ Callable(c) /\ inited[c]
  /\ \E ok \in BOOLEAN : started' = [started EXCEPT ![c] = @ \/ ok]
  /\ UNCHANGED <<channelVars, inited, bank, fifo, boxes, foreign>>

\* What a peripheral that stops does with the frames it holds is left open.
Stop(c) ==
  \/ UNCHANGED halVars
  \/ /\ started' = [started EXCEPT ![c] = FALSE]
     /\ \E f \in {<<>>, fifo[c]} : fifo' = [fifo EXCEPT ![c] = f]
     /\ \E b \in {<<>>, boxes[c]} : boxes' = [boxes EXCEPT ![c] = b]
     /\ UNCHANGED <<inited, bank>>

Close(c) ==
  /\ Callable(c) /\ inited[c]
  /\ Stop(c)
  /\ UNCHANGED <<channelVars, foreign>>

Destroy(c) ==
  /\ Callable(c)
  /\ ops' = [ops EXCEPT ![c] = FALSE]
  /\ Stop(c)
  /\ ~ inited[c] => UNCHANGED halVars
  /\ UNCHANGED <<filters, foreign>>

-----------------------------------------------------------------------------
(* Filters.                                                                *)

Canon(x) == x % Pow2[IdBits]
CanonFilter(f) == <<Canon(f[1]), Canon(f[2])>>
IsSet(c, f) == \E k \in DOMAIN filters[c] : filters[c][k] = CanonFilter(f)

\* Faulty: all slots count, also those beyond filter_slot_count.
HasSlotAny(c) == Len(filters[c]) < FiltersMax
HasSlot(c) == Len(filters[c]) < Least(SlotCount[c], FiltersMax)

\* A filter that is there already needs no second slot; one that finds none is refused,
\* and the peripheral may refuse one.
FilterAdd(c, f) ==
  /\ Callable(c)
  /\ ~ IsSet(c, f)
  /\ HasSlot(c)
  /\ \/ /\ filters' = [filters EXCEPT ![c] = Append(@, CanonFilter(f))]
        /\ bank' = [bank EXCEPT ![SlotFirst[c] + Len(filters[c])] =
                      [can |-> c, id |-> Canon(f[1]), mask |-> Canon(f[2])]]
     \/ UNCHANGED <<filters, bank>>
  /\ UNCHANGED <<ops, inited, started, fifo, boxes, foreign>>

-----------------------------------------------------------------------------
(* Frames: [id, std, remote, dlc, data]; messages: [id, flags, len, data]. *)

FrameOf(m) ==
  [id |-> m.id, std |-> "STD" \in m.flags /\ "EXT" \notin m.flags, remote |-> FALSE,
   dlc |-> m.len, data |-> m.data]

MessageOf(f) ==
  [id |-> f.id, flags |-> IF f.std THEN {"STD"} ELSE {"EXT"}, len |-> f.dlc, data |-> f.data]

\* A refused message (too long, of the transport protocol, no mailbox) goes nowhere.
Transmit(c, m) ==
  /\ Callable(c) /\ started[c]
  /\ m.len <= MaxLen
  /\ "TP" \notin m.flags
  /\ Len(boxes[c]) < Mailboxes
  /\ boxes' = [boxes EXCEPT ![c] = Append(@, FrameOf(m))]
  /\ UNCHANGED <<channelVars, inited, started, bank, fifo, foreign>>

TransmitIdle(c) == Callable(c) /\ boxes[c] = <<>>

TransmitAbort(c) ==
  /\ Callable(c)
  /\ boxes[c] # <<>>
  /\ boxes' = [boxes EXCEPT ![c] = <<>>]
  /\ UNCHANGED <<channelVars, inited, started, bank, fifo, foreign>>

\* A remote frame asks for data, a CAN FD frame may carry more than a message holds.
Proper(f) == ~ f.remote /\ f.dlc <= MaxLen

Skipped(q) ==
  CHOOSE n \in 0 .. Len(q) :
    /\ \A k \in 1 .. n : ~ Proper(q[k])
    /\ n < Len(q) => Proper(q[n + 1])

\* The oldest proper frame; those before it are dropped, also when none follows.
Received(q) == IF Skipped(q) < Len(q) THEN {MessageOf(q[Skipped(q) + 1])} ELSE {}
ReceiveTo(c) ==
  /\ Callable(c)
  /\ fifo[c] # <<>>
  /\ fifo' = [fifo EXCEPT ![c] = SubSeq(@, Skipped(@) + 2, Len(@))]
  /\ UNCHANGED <<channelVars, inited, started, bank, boxes, foreign>>

-----------------------------------------------------------------------------
(* The peripherals and the bus.                                            *)

\* A standard identifier takes the upper bits of the filter register.
Layout(f) == IF f.std THEN f.id * Pow2[IdBits - 11] ELSE f.id

Passes(f, filter) ==
  \A i \in 0 .. IdBits - 1 : Bit(filter.mask, i) = 1 => Bit(Layout(f), i) = Bit(filter.id, i)

Accepts(c, f) ==
  /\ started[c]
  /\ \E s \in BankSlots : bank[s].can = c /\ Passes(f, bank[s])

\* A frame on the bus, seen by everybody but its sender.
Seen(senders, f) ==
  [c \in Channels |->
     IF c \notin senders /\ Accepts(c, f) /\ Len(fifo[c]) < FifoSize
     THEN Append(fifo[c], f) ELSE fifo[c]]

\* A frame leaves its mailbox; which one goes first is up to the peripheral.
Leave(c, k) ==
  /\ started[c]
  /\ k \in DOMAIN boxes[c]
  /\ boxes' = [boxes EXCEPT ![c] = SubSeq(@, 1, k - 1) \o SubSeq(@, k + 1, Len(@))]
  /\ fifo' = Seen({c}, boxes[c][k])
  /\ UNCHANGED <<channelVars, inited, started, bank, foreign>>

Arrive(f) ==
  /\ foreign < MaxForeign
  /\ foreign' = foreign + 1
  /\ fifo' = Seen({}, f)
  /\ UNCHANGED <<channelVars, inited, started, bank, boxes>>

-----------------------------------------------------------------------------
(* Properties.                                                             *)

(***************************************************************************)
(* The filters that filter_add granted since the channel was set up are in *)
(* force, each in one slot of the channel and none twice, and no channel   *)
(* has touched a slot that is not its own, whichever calls were refused,   *)
(* by the backend or by the peripheral.                                    *)
(***************************************************************************)
FiltersInForce ==
  /\ \A c \in Channels :
       /\ Len(filters[c]) <= Least(SlotCount[c], FiltersMax)
       /\ \A k \in DOMAIN filters[c] :
            bank[SlotFirst[c] + k - 1] = [can |-> c, id |-> filters[c][k][1], mask |-> filters[c][k][2]]
       /\ \A j, k \in DOMAIN filters[c] : filters[c][j] = filters[c][k] => j = k
  /\ \A s \in BankSlots : bank[s] # NoFilter =>
       \E c \in Channels : bank[s].can = c /\ s \in SlotsOf(c)
=============================================================================
