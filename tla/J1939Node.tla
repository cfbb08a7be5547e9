----------------------------- MODULE J1939Node -----------------------------
(***************************************************************************)
(* Applications that speak SAE J1939 over channels of the Uni.HAL backend: *)
(* each asks for the parameter groups it wants, builds messages from       *)
(* signals, sends them, and reads what arrives.  The repository has the    *)
(* functions, the applications that call them are external.                *)
(***************************************************************************)
EXTENDS UniHal, J1939

CONSTANTS
  Addr,        \* Addr[c]: source address of the node on channel c
  Wanted,      \* Wanted[c]: parameter groups that it may ask for
  DataPgn,     \* the parameter group that carries the signals
  Desc,        \* its description
  Senders,     \* the channels whose applications send
  Values,      \* values that applications give to signals of bits
  Numbers,     \* and numbers that they give to SLOT signals, NaN among them
  MaxSets,     \* how many signals are set at most in one message
  MaxSends     \* how many messages are sent at most

SlotSignals == {k \in DOMAIN Desc : Desc[k].slot}
Signal ==
  [length : Nat \ {0}, slot : BOOLEAN, offset : Int, scale : Nat \ {0}, max : Int]
\* The signals fit into the payload.  A scale is a positive double with all its
\* digits, a field is shorter than they are by two bits, and numbers up to val_max
\* stay a step away from the code of NaN.
ASSUME DescAssumption ==
  /\ Desc \in Seq(Signal)
  /\ Start(Desc, Len(Desc) + 1) <= PayloadBits
  /\ \A k \in SlotSignals :
       /\ Desc[k].length + 2 <= Precision
       /\ Desc[k].scale >= Pow2[Precision]
       /\ Desc[k].max - Desc[k].offset <= Desc[k].scale * (Pow2[Desc[k].length] - 2)
\* The groups are numbers of groups: what pgn_create takes out of one is all of it.
ASSUME NodeAssumption ==
  /\ IdBits = 29
  /\ Senders \subseteq Channels
  /\ Addr \in [Channels -> 0 .. 255]
  /\ \A c \in Channels : Wanted[c] \subseteq Nat
  /\ DataPgn \in Nat /\ PgnNumber(DataPgn * 2^8) = DataPgn
  /\ Values \subseteq Nat
  /\ \A v \in Numbers : v = NaN \/ v \in Int

Inputs(k) == IF Desc[k].slot THEN Numbers ELSE Values

VARIABLES
  draft,   \* draft[c]: the payload of the message that c prepares
  wrote,   \* history: wrote[c][k] is the value last given to signal k of draft
  sets,    \* sets[c]: how many signals were set in draft[c]
  asked,   \* asked[c]: the groups whose filter was granted since the setup
  sends,   \* how many messages were sent
  due,     \* history: due[c] are the messages that arrived while c wanted them
  taken    \* history: taken[c] are the messages that c received, by number

appVars == <<draft, wrote, sets, asked, sends, due, taken>>
nodeVars == <<vars, appVars>>

Nums(messages) == {m.data.num : m \in messages}
HasDst(pgn) == (pgn \div 2^8) % 256 < EXT_PDU_FORMAT

NodeInit ==
  /\ Init
  /\ draft = [c \in Channels |-> 0]
  /\ wrote = [c \in Channels |-> [k \in {} |-> 0]]
  /\ sets = [c \in Channels |-> 0]
  /\ sends = 0
  /\ asked = [c \in Channels |-> {}]
  /\ due = [c \in Channels |-> {}]
  /\ taken = [c \in Channels |-> {}]

-----------------------------------------------------------------------------
(* Receiving.                                                              *)

\* The group from any source with any priority, and to the own address if it has one.
FilterFor(c, pgn) ==
  LET id == Create2(pgn, Addr[c])
  IN  <<id, PgnNumberMask(id) + (IF ContainsDstAddr(id) THEN 255 * 2^8 ELSE 0)>>

AskFor(c, pgn) ==
  /\ \/ Callable(c) /\ IsSet(c, FilterFor(c, pgn)) /\ UNCHANGED vars
        /\ asked' = [asked EXCEPT ![c] = @ \union {pgn}]
     \/ FilterAdd(c, FilterFor(c, pgn))
        /\ asked' = [asked EXCEPT ![c] = IF filters' = filters THEN @ ELSE @ \union {pgn}]
  /\ UNCHANGED <<draft, wrote, sets, sends, due, taken>>

NodeReceive(c) ==
  /\ ReceiveTo(c)
  /\ taken' = [taken EXCEPT ![c] = @ \union Nums(Received(fifo[c]))]
  /\ UNCHANGED <<draft, wrote, sets, asked, sends, due>>

-----------------------------------------------------------------------------
(* Sending.  Every message carries, as history, what its sender meant.     *)

\* An application builds its message when it can send it.
SetSignal(c, k, v) ==
  /\ started[c] /\ boxes[c] = <<>>
  /\ sets[c] < MaxSets /\ sends < MaxSends
  /\ sets' = [sets EXCEPT ![c] = @ + 1]
  /\ \E m \in ValMax(Desc[k]) : \E p \in SignalSet(draft[c], Desc, k, v, m) :
       draft' = [draft EXCEPT ![c] = p]
  /\ wrote' = [wrote EXCEPT ![c] = [j \in DOMAIN @ \union {k} |-> IF j = k THEN v ELSE @[j]]]
  /\ UNCHANGED <<vars, asked, sends, due, taken>>

Post(c, m) ==
  /\ sends < MaxSends
  /\ sends' = sends + 1
  /\ Transmit(c, m)
  /\ draft' = [draft EXCEPT ![c] = 0]
  /\ wrote' = [wrote EXCEPT ![c] = [k \in {} |-> 0]]
  /\ sets' = [sets EXCEPT ![c] = 0]
  /\ UNCHANGED <<asked, due, taken>>

Data(payload, meaning) == [payload |-> payload, num |-> sends + 1, meaning |-> meaning]

SendData(c, dst) ==
  Post(c, [id |-> Create(J1939_PRIORITY, DataPgn, dst, Addr[c]), flags |-> {"EXT"}, len |-> MaxLen,
           data |-> Data(draft[c], [kind |-> "signals", pgn |-> DataPgn, dst |-> dst, src |-> Addr[c],
                                    values |-> wrote[c]])])

\* uni_can_j1939_msg_pgn_request
SendRequest(c, pgn, dst) ==
  Post(c, [id |-> Create(J1939_PRIORITY, PGN_REQUEST, dst, Addr[c]), flags |-> {"EXT"}, len |-> 3,
           data |-> Data(pgn, [kind |-> "request", pgn |-> PGN_REQUEST, dst |-> dst, src |-> Addr[c],
                               values |-> pgn])])

-----------------------------------------------------------------------------
(* The other calls of the application, and the bus.                        *)

NodeSetup(c) ==
  /\ Setup(c)
  /\ asked' = [asked EXCEPT ![c] = {}]
  /\ UNCHANGED <<draft, wrote, sets, sends, due, taken>>

NodeUp(c) == (InitChannel(c) \/ Open(c)) /\ UNCHANGED appVars

\* What the peripheral has received so far may be lost.
NodeDown(c) ==
  /\ Close(c) \/ Destroy(c)
  /\ due' = [due EXCEPT ![c] = {}]
  /\ UNCHANGED <<draft, wrote, sets, asked, sends, taken>>

NodeAbort(c) == ~ TransmitIdle(c) /\ TransmitAbort(c) /\ UNCHANGED appVars

IsWanted(c, meaning) ==
  /\ started[c]
  /\ meaning.pgn \in asked[c]
  /\ HasDst(meaning.pgn) => meaning.dst = Addr[c]
  /\ Len(fifo[c]) < FifoSize

NodeLeave(c, k) ==
  /\ Leave(c, k)
  /\ LET data == boxes[c][k].data
     IN  due' = [d \in Channels |-> IF d # c /\ IsWanted(d, data.meaning)
                                    THEN due[d] \union {data.num} ELSE due[d]]
  /\ UNCHANGED <<draft, wrote, sets, asked, sends, taken>>

NodeArrive(f) == Arrive(f) /\ UNCHANGED appVars

NodeNext ==
  \/ \E c \in Channels :
       \/ NodeSetup(c) \/ NodeUp(c) \/ NodeDown(c) \/ NodeAbort(c) \/ NodeReceive(c)
       \/ \E pgn \in Wanted[c] : AskFor(c, pgn)
       \/ \E k \in 1 .. Mailboxes : NodeLeave(c, k)
  \/ \E c \in Senders :
       \/ \E k \in DOMAIN Desc : \E v \in Inputs(k) : SetSignal(c, k, v)
       \/ \E dst \in {Addr[d] : d \in Channels} : SendData(c, dst) \/ SendRequest(c, DataPgn, dst)
  \/ \E f \in Foreign : NodeArrive(f)

NodeSpec == NodeInit /\ [][NodeNext]_nodeVars

-----------------------------------------------------------------------------
(* Properties.                                                             *)

Queued(c) == {fifo[c][k] : k \in DOMAIN fifo[c]}

(***************************************************************************)
(* A message that was on the bus while a node listened for its group, had  *)
(* been granted the filter and had room is never missed: filter_add, the   *)
(* masks of the identifier and receive_to agree on what is wanted, with    *)
(* filters of other channels around, repeated requests and frames dropped  *)
(* before it.                                                              *)
(***************************************************************************)
WantedIsReceived == \A c \in Channels : due[c] \subseteq Nums(Queued(c)) \union taken[c]

\* What five roundings can make of a number at most, in parts of 2^Precision.
Slack(signal, v) == 6 * (v - signal.offset) + 2 * signal.scale + Size(signal.offset)

\* A signal as it is read from a payload, and the value it was given.
ReadsAs(payload, k, v) ==
  \A m \in ValMax(Desc[k]) :
    LET r == SignalGet(payload, Desc, k, m)
    IN  IF ~ Desc[k].slot THEN r = Masked(v, Pow2[Desc[k].length] - 1)
        ELSE IF v = NaN THEN r = NaN
        ELSE IF v > Desc[k].max THEN r = NaN
        ELSE v >= Desc[k].offset =>
               /\ r # NaN
               /\ Pow2[Precision] * (r - v) <= Slack(Desc[k], v)
               /\ Pow2[Precision] * (v - r - Desc[k].scale) < Slack(Desc[k], v)
Short == {k \in DOMAIN Desc : Desc[k].length < PayloadBits}

(***************************************************************************)
(* A signal keeps the value it was given, whatever is written to the       *)
(* signals around it before and after: what is read is at most one step of *)
(* its scale below, but for the rounding of the five operations on doubles *)
(* between the two.  So a value on a step, as 0.6 at a scale of 0.1, may   *)
(* be read as the step below, and never as one further away.  NaN and what *)
(* is too great are read as NaN.  A signal of all bits of the payload is   *)
(* left out, as the code shifts by its width, and so is a number below the *)
(* offset, of which the code leaves open how it is converted.              *)
(***************************************************************************)
SignalsKeepValues ==
  \A c \in Channels : \A k \in DOMAIN wrote[c] \intersect Short : ReadsAs(draft[c], k, wrote[c][k])

\* Frames of foreign nodes carry no meaning: none is one that receive_to hands over.
NoneUnderstood == \A f \in Foreign : ~ Proper(f)

(***************************************************************************)
(* A message of another node that is received means what its sender meant: *)
(* group, addresses, priority, the signals or the group asked for.         *)
(***************************************************************************)
UnderstoodIsMeant ==
  \A c \in Channels : \A m \in Received(fifo[c]) :
    LET meant == m.data.meaning
    IN  /\ m.flags = {"EXT"}
        /\ Priority(m.id) = J1939_PRIORITY
        /\ PgnNumber(m.id) = meant.pgn
        /\ SourceAddr(m.id) = meant.src
        /\ ContainsDstAddr(m.id) => PduSpecific(m.id) = meant.dst
        /\ meant.kind = "request" => FromArray(ToArray(m.data.payload)) = meant.values
        /\ meant.kind = "signals" =>
             \A k \in DOMAIN meant.values \intersect Short : ReadsAs(m.data.payload, k, meant.values[k])
=============================================================================
