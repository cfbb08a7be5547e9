-------------------------------- MODULE Imp --------------------------------
(***************************************************************************)
(* The session layer of the Intermodule Protocol: several contexts         *)
(* (uni_can_imp_ctx_t), one per node, exchanging frames over a CAN bus.    *)
(*                                                                         *)
(* Each node keeps a fixed table of sessions.  Three calls drive it:       *)
(* uni_can_imp_start_send, uni_can_imp_add_frame and uni_can_imp_process.  *)
(* Every call fills one uni_can_imp_output_t; the caller puts the frame of *)
(* the output on the bus before it makes the next call.                    *)
(*                                                                         *)
(* The bus and the clock are external: a bus frame reaches every other     *)
(* node, in order; it may be lost or seen twice, and foreign frames may    *)
(* appear, within the budgets of the constants.                            *)
(***************************************************************************)
EXTENDS ImpCanId, TableScan, Naturals, Sequences, FiniteSets

CONSTANTS
  Nodes,             \* own addresses of the contexts on the bus
  MaxSessions,       \* size of each session table
  Accepts,           \* Accepts[n][i]: peers that slot i of n may serve (address_mask)
  MaxMessageSize,    \* MaxMessageSize[n]: longest message of node n
  SessionTimeout,    \* SessionTimeout[n]: session_timeout_ms of node n, in ticks
  FirstCapacity,     \* first buffer of a receiving session (32 bytes in the code)
  MaxLen,            \* UNI_CAN_MESSAGE_MAXLEN, data bytes of one frame
  UniqueIds,         \* identifiers per direction and peer (8 in the code)
  ClockMod,          \* the millisecond clock wraps at this value (2^32 in the code)
  Payloads,          \* what applications send; payload k belongs to transfer k
  Modes,             \* transfer modes that applications ask for
  Destinations,      \* addresses that applications send to
  Rejected,          \* payloads that message_validator refuses
  Noise,             \* foreign frames that may appear on the bus
  MaxIdle,           \* process is called before a timed session is idle longer
  Prompt,            \* TRUE: a frame is handled within the tick it was sent in
  Mishaps,           \* kinds of mishap that may happen
  MaxMishaps         \* how many mishaps happen at most

VARIABLES
  sess,    \* sess[n][i]: slot i of the session table of node n
  rx,      \* rx[n]: frames on their way to node n, oldest first
  now,     \* the clock, modulo ClockMod
  xfers,   \* history: the transfers started so far, with their outcome
  got,     \* history: the messages handed to applications, in order
  mishaps  \* how many mishaps have happened

vars == <<sess, rx, now, xfers, got, mishaps>>

WITH_ACK == "WITH_ACK"
WITHOUT_ACK == "WITHOUT_ACK"

Slots == 1 .. MaxSessions

ASSUME NodesAssumption == Nodes \subseteq 0 .. DEVICE_ID_MAX - 1
ASSUME SizesAssumption ==
  /\ MaxSessions \in Nat \ {0}
  /\ MaxMessageSize \in [Nodes -> Nat]
  /\ SessionTimeout \in [Nodes -> Nat]
  /\ MaxLen \in Nat \ {0}
  /\ FirstCapacity \in Nat
  /\ UniqueIds \in 1 .. 8
  /\ ClockMod \in Nat \ {0}
ASSUME MasksAssumption == Accepts \in [Nodes -> [Slots -> SUBSET (0 .. DEVICE_ID_MAX)]]
ASSUME TrafficAssumption ==
  /\ Payloads \in Seq(Seq(Nat))
  /\ Modes \subseteq {WITH_ACK, WITHOUT_ACK}
  /\ Destinations \subseteq 0 .. DEVICE_ID_MAX
  /\ Prompt \in BOOLEAN
  /\ MaxIdle \in Nat
\* process is called before the clock has gone around since the last activity.
ASSUME ClockAssumption == MaxIdle < ClockMod
ASSUME MishapsAssumption ==
  /\ Mishaps \subseteq {"loss", "duplicate", "noise", "restart", "alloc"}
  /\ MaxMishaps \in Nat

SessionStates == {"FREE", "RX", "TX_WITHOUT_ACK", "TX_WAIT_START_ACK",
                  "TX_WAIT_DATA_ACK", "TX_WAIT_END_ACK"}

(***************************************************************************)
(* One slot.  cap is payload_capacity, last is last_activity_ms.  Two      *)
(* fields are history, not code: xfer numbers the transfer that a sending  *)
(* slot carries, age counts the ticks since last was set, without wrapping.*)
(***************************************************************************)
Session ==
  [state : SessionStates, mode : {WITH_ACK, WITHOUT_ACK},
   peer : 0 .. DEVICE_ID_MAX, local : 0 .. DEVICE_ID_MAX, sid : 0 .. SESSION_ID_MAX,
   lastlen : Nat, payload : Seq(Nat), cap : Nat, offset : Nat, last : Nat,
   xfer : Nat, age : Nat]

\* What memset leaves of a slot; the address mask is a constant here.
FreeSession ==
  [state |-> "FREE", mode |-> WITH_ACK, peer |-> 0, local |-> 0, sid |-> 0,
   lastlen |-> 0, payload |-> <<>>, cap |-> 0, offset |-> 0, last |-> 0,
   xfer |-> 0, age |-> 0]

Frame == [id : Nat, data : Seq(Nat)]

\* The low bit of a session identifier is set by the initiator: 1 if it has
\* the higher address.
InitiatorBit(from, to) == IF from > to THEN 1 ELSE 0

(***************************************************************************)
(* Frames of nodes that run this protocol: whoever sends a START chose its *)
(* identifier as start_send does.  Foreign frames are assumed to be such.  *)
(***************************************************************************)
HonestFrame ==
  {f \in Frame : CanIdCommand(f.id) \in {CMD_START, CMD_START_WA} =>
      CanIdSession(f.id) % 2 = InitiatorBit(CanIdFrom(f.id), CanIdTo(f.id))}
ASSUME NoiseAssumption == Noise \subseteq HonestFrame

MakeFrame(from, to, sid, cmd, data) ==
  [id |-> CanIdCreate(from, to, sid, cmd), data |-> data]

Outcomes == {"OPEN", "TX_FINISHED", "TX_TIMEOUT", "TX_ABORTED", "RESTARTED"}
Transfer ==
  [from : Nodes, to : 0 .. DEVICE_ID_MAX, mode : {WITH_ACK, WITHOUT_ACK},
   data : Seq(Nat), out : Outcomes]
Message ==
  [at : Nodes, from : 0 .. DEVICE_ID_MAX, to : 0 .. DEVICE_ID_MAX,
   mode : {WITH_ACK, WITHOUT_ACK}, data : Seq(Nat)]

Init ==
  /\ sess = [n \in Nodes |-> [i \in Slots |-> FreeSession]]
  /\ rx = [n \in Nodes |-> <<>>]
  /\ now = 0
  /\ xfers = <<>>
  /\ got = <<>>
  /\ mishaps = 0

-----------------------------------------------------------------------------
(* The session table.                                                      *)

Busy(s)  == s.state # "FREE"
IsTx(s)  == s.state \notin {"FREE", "RX"}
\* Faulty: waiting for the last ACK has no timeout.
TimedButEnd(s) == s.state \notin {"FREE", "TX_WITHOUT_ACK", "TX_WAIT_END_ACK"}
Timed(s) == s.state \notin {"FREE", "TX_WITHOUT_ACK"}

Key(s) == <<s.peer, s.local, s.sid>>

Matching(n, key) == {i \in Slots : Busy(sess[n][i]) /\ Key(sess[n][i]) = key}
FreeFor(n, peer) == {i \in Slots : ~ Busy(sess[n][i]) /\ peer \in Accepts[n][i]}

\* Identifiers that sessions already sending to peer hold.
ReservedIds(n, peer) ==
  {sess[n][i].sid \div 2 : i \in {j \in Slots : IsTx(sess[n][j]) /\ sess[n][j].peer = peer}}
UnreservedIds(n, peer) == (0 .. UniqueIds - 1) \ ReservedIds(n, peer)

\* Faulty: both sides of a pair use the same identifiers.
SessionIdNoParity(own, peer, unique) == 2 * unique
SessionId(own, peer, unique) == 2 * unique + InitiatorBit(own, peer)

WithoutAck(cmd) == cmd \in {CMD_START_WA, CMD_DATA_WA, CMD_END_WA, CMD_ABORT_WA}

-----------------------------------------------------------------------------
(* The bus.  A call of node n puts the frames of out behind everything     *)
(* that is already on its way to the other nodes.                          *)

Emit(n, out) == rx' = [m \in Nodes |-> IF m = n THEN rx[m] ELSE rx[m] \o out]

\* The same, and the frame that the call handled has left the queue of n.
Answer(n, out) ==
  rx' = [m \in Nodes |-> IF m = n THEN Tail(rx[m]) ELSE rx[m] \o out]

To(n, s, cmd, data) == <<MakeFrame(n, s.peer, s.sid, cmd, data)>>

\* A kind of mishap that the run allows, within its budget.
Mishap(kind) ==
  /\ kind \in Mishaps
  /\ mishaps < MaxMishaps
  /\ mishaps' = mishaps + 1

SetSlot(n, i, s) == sess' = [sess EXCEPT ![n][i] = s]
\* uni_can_imp_session_release
Release(n, i) == SetSlot(n, i, FreeSession)

EndTransfer(s, outcome) == xfers' = [xfers EXCEPT ![s.xfer].out = outcome]

-----------------------------------------------------------------------------
(* Sending.                                                                *)

NextChunk(s) ==
  LET left == Len(s.payload) - s.offset
  IN  SubSeq(s.payload, s.offset + 1, s.offset + (IF left > MaxLen THEN MaxLen ELSE left))

(***************************************************************************)
(* The application of n sends the next payload.  start_send copies it into *)
(* a slot and returns the START frame.  A refused call (message too long,  *)
(* wrong address, no slot, no identifier, no memory) changes nothing.      *)
(***************************************************************************)
StartSend(n, peer, mode) ==
  LET data == Payloads[Len(xfers) + 1]
      unique == FirstOf(UnreservedIds(n, peer))
      kind == IF peer = ALL THEN WITHOUT_ACK ELSE mode
      s == [FreeSession EXCEPT
              !.state = IF kind = WITH_ACK THEN "TX_WAIT_START_ACK" ELSE "TX_WITHOUT_ACK",
              !.mode = kind, !.peer = peer, !.local = n,
              !.sid = SessionId(n, peer, unique),
              !.payload = data, !.cap = Len(data), !.last = now, !.xfer = Len(xfers) + 1]
  IN  /\ Len(xfers) < Len(Payloads)
      /\ peer # n
      /\ Len(data) <= MaxMessageSize[n]
      /\ FreeFor(n, peer) # {}
      /\ UnreservedIds(n, peer) # {}
      /\ SetSlot(n, FirstOf(FreeFor(n, peer)), s)
      /\ Emit(n, To(n, s, IF kind = WITH_ACK THEN CMD_START ELSE CMD_START_WA, <<>>))
      /\ xfers' = Append(xfers, [from |-> n, to |-> peer, mode |-> kind,
                                 data |-> data, out |-> "OPEN"])
      /\ UNCHANGED <<now, got, mishaps>>

\* Faulty: END is sent with the last chunk, not after its ACK.
EmitNextWithEnd(n, i, s) ==
  LET last == Len(s.payload) - s.offset <= MaxLen
      end == To(n, s, CMD_END, <<>>)
  IN  IF s.offset < Len(s.payload)
      THEN /\ SetSlot(n, i, [s EXCEPT !.state = "TX_WAIT_DATA_ACK", !.last = now, !.age = 0,
                                      !.lastlen = Len(NextChunk(s))])
           /\ Answer(n, To(n, s, CMD_DATA, NextChunk(s)) \o IF last THEN end ELSE <<>>)
      ELSE /\ SetSlot(n, i, [s EXCEPT !.state = "TX_WAIT_END_ACK", !.last = now, !.age = 0])
           /\ Answer(n, IF Len(s.payload) = 0 THEN end ELSE <<>>)
\* emit_next_acked_frame: the next chunk, or END behind the last one.
EmitNext(n, i, s) ==
  IF s.offset < Len(s.payload)
  THEN /\ SetSlot(n, i, [s EXCEPT !.state = "TX_WAIT_DATA_ACK", !.last = now, !.age = 0,
                                  !.lastlen = Len(NextChunk(s))])
       /\ Answer(n, To(n, s, CMD_DATA, NextChunk(s)))
  ELSE /\ SetSlot(n, i, [s EXCEPT !.state = "TX_WAIT_END_ACK", !.last = now, !.age = 0])
       /\ Answer(n, To(n, s, CMD_END, <<>>))

\* resend_acked_frame: START, or the chunk that was not acknowledged, again.
Resend(n, i, s) ==
  /\ SetSlot(n, i, [s EXCEPT !.last = now, !.age = 0])
  /\ Answer(n, IF s.state = "TX_WAIT_START_ACK" THEN To(n, s, CMD_START, <<>>)
               ELSE To(n, s, CMD_DATA, SubSeq(s.payload, s.offset + 1, s.offset + s.lastlen)))

\* Faulty: an aborted transfer keeps its session.
TxAbortKeepsSlot(n, i, s, cmd) ==
  /\ cmd = CMD_ABORT_WA
  /\ Answer(n, <<>>)
  /\ EndTransfer(s, "TX_ABORTED")
  /\ UNCHANGED sess
\* handle_tx_frame
TxAbort(n, i, s, cmd) ==
  /\ cmd = CMD_ABORT_WA
  /\ Release(n, i)
  /\ Answer(n, <<>>)
  /\ EndTransfer(s, "TX_ABORTED")

TxNack(n, i, s, cmd) ==
  /\ cmd = CMD_NACK
  /\ \/ /\ s.state \in {"TX_WAIT_START_ACK", "TX_WAIT_DATA_ACK"}
        /\ Resend(n, i, s)
        /\ UNCHANGED xfers
     \/ /\ s.state \in {"TX_WITHOUT_ACK", "TX_WAIT_END_ACK"}
        /\ Release(n, i)
        /\ Answer(n, <<>>)
        /\ EndTransfer(s, "TX_ABORTED")

TxUnexpected(n, i, s, cmd) ==
  /\ cmd \notin {CMD_ABORT_WA, CMD_NACK, CMD_ACK}
  /\ Release(n, i)
  /\ Answer(n, To(n, s, CMD_ABORT_WA, <<>>))
  /\ EndTransfer(s, "TX_ABORTED")

TxAck(n, i, s, cmd) ==
  /\ cmd = CMD_ACK
  /\ \/ /\ s.state = "TX_WAIT_START_ACK"
        /\ EmitNext(n, i, s)
        /\ UNCHANGED xfers
     \/ /\ s.state = "TX_WAIT_DATA_ACK"
        /\ EmitNext(n, i, [s EXCEPT !.offset = @ + s.lastlen])
        /\ UNCHANGED xfers
     \/ /\ s.state = "TX_WAIT_END_ACK"
        /\ Release(n, i)
        /\ Answer(n, <<>>)
        /\ EndTransfer(s, "TX_FINISHED")
     \/ /\ s.state = "TX_WITHOUT_ACK"
        /\ Answer(n, <<>>)
        /\ UNCHANGED <<sess, xfers>>

HandleTxFrame(n, i, s, cmd) ==
  /\ \/ TxAbort(n, i, s, cmd)
     \/ TxNack(n, i, s, cmd)
     \/ TxUnexpected(n, i, s, cmd)
     \/ TxAck(n, i, s, cmd)
  /\ UNCHANGED <<now, got, mishaps>>

-----------------------------------------------------------------------------
(* Receiving.                                                              *)

\* Faulty: doubling ignores the message limit.
GrownCapacityUnlimited(cap, required, limit) ==
  LET doubled == IF cap = 0 THEN FirstCapacity ELSE 2 * cap
  IN  IF required <= cap THEN cap ELSE IF doubled < required THEN required ELSE doubled
\* uni_can_imp_session_append: the buffer doubles, up to the message limit.
GrownCapacity(cap, required, limit) ==
  LET doubled == IF cap = 0 THEN FirstCapacity ELSE 2 * cap
      enough == IF doubled < required THEN required ELSE doubled
  IN  IF required <= cap THEN cap ELSE IF enough > limit THEN limit ELSE enough

Appended(n, s, data) ==
  [s EXCEPT !.payload = @ \o data,
            !.cap = IF data = <<>> THEN @
                    ELSE GrownCapacity(@, Len(s.payload) + Len(data), MaxMessageSize[n])]

\* handle_rx_frame
RxAbort(n, i, s, cmd) ==
  /\ cmd = CMD_ABORT_WA
  /\ Release(n, i)
  /\ Answer(n, <<>>)
  /\ UNCHANGED <<got, mishaps>>

\* Faulty: a START on an open session keeps the bytes stored so far.
RxStartKeepsPayload(n, i, s, cmd) ==
  /\ cmd \in {CMD_START, CMD_START_WA}
  /\ SetSlot(n, i, [s EXCEPT !.mode = IF cmd = CMD_START THEN WITH_ACK ELSE WITHOUT_ACK,
                             !.last = now, !.age = 0])
  /\ Answer(n, IF cmd = CMD_START /\ s.local # ALL THEN To(n, s, CMD_ACK, <<>>) ELSE <<>>)
  /\ UNCHANGED <<got, mishaps>>
\* A START on a session that is already open drops what it has received.
RxStart(n, i, s, cmd) ==
  /\ cmd \in {CMD_START, CMD_START_WA}
  /\ SetSlot(n, i, [s EXCEPT !.payload = <<>>, !.cap = 0, !.offset = 0,
                             !.mode = IF cmd = CMD_START THEN WITH_ACK ELSE WITHOUT_ACK,
                             !.last = now, !.age = 0])
  /\ Answer(n, IF cmd = CMD_START /\ s.local # ALL THEN To(n, s, CMD_ACK, <<>>) ELSE <<>>)
  /\ UNCHANGED <<got, mishaps>>

RxData(n, i, s, cmd, data) ==
  /\ cmd \in {CMD_DATA, CMD_DATA_WA}
  /\ Len(s.payload) + Len(data) <= MaxMessageSize[n]
  /\ SetSlot(n, i, [Appended(n, s, data) EXCEPT !.last = now, !.age = 0])
  /\ Answer(n, IF cmd = CMD_DATA THEN To(n, s, CMD_ACK, <<>>) ELSE <<>>)
  /\ UNCHANGED <<got, mishaps>>

\* The chunk does not fit the message limit, or the buffer cannot grow.
RxDataFails(n, i, s, cmd, data) ==
  /\ cmd \in {CMD_DATA, CMD_DATA_WA}
  /\ IF Len(s.payload) + Len(data) > MaxMessageSize[n]
     THEN UNCHANGED mishaps
     ELSE Appended(n, s, data).cap # s.cap /\ Mishap("alloc")
  /\ Release(n, i)
  /\ Answer(n, IF cmd = CMD_DATA THEN To(n, s, CMD_ABORT_WA, <<>>) ELSE <<>>)
  /\ UNCHANGED got

\* Faulty: the session stays open after END.
RxEndKeepsSession(n, i, s, cmd) ==
  /\ cmd \in {CMD_END, CMD_END_WA}
  /\ SetSlot(n, i, s)
  /\ Answer(n, IF cmd = CMD_END THEN To(n, s, CMD_ACK, <<>>) ELSE <<>>)
  /\ got' = Append(got, [at |-> n, from |-> s.peer, to |-> s.local,
                         mode |-> s.mode, data |-> s.payload])
  /\ UNCHANGED mishaps
\* finish_rx
RxEnd(n, i, s, cmd) ==
  LET acked(answer) == IF cmd = CMD_END THEN To(n, s, answer, <<>>) ELSE <<>>
  IN  /\ cmd \in {CMD_END, CMD_END_WA}
      /\ Release(n, i)
      /\ \/ /\ s.payload \in Rejected
            /\ Answer(n, acked(CMD_NACK))
            /\ UNCHANGED <<got, mishaps>>
         \/ /\ s.payload \notin Rejected
            /\ Mishap("alloc")
            /\ Answer(n, acked(CMD_ABORT_WA))
            /\ UNCHANGED got
         \/ /\ s.payload \notin Rejected
            /\ Answer(n, acked(CMD_ACK))
            /\ got' = Append(got, [at |-> n, from |-> s.peer, to |-> s.local,
                                   mode |-> IF s.local = ALL THEN WITHOUT_ACK ELSE s.mode,
                                   data |-> s.payload])
            /\ UNCHANGED mishaps

RxUnexpected(n, i, s, cmd) ==
  /\ cmd \in {CMD_ACK, CMD_NACK}
  /\ Release(n, i)
  /\ Answer(n, To(n, s, CMD_ABORT_WA, <<>>))
  /\ UNCHANGED <<got, mishaps>>

HandleRxFrame(n, i, s, cmd, data) ==
  /\ \/ RxAbort(n, i, s, cmd)
     \/ RxStart(n, i, s, cmd)
     \/ RxData(n, i, s, cmd, data)
     \/ RxDataFails(n, i, s, cmd, data)
     \/ RxEnd(n, i, s, cmd)
     \/ RxUnexpected(n, i, s, cmd)
  /\ UNCHANGED <<now, xfers>>

-----------------------------------------------------------------------------
(* uni_can_imp_add_frame                                                   *)

\* The frame is for this node and well formed.
Accepted(n, f) ==
  LET to == CanIdTo(f.id)
      cmd == CanIdCommand(f.id)
  IN  /\ Len(f.data) <= MaxLen
      /\ to \in {n, ALL}
      /\ CanIdFrom(f.id) # ALL
      /\ cmd <= CMD_ABORT_WA
      /\ to = ALL => WithoutAck(cmd)

FrameKey(f) == <<CanIdFrom(f.id), CanIdTo(f.id), CanIdSession(f.id)>>

\* The slot that a START opens.
OpenedSession(f) ==
  [FreeSession EXCEPT
     !.state = "RX",
     !.mode = IF CanIdCommand(f.id) = CMD_START THEN WITH_ACK ELSE WITHOUT_ACK,
     !.peer = CanIdFrom(f.id), !.local = CanIdTo(f.id), !.sid = CanIdSession(f.id),
     !.last = now]

\* Wrong address or malformed: nothing happens.
AddForeign(n) ==
  /\ rx[n] # <<>>
  /\ ~ Accepted(n, Head(rx[n]))
  /\ Answer(n, <<>>)
  /\ UNCHANGED <<sess, now, xfers, got, mishaps>>

\* The frame belongs to a session that is open.
AddToSession(n) ==
  /\ rx[n] # <<>>
  /\ LET f == Head(rx[n])
         i == FirstOf(Matching(n, FrameKey(f)))
         s == sess[n][i]
     IN  /\ Accepted(n, f)
         /\ Matching(n, FrameKey(f)) # {}
         /\ \/ IsTx(s) /\ HandleTxFrame(n, i, s, CanIdCommand(f.id))
            \/ ~ IsTx(s) /\ HandleRxFrame(n, i, s, CanIdCommand(f.id), f.data)

\* A START opens a session in the first free slot that serves the sender.
AddOpening(n) ==
  /\ rx[n] # <<>>
  /\ LET f == Head(rx[n])
         from == CanIdFrom(f.id)
     IN  /\ Accepted(n, f)
         /\ Matching(n, FrameKey(f)) = {}
         /\ CanIdCommand(f.id) \in {CMD_START, CMD_START_WA}
         /\ FreeFor(n, from) # {}
         /\ HandleRxFrame(n, FirstOf(FreeFor(n, from)), OpenedSession(f),
                          CanIdCommand(f.id), f.data)

\* Faulty: every frame without a session is answered.
AbortReplyToAll(n, f) ==
  <<MakeFrame(n, CanIdFrom(f.id), CanIdSession(f.id), CMD_ABORT_WA, <<>>)>>
\* Faulty: a frame without a session is acknowledged.
AckReply(n, f) ==
  IF WithoutAck(CanIdCommand(f.id)) THEN <<>>
  ELSE <<MakeFrame(n, CanIdFrom(f.id), CanIdSession(f.id), CMD_ACK, <<>>)>>
\* Only a frame whose sender waits for an answer is answered.
AbortReply(n, f) ==
  IF WithoutAck(CanIdCommand(f.id)) THEN <<>>
  ELSE <<MakeFrame(n, CanIdFrom(f.id), CanIdSession(f.id), CMD_ABORT_WA, <<>>)>>

\* No session, and none can be opened.
AddUnknown(n) ==
  /\ rx[n] # <<>>
  /\ LET f == Head(rx[n])
     IN  /\ Accepted(n, f)
         /\ Matching(n, FrameKey(f)) = {}
         /\ \/ CanIdCommand(f.id) \notin {CMD_START, CMD_START_WA}
            \/ FreeFor(n, CanIdFrom(f.id)) = {}
         /\ Answer(n, AbortReply(n, f))
  /\ UNCHANGED <<sess, now, xfers, got, mishaps>>

AddFrame(n) == AddForeign(n) \/ AddToSession(n) \/ AddOpening(n) \/ AddUnknown(n)

-----------------------------------------------------------------------------
(* uni_can_imp_process                                                     *)

\* Faulty: the clock does not wrap around.
TimedOutNoWrap(n, s) == Timed(s) /\ now > s.last + SessionTimeout[n]
\* The difference is computed in uint32_t.
TimedOut(n, s) == Timed(s) /\ (now - s.last) % ClockMod > SessionTimeout[n]

Late(n) == {i \in Slots : TimedOut(n, sess[n][i])}
Unacked(n) == {i \in Slots : sess[n][i].state = "TX_WITHOUT_ACK"}

\* One timeout per call, before anything is sent.
ProcessTimeout(n) ==
  /\ Late(n) # {}
  /\ LET i == FirstOf(Late(n))
         s == sess[n][i]
     IN  /\ Release(n, i)
         /\ IF s.state = "RX" THEN UNCHANGED xfers ELSE EndTransfer(s, "TX_TIMEOUT")
  /\ UNCHANGED <<rx, now, got, mishaps>>

\* One DATA_WA or END_WA per call.
ProcessUnacked(n) ==
  /\ Late(n) = {}
  /\ Unacked(n) # {}
  /\ LET i == FirstOf(Unacked(n))
         s == sess[n][i]
     IN  \/ /\ s.offset < Len(s.payload)
            /\ SetSlot(n, i, [s EXCEPT !.offset = @ + Len(NextChunk(s))])
            /\ Emit(n, To(n, s, CMD_DATA_WA, NextChunk(s)))
            /\ UNCHANGED xfers
         \/ /\ s.offset >= Len(s.payload)
            /\ Release(n, i)
            /\ Emit(n, To(n, s, CMD_END_WA, <<>>))
            /\ EndTransfer(s, "TX_FINISHED")
  /\ UNCHANGED <<now, got, mishaps>>

Process(n) == ProcessTimeout(n) \/ ProcessUnacked(n)

-----------------------------------------------------------------------------
(* The environment.                                                        *)

(***************************************************************************)
(* A millisecond tick.  The bound on age says that every context calls     *)
(* process before the clock has gone around since the last activity.       *)
(***************************************************************************)
Tick ==
  /\ \A n \in Nodes, i \in Slots : Timed(sess[n][i]) => sess[n][i].age < MaxIdle
  /\ Prompt => \A n \in Nodes : rx[n] = <<>>
  /\ now' = (now + 1) % ClockMod
  /\ sess' = [n \in Nodes |-> [i \in Slots |->
                IF Timed(sess[n][i]) THEN [sess[n][i] EXCEPT !.age = @ + 1] ELSE sess[n][i]]]
  /\ UNCHANGED <<rx, xfers, got, mishaps>>

Lose(n) ==
  /\ rx[n] # <<>>
  /\ Mishap("loss")
  /\ rx' = [rx EXCEPT ![n] = Tail(@)]
  /\ UNCHANGED <<sess, now, xfers, got>>

Duplicate(n) ==
  /\ rx[n] # <<>>
  /\ Mishap("duplicate")
  /\ rx' = [rx EXCEPT ![n] = <<Head(@)>> \o @]
  /\ UNCHANGED <<sess, now, xfers, got>>

Intrude(n) ==
  /\ Mishap("noise")
  /\ \E f \in Noise : rx' = [rx EXCEPT ![n] = Append(@, f)]
  /\ UNCHANGED <<sess, now, xfers, got>>

\* uni_can_imp_deinit and uni_can_imp_init: the sessions go, the bus does not notice.
Restart(n) ==
  /\ Mishap("restart")
  /\ sess' = [sess EXCEPT ![n] = [i \in Slots |-> FreeSession]]
  /\ xfers' = [k \in DOMAIN xfers |->
                 IF xfers[k].from = n /\ xfers[k].out = "OPEN"
                 THEN [xfers[k] EXCEPT !.out = "RESTARTED"] ELSE xfers[k]]
  /\ UNCHANGED <<rx, now, got>>

Next ==
  \/ \E n \in Nodes :
       \/ \E peer \in Destinations, mode \in Modes : StartSend(n, peer, mode)
       \/ AddFrame(n)
       \/ Process(n)
       \/ Lose(n)
       \/ Duplicate(n)
       \/ Intrude(n)
       \/ Restart(n)
  \/ Tick

Spec == Init /\ [][Next]_vars

(***************************************************************************)
(* Fairness: each application keeps feeding received frames to add_frame   *)
(* and keeps calling process, and time goes on.  Nobody has to send, and   *)
(* nothing has to go wrong.                                                *)
(***************************************************************************)
Fairness ==
  /\ \A n \in Nodes : WF_vars(AddFrame(n)) /\ WF_vars(Process(n))
  /\ WF_vars(Tick)

FairSpec == Spec /\ Fairness

-----------------------------------------------------------------------------
(* Properties.                                                             *)

\* Every variable keeps its type: slots, frames, history and budgets.
TypeOK ==
  /\ sess \in [Nodes -> [Slots -> Session]]
  /\ rx \in [Nodes -> Seq(Frame)]
  /\ now \in 0 .. ClockMod - 1
  /\ xfers \in Seq(Transfer)
  /\ got \in Seq(Message)
  /\ mishaps \in 0 .. MaxMishaps

(***************************************************************************)
(* Two open sessions of a node never share peer, local address and session *)
(* identifier, so find_session is never ambiguous: a transfer that n sends *)
(* and one that the peer sends at the same time differ in the parity bit   *)
(* of start_send, two transfers of n in the reserved identifier.           *)
(***************************************************************************)
UniqueKeys ==
  \A n \in Nodes : \A i, j \in Slots :
    (i # j /\ Busy(sess[n][i]) /\ Busy(sess[n][j])) => Key(sess[n][i]) # Key(sess[n][j])

(***************************************************************************)
(* Memory safety of the payload buffers: a buffer holds the bytes stored   *)
(* in it, is never larger than max_message_size, and a chunk that is sent  *)
(* or sent again (offset, last_data_length) lies inside it.                *)
(***************************************************************************)
BuffersInBounds ==
  \A n \in Nodes, i \in Slots :
    LET s == sess[n][i]
    IN  /\ Len(s.payload) <= s.cap
        /\ s.cap <= MaxMessageSize[n]
        /\ s.offset <= Len(s.payload)
        /\ s.state = "TX_WAIT_DATA_ACK" =>
             s.lastlen \in 1 .. MaxLen /\ s.offset + s.lastlen <= Len(s.payload)

(***************************************************************************)
(* What keeps UniqueKeys true: the role of a slot fixes its addresses and  *)
(* the low bit of its identifier, and no START on the bus claims the bit   *)
(* of the other side.                                                      *)
(***************************************************************************)
RolesFixKeys ==
  /\ \A n \in Nodes, i \in Slots :
       LET s == sess[n][i]
       IN  /\ s.state = "RX" => /\ s.local \in {n, ALL}
                                /\ s.sid % 2 = InitiatorBit(s.peer, s.local)
           /\ IsTx(s) => /\ s.local = n /\ s.peer # n
                         /\ s.sid % 2 = InitiatorBit(n, s.peer)
  /\ rx \in [Nodes -> Seq(HonestFrame)]

(***************************************************************************)
(* The inductive invariant of the session tables.                          *)
(***************************************************************************)
SessionInvariant == TypeOK /\ UniqueKeys /\ BuffersInBounds /\ RolesFixKeys

(***************************************************************************)
(* A transfer is open exactly while one slot of its sender carries it, and *)
(* no slot carries two: each start_send is followed by one of TX_FINISHED, *)
(* TX_TIMEOUT and TX_ABORTED, never by two of them and never by none while *)
(* its slot is given to somebody else.                                     *)
(***************************************************************************)
OneOutcomePerTransfer ==
  /\ \A n \in Nodes, i \in Slots :
       IsTx(sess[n][i]) => /\ sess[n][i].xfer \in DOMAIN xfers
                           /\ xfers[sess[n][i].xfer].from = n
                           /\ xfers[sess[n][i].xfer].to = sess[n][i].peer
                           /\ xfers[sess[n][i].xfer].out = "OPEN"
  /\ \A k \in DOMAIN xfers : xfers[k].out = "OPEN" =>
       \E i \in Slots :
         /\ IsTx(sess[xfers[k].from][i]) /\ sess[xfers[k].from][i].xfer = k
         /\ \A j \in Slots \ {i} : sess[xfers[k].from][j].xfer # k

(***************************************************************************)
(* Every message that finish_rx hands over is, byte for byte and with its  *)
(* mode, one that the peer started to send to this address: what was left  *)
(* of an older transfer with the same identifier never becomes part of it. *)
(***************************************************************************)
DeliveredIntact ==
  \A g \in DOMAIN got : \E k \in DOMAIN xfers :
    /\ xfers[k].from = got[g].from
    /\ xfers[k].to = got[g].to
    /\ xfers[k].mode = got[g].mode
    /\ xfers[k].data = got[g].data

\* No message is handed to an application twice (payloads are distinct).
DeliveredOnce ==
  \A g, h \in DOMAIN got : got[g] = got[h] => g = h

(***************************************************************************)
(* When an acknowledged transfer is reported as TX_FINISHED, the receiver  *)
(* has already handed the whole message to its application.                *)
(***************************************************************************)
FinishedIsDelivered ==
  \A k \in DOMAIN xfers :
    xfers[k].mode = WITH_ACK /\ xfers[k].out = "TX_FINISHED" =>
      \E g \in DOMAIN got : /\ got[g].at = xfers[k].to
                            /\ got[g].from = xfers[k].from
                            /\ got[g].data = xfers[k].data

\* Frames of session sid that are on their way from one node to another.
InFlight(from, to, sid) ==
  {q \in DOMAIN rx[to] : FrameKey(rx[to][q]) = <<from, to, sid>>}

(***************************************************************************)
(* Stop and wait: an acknowledged transfer never has more than one frame   *)
(* or answer under way, which is all that tells the ACK of one frame from  *)
(* the ACK of another, as frames carry no sequence number.                 *)
(***************************************************************************)
StopAndWait ==
  \A n \in Nodes, i \in Slots :
    LET s == sess[n][i]
    IN  IsTx(s) /\ s.state # "TX_WITHOUT_ACK" /\ s.peer \in Nodes =>
          Cardinality(InFlight(n, s.peer, s.sid)) + Cardinality(InFlight(s.peer, n, s.sid)) <= 1

(***************************************************************************)
(* What makes FinishedIsDelivered, StopAndWait, DeliveredIntact and        *)
(* DeliveredOnce true on a bus that only loses, when all transfers are     *)
(* acknowledged and a frame is handled within the tick it was sent in: at  *)
(* any time the one frame under way tells how far its transfer has come at *)
(* both ends, and neither end can have timed out.                          *)
(***************************************************************************)
PromptAcked ==
  /\ Prompt /\ Mishaps \subseteq {"loss", "alloc"}
  /\ Modes \subseteq {WITH_ACK} /\ ALL \notin Destinations

PayloadsDiffer == \A k, l \in DOMAIN Payloads : Payloads[k] = Payloads[l] => k = l

\* The frame comes from the side that started the transfer.
Forward(f) == CanIdSession(f.id) % 2 = InitiatorBit(CanIdFrom(f.id), CanIdTo(f.id))

\* Initiator, responder and identifier of the transfer that a frame belongs to.
Exchange(f) ==
  IF Forward(f) THEN <<CanIdFrom(f.id), CanIdTo(f.id), CanIdSession(f.id)>>
  ELSE <<CanIdTo(f.id), CanIdFrom(f.id), CanIdSession(f.id)>>

\* In table t of exchange x: the sending session, and what the receiving one holds.
Sends(s, x, time) == IsTx(s) /\ Key(s) = <<x[2], x[1], x[3]>> /\ s.last = time
Holds(t, x, data, time) ==
  \E j \in Slots : /\ t[x[2]][j].state = "RX" /\ Key(t[x[2]][j]) = x
                   /\ t[x[2]][j].mode = WITH_ACK /\ t[x[2]][j].payload = data
                   /\ t[x[2]][j].last = time

Given(g, x, data) ==
  \E k \in DOMAIN g :
    g[k] = [at |-> x[2], from |-> x[1], to |-> x[2], mode |-> WITH_ACK, data |-> data]
NotGiven(g, data) == PayloadsDiffer => \A k \in DOMAIN g : g[k].data # data

ForwardBacked(f, s, t, x, time, g) ==
  /\ NotGiven(g, s.payload)
  /\ \/ CanIdCommand(f.id) = CMD_START /\ s.state = "TX_WAIT_START_ACK"
     \/ /\ CanIdCommand(f.id) = CMD_DATA /\ s.state = "TX_WAIT_DATA_ACK"
        /\ f.data = SubSeq(s.payload, s.offset + 1, s.offset + s.lastlen)
        /\ Holds(t, x, SubSeq(s.payload, 1, s.offset), time)
     \/ /\ CanIdCommand(f.id) = CMD_END /\ s.state = "TX_WAIT_END_ACK"
        /\ Holds(t, x, s.payload, time)

AnswerBacked(f, s, t, x, time, g) ==
  \/ CanIdCommand(f.id) = CMD_ABORT_WA
  \/ CanIdCommand(f.id) = CMD_NACK /\ s.state = "TX_WAIT_END_ACK"
  \/ /\ CanIdCommand(f.id) = CMD_ACK
     /\ \/ /\ s.state = "TX_WAIT_START_ACK" /\ NotGiven(g, s.payload)
           /\ Holds(t, x, <<>>, time)
        \/ /\ s.state = "TX_WAIT_DATA_ACK" /\ NotGiven(g, s.payload)
           /\ Holds(t, x, SubSeq(s.payload, 1, s.offset + s.lastlen), time)
        \/ s.state = "TX_WAIT_END_ACK" /\ Given(g, x, s.payload)

Backed(f, t, time, g) ==
  LET x == Exchange(f)
  IN  \E i \in Slots :
        /\ Sends(t[x[1]][i], x, time)
        /\ IF Forward(f) THEN ForwardBacked(f, t[x[1]][i], t, x, time, g)
           ELSE AnswerBacked(f, t[x[1]][i], t, x, time, g)

\* The frames in the queue of m that are addressed to m.
Heard(m) == {q \in DOMAIN rx[m] : CanIdTo(rx[m][q].id) = m}

FramesBacked ==
  \A m \in Nodes :
    /\ \A q \in DOMAIN rx[m] : /\ CanIdFrom(rx[m][q].id) \in Nodes \ {m}
                               /\ CanIdTo(rx[m][q].id) # ALL
    /\ \A q \in Heard(m) : Backed(rx[m][q], sess, now, got)

OneFrameUnderWay ==
  \A m, l \in Nodes : \A q \in Heard(m), r \in Heard(l) :
    Exchange(rx[m][q]) = Exchange(rx[l][r]) => m = l /\ q = r

SlotsCarry ==
  /\ \A n \in Nodes, i \in Slots :
       LET s == sess[n][i]
       IN  IsTx(s) => /\ s.state # "TX_WITHOUT_ACK" /\ s.mode = WITH_ACK /\ s.peer # ALL
                      /\ s.state = "TX_WAIT_START_ACK" => s.offset = 0
                      /\ s.xfer \in DOMAIN xfers /\ xfers[s.xfer].data = s.payload
  /\ Len(xfers) <= Len(Payloads)
  /\ \A k \in DOMAIN xfers : xfers[k].data = Payloads[k] /\ xfers[k].mode = WITH_ACK

ExchangesInOrder ==
  /\ FramesBacked /\ OneFrameUnderWay /\ SlotsCarry
  /\ FinishedIsDelivered /\ DeliveredIntact /\ (PayloadsDiffer => DeliveredOnce)

(***************************************************************************)
(* The uint32_t difference of process calls a session late exactly when    *)
(* more than session_timeout_ms have really gone by, also when the clock   *)
(* has wrapped between the two readings.                                   *)
(***************************************************************************)
TimeoutMatchesElapsed ==
  \A n \in Nodes, i \in Slots :
    TimedOut(n, sess[n][i]) <=> Timed(sess[n][i]) /\ sess[n][i].age > SessionTimeout[n]

(***************************************************************************)
(* Every transfer is eventually reported to its sender, whatever the bus   *)
(* and the peer do.                                                        *)
(***************************************************************************)
TransfersEnd ==
  \A k \in DOMAIN Payloads :
    (k \in DOMAIN xfers /\ xfers[k].out = "OPEN") ~> (k \in DOMAIN xfers /\ xfers[k].out # "OPEN")

(***************************************************************************)
(* Once the applications have nothing more to send the bus falls silent    *)
(* and every slot is free again: no exchange of ABORT_WA goes on forever   *)
(* and no receiving session outlives its peer.                             *)
(***************************************************************************)
EverythingSettles ==
  <>[](\A n \in Nodes : rx[n] = <<>> /\ \A i \in Slots : ~ Busy(sess[n][i]))
=============================================================================
