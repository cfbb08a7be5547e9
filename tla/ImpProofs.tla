----------------------------- MODULE ImpProofs -----------------------------
(***************************************************************************)
(* Theorems about the session layer, for every number of nodes, sessions,  *)
(* payloads and mishaps: the types, the bounds of the payload buffers, the *)
(* uniqueness of the session keys, the one outcome of every transfer and   *)
(* the arithmetic of timeouts; for acknowledged transfers on a bus that    *)
(* only loses, stop-and-wait with all that it promises; and for transfers  *)
(* of every kind on a bus that is only late, that no bytes are mixed.      *)
(***************************************************************************)
EXTENDS Imp, DataProofs, TLAPS, SequenceTheorems, FiniteSetTheorems

-----------------------------------------------------------------------------
(* Operators the model is built from.                                      *)

\* An identifier is a natural number, whatever is packed into it.
LEMMA CanIdIsNat ==
  ASSUME NEW from \in Nat, NEW to \in Nat, NEW sid \in Nat, NEW cmd \in Nat
  PROVE  CanIdCreate(from, to, sid, cmd) \in Nat
  BY SMT DEF CanIdCreate

\* The fields of an identifier are read back as they were packed.
LEMMA CanIdFields ==
  ASSUME NEW from \in 0 .. DEVICE_ID_MAX, NEW to \in 0 .. DEVICE_ID_MAX,
         NEW sid \in 0 .. SESSION_ID_MAX, NEW cmd \in 0 .. 31
  PROVE  /\ CanIdFrom(CanIdCreate(from, to, sid, cmd)) = from
         /\ CanIdTo(CanIdCreate(from, to, sid, cmd)) = to
         /\ CanIdSession(CanIdCreate(from, to, sid, cmd)) = sid
         /\ CanIdCommand(CanIdCreate(from, to, sid, cmd)) = cmd
<1>1. CanIdCreate(from, to, sid, cmd)
        = to * 16777216 + from * 524288 + sid * 32768 + cmd * 1024
  BY SMT DEF CanIdCreate, DEVICE_ID_MAX, SESSION_ID_MAX
<1>2. CanIdFrom(CanIdCreate(from, to, sid, cmd)) = from
  BY <1>1, SMT DEF CanIdFrom, DEVICE_ID_MAX, SESSION_ID_MAX
<1>3. CanIdTo(CanIdCreate(from, to, sid, cmd)) = to
  BY <1>1, SMT DEF CanIdTo, DEVICE_ID_MAX, SESSION_ID_MAX
<1>4. CanIdSession(CanIdCreate(from, to, sid, cmd)) = sid
  <2> DEFINE high == to * 512 + from * 16
  <2>1. high \in Nat /\ high % 16 = 0
    BY SMT DEF DEVICE_ID_MAX
  <2>2. (high + sid) % 16 = sid
    BY <2>1, SMT DEF SESSION_ID_MAX
  <2>3. CanIdCreate(from, to, sid, cmd) = (high + sid) * 32768 + cmd * 1024
    BY <1>1, SMT DEF DEVICE_ID_MAX, SESSION_ID_MAX
  <2>4. CanIdCreate(from, to, sid, cmd) \div 32768 = high + sid
    BY <2>1, <2>3, SMT DEF SESSION_ID_MAX
  <2>5. QED
    BY <2>2, <2>4, SMT DEF CanIdSession
<1>5. CanIdCommand(CanIdCreate(from, to, sid, cmd)) = cmd
  <2> DEFINE high == to * 16384 + from * 512 + sid * 32
  <2>1. high \in Nat /\ high % 32 = 0
    BY SMT DEF DEVICE_ID_MAX, SESSION_ID_MAX
  <2>2. (high + cmd) % 32 = cmd
    BY <2>1, SMT
  <2>3. CanIdCreate(from, to, sid, cmd) = (high + cmd) * 1024
    BY <1>1, SMT DEF DEVICE_ID_MAX, SESSION_ID_MAX
  <2>4. CanIdCreate(from, to, sid, cmd) \div 1024 = high + cmd
    BY <2>1, <2>3, SMT
  <2>5. QED
    BY <2>2, <2>4, SMT DEF CanIdCommand
<1>6. QED
  BY <1>2, <1>3, <1>4, <1>5

\* Reading a field of any identifier gives a value of the width of the field.
LEMMA CanIdRanges ==
  ASSUME NEW id \in Nat
  PROVE  /\ CanIdFrom(id) \in 0 .. DEVICE_ID_MAX
         /\ CanIdTo(id) \in 0 .. DEVICE_ID_MAX
         /\ CanIdSession(id) \in 0 .. SESSION_ID_MAX
         /\ CanIdCommand(id) \in Nat
<1>1. id \div 524288 \in Nat /\ id \div 16777216 \in Nat /\ id \div 32768 \in Nat
      /\ id \div 1024 \in Nat
  BY SMT
<1>2. \A x \in Nat : x % 32 \in 0 .. 31 /\ x % 16 \in 0 .. 15
  BY SMT
<1>3. QED
  BY <1>1, <1>2, SMT
  DEF CanIdFrom, CanIdTo, CanIdSession, CanIdCommand, DEVICE_ID_MAX, SESSION_ID_MAX

\* A frame is honest if its START is.
LEMMA MakeFrameHonest ==
  ASSUME NEW from \in 0 .. DEVICE_ID_MAX, NEW to \in 0 .. DEVICE_ID_MAX,
         NEW sid \in 0 .. SESSION_ID_MAX, NEW cmd \in Commands, NEW data \in Seq(Nat),
         cmd \in {CMD_START, CMD_START_WA} => sid % 2 = InitiatorBit(from, to)
  PROVE  MakeFrame(from, to, sid, cmd, data) \in HonestFrame
<1> DEFINE id == CanIdCreate(from, to, sid, cmd)
<1>1. cmd \in 0 .. 31
  BY DEF Commands, CMD_START, CMD_ABORT_WA
<1>2. from \in Nat /\ to \in Nat /\ sid \in Nat /\ cmd \in Nat
  BY <1>1 DEF DEVICE_ID_MAX, SESSION_ID_MAX
<1>3. id \in Nat
  BY <1>2, CanIdIsNat
<1>4. CanIdFrom(id) = from /\ CanIdTo(id) = to /\ CanIdSession(id) = sid /\ CanIdCommand(id) = cmd
  <2>1. \A c \in 0 .. 31 : /\ CanIdFrom(CanIdCreate(from, to, sid, c)) = from
                           /\ CanIdTo(CanIdCreate(from, to, sid, c)) = to
                           /\ CanIdSession(CanIdCreate(from, to, sid, c)) = sid
                           /\ CanIdCommand(CanIdCreate(from, to, sid, c)) = c
    BY CanIdFields
  <2>2. QED
    BY <1>1, <2>1
<1> HIDE DEF id
<1>5. [id |-> id, data |-> data] \in HonestFrame
  BY <1>3, <1>4 DEF HonestFrame, Frame
<1>6. QED
  BY <1>5 DEF MakeFrame, id

\* Whatever a session sends is honest, if its START is.
LEMMA ToHonest ==
  ASSUME NEW n \in Nodes, NEW s \in Session, NEW cmd \in Commands, NEW data \in Seq(Nat),
         cmd \in {CMD_START, CMD_START_WA} => s.sid % 2 = InitiatorBit(n, s.peer)
  PROVE  To(n, s, cmd, data) \in Seq(HonestFrame)
<1>1. n \in 0 .. DEVICE_ID_MAX /\ s.peer \in 0 .. DEVICE_ID_MAX /\ s.sid \in 0 .. SESSION_ID_MAX
  BY NodesAssumption DEF Session, DEVICE_ID_MAX
<1>2. MakeFrame(n, s.peer, s.sid, cmd, data) \in HonestFrame
  BY <1>1, MakeFrameHonest
<1>3. QED
  BY <1>2 DEF To

-----------------------------------------------------------------------------
(* The parts of the invariant.                                             *)

\* What the invariant says of one slot s of node n: its buffer, the chunk that
\* waits for its ACK, and its role.
BufferOK(n, s) ==
  /\ Len(s.payload) <= s.cap
  /\ s.cap <= MaxMessageSize[n]
  /\ s.offset <= Len(s.payload)

ChunkOK(s) ==
  s.state = "TX_WAIT_DATA_ACK" =>
    s.lastlen \in 1 .. MaxLen /\ s.offset + s.lastlen <= Len(s.payload)

RoleOK(n, s) ==
  /\ s.state = "RX" => /\ s.local \in {n, ALL}
                       /\ s.sid % 2 = InitiatorBit(s.peer, s.local)
  /\ IsTx(s) => /\ s.local = n /\ s.peer # n
                /\ s.sid % 2 = InitiatorBit(n, s.peer)

SlotOK(n, s) == s \in Session /\ BufferOK(n, s) /\ ChunkOK(s) /\ RoleOK(n, s)

TableOK ==
  /\ sess \in [Nodes -> [Slots -> Session]]
  /\ \A n \in Nodes, i \in Slots : SlotOK(n, sess[n][i])
  /\ UniqueKeys

BusOK == rx \in [Nodes -> Seq(HonestFrame)]

HistoryOK ==
  /\ now \in 0 .. ClockMod - 1
  /\ xfers \in Seq(Transfer)
  /\ got \in Seq(Message)
  /\ mishaps \in 0 .. MaxMishaps

\* The invariant, sorted by the variables it speaks of.
LEMMA InvariantParts == SessionInvariant <=> TableOK /\ BusOK /\ HistoryOK
<1>1. BusOK => rx \in [Nodes -> Seq(Frame)]
  <2>1. HonestFrame \subseteq Frame
    BY DEF HonestFrame
  <2>2. Seq(HonestFrame) \subseteq Seq(Frame)
    BY <2>1, SeqMonotonic
  <2>3. QED
    BY <2>2 DEF BusOK
<1>2. QED
  BY <1>1 DEF SessionInvariant, TypeOK, BuffersInBounds, RolesFixKeys, TableOK, SlotOK,
              BufferOK, ChunkOK, RoleOK, BusOK, HistoryOK

\* The same of the next state.
LEMMA InvariantPartsNext == TableOK' /\ BusOK' /\ HistoryOK' => SessionInvariant'
<1>1. BusOK' => rx' \in [Nodes -> Seq(Frame)]
  <2>1. HonestFrame \subseteq Frame
    BY DEF HonestFrame
  <2>2. Seq(HonestFrame) \subseteq Seq(Frame)
    BY <2>1, SeqMonotonic
  <2>3. QED
    BY <2>2 DEF BusOK
<1>2. QED
  BY <1>1 DEF SessionInvariant, TypeOK, BuffersInBounds, RolesFixKeys, TableOK, SlotOK,
              BufferOK, ChunkOK, RoleOK, BusOK, HistoryOK

\* No other open slot of n has the key of s.
KeyIsFree(n, i, s) ==
  \A j \in Slots \ {i} : Busy(sess[n][j]) => Key(sess[n][j]) # Key(s)

\* Writing a slot keeps the table in order, if the slot is in order and its
\* key belongs to nobody else.
LEMMA SlotStep ==
  ASSUME TableOK, NEW n \in Nodes, NEW i \in Slots, NEW t, SlotOK(n, t),
         Busy(t) => KeyIsFree(n, i, t), SetSlot(n, i, t)
  PROVE  TableOK'
<1>1. t \in Session
  BY DEF SlotOK, BufferOK, ChunkOK, RoleOK
<1>2. sess' \in [Nodes -> [Slots -> Session]]
  BY <1>1 DEF TableOK, SetSlot
<1>3. \A m \in Nodes, j \in Slots :
        sess'[m][j] = IF m = n /\ j = i THEN t ELSE sess[m][j]
  BY DEF TableOK, SetSlot
<1>4. \A m \in Nodes, j \in Slots : SlotOK(m, sess'[m][j])
  BY <1>3 DEF TableOK
<1>5. UniqueKeys'
  <2> SUFFICES ASSUME NEW m \in Nodes, NEW j \in Slots, NEW k \in Slots, j # k,
                      Busy(sess'[m][j]), Busy(sess'[m][k])
               PROVE  Key(sess'[m][j]) # Key(sess'[m][k])
    BY DEF UniqueKeys
  <2>1. CASE m = n /\ j = i
    BY <1>3, <2>1 DEF KeyIsFree
  <2>2. CASE m = n /\ k = i
    BY <1>3, <2>2 DEF KeyIsFree
  <2>3. CASE m # n \/ (j # i /\ k # i)
    BY <1>3, <2>3 DEF TableOK, UniqueKeys
  <2>4. QED
    BY <2>1, <2>2, <2>3
<1>6. \A m \in Nodes, j \in Slots : SlotOK(m, sess[m][j])'
  BY <1>4 DEF SlotOK, BufferOK, ChunkOK, RoleOK
<1>7. QED
  BY <1>2, <1>5, <1>6 DEF TableOK

\* What memset leaves of a slot is a slot.
LEMMA FreeSessionType == FreeSession \in Session
BY DEF FreeSession, Session, SessionStates, WITH_ACK, WITHOUT_ACK, DEVICE_ID_MAX, SESSION_ID_MAX

\* An empty slot is in order.
LEMMA FreeSlotOK ==
  ASSUME NEW n \in Nodes
  PROVE  SlotOK(n, FreeSession) /\ ~ Busy(FreeSession)
<1>1. FreeSession \in Session
  BY FreeSessionType
<1>2. MaxMessageSize[n] >= 0 /\ Len(<<>>) = 0
  BY SizesAssumption
<1>3. QED
  BY <1>1, <1>2 DEF FreeSession, SlotOK, BufferOK, ChunkOK, RoleOK, Busy, IsTx

\* Releasing a slot keeps the table in order.
LEMMA ReleaseStep ==
  ASSUME TableOK, NEW n \in Nodes, NEW i \in Slots, Release(n, i)
  PROVE  TableOK'
BY SlotStep, FreeSlotOK DEF Release

-----------------------------------------------------------------------------
(* Steps of the bus and of the history.                                    *)

\* Sending honest frames keeps the bus honest.
LEMMA EmitStep ==
  ASSUME BusOK, NEW n \in Nodes, NEW out \in Seq(HonestFrame), Emit(n, out)
  PROVE  BusOK'
<1>1. \A m \in Nodes : rx[m] \o out \in Seq(HonestFrame)
  BY ConcatProperties DEF BusOK
<1>2. QED
  BY <1>1 DEF BusOK, Emit

\* So does handling the first frame of a queue and answering it.
LEMMA AnswerStep ==
  ASSUME BusOK, NEW n \in Nodes, rx[n] # <<>>, NEW out \in Seq(HonestFrame), Answer(n, out)
  PROVE  BusOK'
<1>1. \A m \in Nodes : rx[m] \o out \in Seq(HonestFrame)
  BY ConcatProperties DEF BusOK
<1>2. Tail(rx[n]) \in Seq(HonestFrame)
  BY HeadTailProperties DEF BusOK
<1>3. QED
  BY <1>1, <1>2 DEF BusOK, Answer

\* Answering nothing is a special case.
LEMMA NoFrames == <<>> \in Seq(HonestFrame)
  BY EmptySeq

\* Reporting an outcome keeps the history well formed.
LEMMA EndTransferStep ==
  ASSUME xfers \in Seq(Transfer), NEW s \in Session, NEW outcome \in Outcomes,
         EndTransfer(s, outcome)
  PROVE  xfers' \in Seq(Transfer)
<1> DEFINE k == s.xfer
<1>1. xfers' = [xfers EXCEPT ![k] = [xfers[k] EXCEPT !.out = outcome]]
  BY DEF EndTransfer
<1>2. DOMAIN xfers = 1 .. Len(xfers) /\ xfers \in [1 .. Len(xfers) -> Transfer]
  BY LenProperties
<1>3. CASE k \in 1 .. Len(xfers)
  <2>1. xfers[k] \in Transfer
    BY <1>2, <1>3
  <2>2. [xfers[k] EXCEPT !.out = outcome] \in Transfer
    BY <2>1 DEF Transfer
  <2>3. QED
    BY <1>1, <1>3, <2>2, ExceptSeq
<1>4. CASE k \notin 1 .. Len(xfers)
  <2>1. xfers' = xfers
    BY <1>1, <1>2, <1>4
  <2>2. QED
    BY <2>1
<1>5. QED
  BY <1>3, <1>4

\* A chunk lies inside the payload, is not empty and fits a frame.
LEMMA NextChunkProperties ==
  ASSUME NEW s \in Session, s.offset < Len(s.payload)
  PROVE  /\ NextChunk(s) \in Seq(Nat)
         /\ Len(NextChunk(s)) \in 1 .. MaxLen
         /\ s.offset + Len(NextChunk(s)) <= Len(s.payload)
         /\ NextChunk(s) = SubSeq(s.payload, s.offset + 1, s.offset + Len(NextChunk(s)))
<1> DEFINE left == Len(s.payload) - s.offset
           len == IF left > MaxLen THEN MaxLen ELSE left
<1>1. s.payload \in Seq(Nat) /\ s.offset \in Nat /\ Len(s.payload) \in Nat
  BY LenProperties DEF Session
<1>2. len \in Nat /\ len \in 1 .. MaxLen /\ len >= 1 /\ s.offset + len <= Len(s.payload)
  BY <1>1, SizesAssumption
<1>3. NextChunk(s) = SubSeq(s.payload, s.offset + 1, s.offset + len)
  BY DEF NextChunk
<1> HIDE DEF len
<1> DEFINE first == s.offset + 1
           last == s.offset + len
<1>4. /\ first \in Int /\ last \in Int /\ first <= last /\ last - first + 1 = len
      /\ \A k \in first .. last : k \in 1 .. Len(s.payload)
  <2>1. first \in Int /\ last \in Int /\ first <= last /\ last - first + 1 = len
    BY <1>1, <1>2
  <2>2. 1 <= first /\ last <= Len(s.payload)
    BY <1>1, <1>2
  <2> HIDE DEF first, last
  <2>3. QED
    BY <1>1, <2>1, <2>2
<1> HIDE DEF first, last
<1>5. \A k \in first .. last : s.payload[k] \in Nat
  BY <1>1, <1>4, ElementOfSeq
<1>6. /\ SubSeq(s.payload, first, last) \in Seq(Nat)
      /\ Len(SubSeq(s.payload, first, last)) = len
  BY <1>4, <1>5, SubSeqProperties
<1>7. QED
  BY <1>2, <1>3, <1>6 DEF first, last

\* The same of the chunk that is sent again.
LEMMA ResentChunk ==
  ASSUME NEW n \in Nodes, NEW s, SlotOK(n, s), s.state = "TX_WAIT_DATA_ACK"
  PROVE  SubSeq(s.payload, s.offset + 1, s.offset + s.lastlen) \in Seq(Nat)
<1>1. /\ s.payload \in Seq(Nat) /\ s.offset \in Nat /\ s.lastlen \in Nat
      /\ Len(s.payload) \in Nat /\ s.offset + s.lastlen <= Len(s.payload)
  BY LenProperties DEF SlotOK, BufferOK, ChunkOK, RoleOK, Session
<1>2. \A k \in s.offset + 1 .. s.offset + s.lastlen : s.payload[k] \in Nat
  BY <1>1, ElementOfSeq
<1>3. s.offset + 1 \in Int /\ s.offset + s.lastlen \in Int
  BY <1>1
<1>4. QED
  BY <1>2, <1>3, SubSeqProperties

-----------------------------------------------------------------------------
(* start_send.                                                             *)

\* A new transfer gets a slot that is in order, under a key of its own.
LEMMA StartSendStep ==
  ASSUME TableOK, BusOK, HistoryOK,
         NEW n \in Nodes, NEW peer \in Destinations, NEW mode \in Modes,
         StartSend(n, peer, mode)
  PROVE  TableOK' /\ BusOK' /\ HistoryOK'
<1> DEFINE data == Payloads[Len(xfers) + 1]
           unique == FirstOf(UnreservedIds(n, peer))
           kind == IF peer = ALL THEN WITHOUT_ACK ELSE mode
           s == [FreeSession EXCEPT
                   !.state = IF kind = WITH_ACK THEN "TX_WAIT_START_ACK" ELSE "TX_WITHOUT_ACK",
                   !.mode = kind, !.peer = peer, !.local = n,
                   !.sid = SessionId(n, peer, unique),
                   !.payload = data, !.cap = Len(data), !.last = now, !.xfer = Len(xfers) + 1]
           i == FirstOf(FreeFor(n, peer))
           cmd == IF kind = WITH_ACK THEN CMD_START ELSE CMD_START_WA
<1>1. /\ Len(xfers) < Len(Payloads) /\ peer # n /\ Len(data) <= MaxMessageSize[n]
      /\ FreeFor(n, peer) # {} /\ UnreservedIds(n, peer) # {}
      /\ SetSlot(n, i, s) /\ Emit(n, To(n, s, cmd, <<>>))
      /\ xfers' = Append(xfers, [from |-> n, to |-> peer, mode |-> kind,
                                 data |-> data, out |-> "OPEN"])
      /\ now' = now /\ got' = got /\ mishaps' = mishaps
  BY DEF StartSend
<1>2. peer \in 0 .. DEVICE_ID_MAX /\ kind \in {WITH_ACK, WITHOUT_ACK}
  BY TrafficAssumption
<1>3. n \in 0 .. DEVICE_ID_MAX
  BY NodesAssumption DEF DEVICE_ID_MAX
<1>4. data \in Seq(Nat) /\ Len(data) \in Nat
  <2>1. Len(xfers) \in Nat
    BY LenProperties DEF HistoryOK
  <2>2. Len(xfers) + 1 \in 1 .. Len(Payloads)
    BY <1>1, <2>1, TrafficAssumption, LenProperties
  <2>3. data \in Seq(Nat)
    BY <2>2, TrafficAssumption, ElementOfSeq
  <2>4. QED
    BY <2>3, LenProperties
<1>5. unique \in UnreservedIds(n, peer) /\ unique \in 0 .. 7
  <2>1. UnreservedIds(n, peer) \in SUBSET Nat
    BY SizesAssumption DEF UnreservedIds
  <2>2. unique \in UnreservedIds(n, peer)
    BY <1>1, <2>1, FirstOfMember
  <2>3. QED
    BY <2>2, SizesAssumption DEF UnreservedIds
<1>6. /\ SessionId(n, peer, unique) \in 0 .. SESSION_ID_MAX
      /\ SessionId(n, peer, unique) \div 2 = unique
      /\ SessionId(n, peer, unique) % 2 = InitiatorBit(n, peer)
  <2> HIDE DEF unique
  <2>1. InitiatorBit(n, peer) \in {0, 1}
    BY DEF InitiatorBit
  <2>2. QED
    BY <1>5, <2>1 DEF SessionId, SESSION_ID_MAX
<1>7. i \in FreeFor(n, peer) /\ i \in Slots /\ ~ Busy(sess[n][i])
  <2>1. FreeFor(n, peer) \in SUBSET Nat
    BY SizesAssumption DEF FreeFor, Slots
  <2>2. i \in FreeFor(n, peer)
    BY <1>1, <2>1, FirstOfMember
  <2>3. QED
    BY <2>2 DEF FreeFor
<1> HIDE DEF data, unique, kind, i
<1>8. /\ s.state \in {"TX_WAIT_START_ACK", "TX_WITHOUT_ACK"}
      /\ s.mode = kind /\ s.peer = peer /\ s.local = n /\ s.sid = SessionId(n, peer, unique)
      /\ s.payload = data /\ s.cap = Len(data) /\ s.offset = 0
  BY DEF FreeSession
<1>9. s \in Session
  <2>1. Len(xfers) + 1 \in Nat /\ now \in Nat
    BY LenProperties, SizesAssumption DEF HistoryOK
  <2>2. QED
    BY <1>2, <1>3, <1>4, <1>6, <2>1
    DEF FreeSession, Session, SessionStates, WITH_ACK, WITHOUT_ACK
<1>10. SlotOK(n, s)
  <2> HIDE DEF s
  <2>1. s.state # "RX" /\ s.state # "TX_WAIT_DATA_ACK"
    BY <1>8
  <2>2. QED
    BY <1>1, <1>4, <1>6, <1>8, <1>9, <2>1 DEF SlotOK, BufferOK, ChunkOK, RoleOK
<1>11. KeyIsFree(n, i, s)
  <2> HIDE DEF s
  <2> SUFFICES ASSUME NEW j \in Slots \ {i}, Busy(sess[n][j]), Key(sess[n][j]) = Key(s)
               PROVE  FALSE
    BY DEF KeyIsFree
  <2>1. /\ sess[n][j].peer = peer /\ sess[n][j].local = n
        /\ sess[n][j].sid = SessionId(n, peer, unique)
    BY <1>8 DEF Key
  <2>2. CASE IsTx(sess[n][j])
    <3>1. unique \in ReservedIds(n, peer)
      BY <1>6, <2>1, <2>2 DEF ReservedIds
    <3>2. QED
      BY <1>5, <3>1 DEF UnreservedIds
  <2>3. CASE sess[n][j].state = "RX"
    <3>1. sess[n][j].sid % 2 = InitiatorBit(peer, n)
      BY <2>1, <2>3 DEF TableOK, SlotOK, BufferOK, ChunkOK, RoleOK
    <3>2. InitiatorBit(peer, n) = InitiatorBit(n, peer)
      BY <1>6, <2>1, <3>1
    <3>3. peer \in Int /\ n \in Int
      BY <1>2, <1>3 DEF DEVICE_ID_MAX
    <3>4. QED
      BY <1>1, <3>2, <3>3 DEF InitiatorBit
  <2>4. QED
    BY <2>2, <2>3 DEF Busy, IsTx
<1>12. To(n, s, cmd, <<>>) \in Seq(HonestFrame)
  <2> HIDE DEF s
  <2>1. cmd \in Commands /\ <<>> \in Seq(Nat)
    BY DEF Commands, CMD_START, CMD_START_WA, CMD_ABORT_WA
  <2>2. s.sid % 2 = InitiatorBit(n, s.peer)
    BY <1>6, <1>8
  <2> HIDE DEF cmd
  <2>3. QED
    BY <1>9, <2>1, <2>2, ToHonest
<1>13. TableOK'
  <2> HIDE DEF s
  <2>1. QED
    BY <1>1, <1>7, <1>10, <1>11, SlotStep
<1>14. BusOK'
  BY <1>1, <1>12, EmitStep
<1>15. HistoryOK'
  <2>1. [from |-> n, to |-> peer, mode |-> kind, data |-> data, out |-> "OPEN"] \in Transfer
    BY <1>2, <1>4 DEF Transfer, Outcomes
  <2>2. xfers' \in Seq(Transfer)
    BY <1>1, <2>1, AppendProperties DEF HistoryOK
  <2>3. QED
    BY <1>1, <2>2 DEF HistoryOK
<1>16. QED
  BY <1>13, <1>14, <1>15

-----------------------------------------------------------------------------
(* add_frame.                                                              *)

\* The next acknowledged frame leaves the slot in order, whether it is a
\* chunk or END.
LEMMA EmitNextStep ==
  ASSUME TableOK, BusOK, HistoryOK, NEW n \in Nodes, NEW i \in Slots, rx[n] # <<>>,
         NEW s \in Session, BufferOK(n, s), RoleOK(n, s), IsTx(s), KeyIsFree(n, i, s),
         EmitNext(n, i, s)
  PROVE  TableOK' /\ BusOK'
<1>1. s \in Session /\ now \in Nat /\ Len(s.payload) \in Nat /\ s.offset \in Nat
  BY SizesAssumption, LenProperties DEF SlotOK, BufferOK, ChunkOK, RoleOK, HistoryOK, Session
<1>2. CASE s.offset < Len(s.payload)
  <2> DEFINE chunk == NextChunk(s)
             t == [s EXCEPT !.state = "TX_WAIT_DATA_ACK", !.last = now, !.age = 0,
                            !.lastlen = Len(chunk)]
  <2>1. SetSlot(n, i, t) /\ Answer(n, To(n, s, CMD_DATA, chunk))
    BY <1>2 DEF EmitNext
  <2>2. /\ chunk \in Seq(Nat) /\ Len(chunk) \in 1 .. MaxLen
        /\ s.offset + Len(chunk) <= Len(s.payload)
    BY <1>1, <1>2, NextChunkProperties
  <2> HIDE DEF chunk
  <2>3. t \in Session
    <3>1. Len(chunk) \in Nat
      BY <2>2, LenProperties
    <3>2. QED
      BY <1>1, <3>1 DEF Session, SessionStates
  <2>4. SlotOK(n, t) /\ KeyIsFree(n, i, t)
    BY <1>1, <2>2, <2>3 DEF SlotOK, BufferOK, ChunkOK, RoleOK, IsTx, KeyIsFree, Key, Session
  <2>5. TableOK'
    <3> HIDE DEF t
    <3>1. QED
      BY <2>1, <2>4, SlotStep
  <2>6. To(n, s, CMD_DATA, chunk) \in Seq(HonestFrame)
    <3>1. CMD_DATA \in Commands /\ CMD_DATA \notin {CMD_START, CMD_START_WA}
      BY DEF Commands, CMD_DATA, CMD_START, CMD_START_WA, CMD_ABORT_WA
    <3>2. QED
      BY <1>1, <2>2, <3>1, ToHonest
  <2>7. QED
    BY <2>1, <2>5, <2>6, AnswerStep
<1>3. CASE ~ (s.offset < Len(s.payload))
  <2> DEFINE t == [s EXCEPT !.state = "TX_WAIT_END_ACK", !.last = now, !.age = 0]
  <2>1. SetSlot(n, i, t) /\ Answer(n, To(n, s, CMD_END, <<>>))
    BY <1>3 DEF EmitNext
  <2>2. t \in Session
    BY <1>1 DEF Session, SessionStates
  <2>3. SlotOK(n, t) /\ KeyIsFree(n, i, t)
    BY <1>1, <2>2 DEF SlotOK, BufferOK, ChunkOK, RoleOK, IsTx, KeyIsFree, Key, Session
  <2>4. TableOK'
    <3> HIDE DEF t
    <3>1. QED
      BY <2>1, <2>3, SlotStep
  <2>5. To(n, s, CMD_END, <<>>) \in Seq(HonestFrame)
    <3>1. CMD_END \in Commands /\ CMD_END \notin {CMD_START, CMD_START_WA}
      BY DEF Commands, CMD_END, CMD_START, CMD_START_WA, CMD_ABORT_WA
    <3>2. <<>> \in Seq(Nat)
      OBVIOUS
    <3>3. QED
      BY <1>1, <3>1, <3>2, ToHonest
  <2>6. QED
    BY <2>1, <2>4, <2>5, AnswerStep
<1>4. QED
  BY <1>2, <1>3

\* Sending a frame again changes nothing but the time of the last activity.
LEMMA ResendStep ==
  ASSUME TableOK, BusOK, HistoryOK, NEW n \in Nodes, NEW i \in Slots, rx[n] # <<>>,
         NEW s, SlotOK(n, s), KeyIsFree(n, i, s),
         s.state \in {"TX_WAIT_START_ACK", "TX_WAIT_DATA_ACK"}, Resend(n, i, s)
  PROVE  TableOK' /\ BusOK'
<1> DEFINE t == [s EXCEPT !.last = now, !.age = 0]
           chunk == SubSeq(s.payload, s.offset + 1, s.offset + s.lastlen)
           out == IF s.state = "TX_WAIT_START_ACK" THEN To(n, s, CMD_START, <<>>)
                  ELSE To(n, s, CMD_DATA, chunk)
<1>1. SetSlot(n, i, t) /\ Answer(n, out)
  BY DEF Resend
<1>2. s \in Session /\ now \in Nat
  BY SizesAssumption DEF SlotOK, BufferOK, ChunkOK, RoleOK, HistoryOK
<1>3. t \in Session
  BY <1>2 DEF Session
<1>4. SlotOK(n, t) /\ KeyIsFree(n, i, t)
  BY <1>2, <1>3 DEF SlotOK, BufferOK, ChunkOK, RoleOK, IsTx, KeyIsFree, Key, Session
<1>5. TableOK'
  <2> HIDE DEF t
  <2>1. QED
    BY <1>1, <1>4, SlotStep
<1>6. out \in Seq(HonestFrame)
  <2>1. CMD_START \in Commands /\ CMD_DATA \in Commands /\ CMD_DATA \notin {CMD_START, CMD_START_WA}
    BY DEF Commands, CMD_DATA, CMD_START, CMD_START_WA, CMD_ABORT_WA
  <2>2. s.sid % 2 = InitiatorBit(n, s.peer) /\ <<>> \in Seq(Nat)
    BY DEF SlotOK, BufferOK, ChunkOK, RoleOK, IsTx
  <2>3. To(n, s, CMD_START, <<>>) \in Seq(HonestFrame)
    BY <1>2, <2>1, <2>2, ToHonest
  <2>4. CASE s.state = "TX_WAIT_DATA_ACK"
    <3>1. chunk \in Seq(Nat)
      BY <2>4, ResentChunk
    <3> HIDE DEF chunk
    <3>2. To(n, s, CMD_DATA, chunk) \in Seq(HonestFrame)
      BY <1>2, <2>1, <3>1, ToHonest
    <3>3. QED
      BY <2>3, <3>2
  <2>5. QED
    BY <2>3, <2>4
<1>7. QED
  BY <1>1, <1>5, <1>6, AnswerStep

\* handle_tx_frame keeps the parts of the invariant.
LEMMA HandleTxFrameStep ==
  ASSUME TableOK, BusOK, HistoryOK, NEW n \in Nodes, NEW i \in Slots, rx[n] # <<>>,
         NEW s, SlotOK(n, s), IsTx(s), KeyIsFree(n, i, s), NEW cmd \in Commands,
         HandleTxFrame(n, i, s, cmd)
  PROVE  TableOK' /\ BusOK' /\ HistoryOK'
<1> USE NoFrames
<1>1. s \in Session /\ xfers \in Seq(Transfer) /\ now' = now /\ got' = got /\ mishaps' = mishaps
  BY DEF SlotOK, BufferOK, ChunkOK, RoleOK, HistoryOK, HandleTxFrame
<1>2. \A o \in Outcomes : EndTransfer(s, o) => xfers' \in Seq(Transfer)
  BY <1>1, EndTransferStep
<1>3. "TX_ABORTED" \in Outcomes /\ "TX_FINISHED" \in Outcomes
  BY DEF Outcomes
<1>4. CASE TxAbort(n, i, s, cmd)
  <2>1. TableOK'
    BY <1>4, ReleaseStep DEF TxAbort
  <2>2. BusOK'
    BY <1>4, AnswerStep DEF TxAbort
  <2>3. xfers' \in Seq(Transfer)
    BY <1>2, <1>3, <1>4 DEF TxAbort
  <2>4. QED
    BY <1>1, <2>1, <2>2, <2>3 DEF HistoryOK
<1>5. CASE TxNack(n, i, s, cmd)
  <2>1. CASE /\ s.state \in {"TX_WAIT_START_ACK", "TX_WAIT_DATA_ACK"}
             /\ Resend(n, i, s) /\ UNCHANGED xfers
    BY <1>1, <2>1, ResendStep DEF HistoryOK
  <2>2. CASE Release(n, i) /\ Answer(n, <<>>) /\ EndTransfer(s, "TX_ABORTED")
    <3>1. TableOK'
      BY <2>2, ReleaseStep
    <3>2. BusOK'
      BY <2>2, AnswerStep
    <3>3. QED
      BY <1>1, <1>2, <1>3, <2>2, <3>1, <3>2 DEF HistoryOK
  <2>3. QED
    BY <1>5, <2>1, <2>2 DEF TxNack
<1>6. CASE TxUnexpected(n, i, s, cmd)
  <2>1. TableOK'
    BY <1>6, ReleaseStep DEF TxUnexpected
  <2>2. CMD_ABORT_WA \in Commands /\ CMD_ABORT_WA \notin {CMD_START, CMD_START_WA}
    BY DEF Commands, CMD_START, CMD_START_WA, CMD_ABORT_WA
  <2>3. To(n, s, CMD_ABORT_WA, <<>>) \in Seq(HonestFrame)
    <3>1. <<>> \in Seq(Nat)
      OBVIOUS
    <3>2. QED
      BY <1>1, <2>2, <3>1, ToHonest
  <2>4. BusOK'
    BY <1>6, <2>3, AnswerStep DEF TxUnexpected
  <2>5. QED
    BY <1>1, <1>2, <1>3, <1>6, <2>1, <2>4 DEF HistoryOK, TxUnexpected
<1>7. CASE TxAck(n, i, s, cmd)
  <2>1. CASE EmitNext(n, i, s) /\ UNCHANGED xfers
    <3>1. BufferOK(n, s) /\ RoleOK(n, s)
      BY DEF SlotOK
    <3>2. TableOK' /\ BusOK'
      BY <1>1, <2>1, <3>1, EmitNextStep
    <3>3. QED
      BY <1>1, <2>1, <3>2 DEF HistoryOK
  <2>2. CASE /\ s.state = "TX_WAIT_DATA_ACK"
             /\ EmitNext(n, i, [s EXCEPT !.offset = @ + s.lastlen])
             /\ UNCHANGED xfers
    <3> DEFINE t == [s EXCEPT !.offset = @ + s.lastlen]
    <3>1. t.state = s.state /\ t.peer = s.peer /\ t.local = s.local /\ t.sid = s.sid
          /\ t.payload = s.payload /\ t.cap = s.cap /\ t.offset = s.offset + s.lastlen
          /\ t.lastlen = s.lastlen
      BY <1>1 DEF Session
    <3>2. t \in Session
      <4>1. s.offset + s.lastlen \in Nat
        BY <1>1 DEF Session
      <4>2. QED
        BY <1>1, <4>1 DEF Session
    <3> HIDE DEF t
    <3>3. IsTx(t) /\ KeyIsFree(n, i, t)
      BY <3>1 DEF IsTx, KeyIsFree, Key
    <3>4. BufferOK(n, t) /\ RoleOK(n, t)
      BY <2>2, <3>1 DEF SlotOK, BufferOK, ChunkOK, RoleOK, IsTx
    <3>5. EmitNext(n, i, t)
      BY <2>2 DEF t
    <3>6. TableOK' /\ BusOK'
      BY <3>2, <3>3, <3>4, <3>5, EmitNextStep
    <3>7. QED
      BY <1>1, <2>2, <3>6 DEF HistoryOK
  <2>3. CASE Release(n, i) /\ Answer(n, <<>>) /\ EndTransfer(s, "TX_FINISHED")
    <3>1. TableOK'
      BY <2>3, ReleaseStep
    <3>2. BusOK'
      BY <2>3, AnswerStep
    <3>3. QED
      BY <1>1, <1>2, <1>3, <2>3, <3>1, <3>2 DEF HistoryOK
  <2>4. CASE Answer(n, <<>>) /\ UNCHANGED <<sess, xfers>>
    <3>1. BusOK'
      BY <2>4, AnswerStep
    <3>2. TableOK'
      BY <2>4 DEF TableOK, SlotOK, BufferOK, ChunkOK, RoleOK, UniqueKeys
    <3>3. QED
      BY <1>1, <2>4, <3>1, <3>2 DEF HistoryOK
  <2>5. QED
    BY <1>7, <2>1, <2>2, <2>3, <2>4 DEF TxAck
<1>8. QED
  BY <1>4, <1>5, <1>6, <1>7 DEF HandleTxFrame

\* The buffer grows to what is required, never past the message limit.
LEMMA GrownCapacityBounds ==
  ASSUME NEW cap \in Nat, NEW required \in Nat, NEW limit \in Nat,
         cap <= limit, required <= limit
  PROVE  /\ GrownCapacity(cap, required, limit) \in Nat
         /\ required <= GrownCapacity(cap, required, limit)
         /\ GrownCapacity(cap, required, limit) <= limit
BY SizesAssumption DEF GrownCapacity

\* Storing a chunk that fits the limit keeps the bytes inside the buffer.
LEMMA AppendedProperties ==
  ASSUME NEW n \in Nodes, NEW s \in Session, NEW data \in Seq(Nat),
         Len(s.payload) <= s.cap, s.cap <= MaxMessageSize[n],
         Len(s.payload) + Len(data) <= MaxMessageSize[n]
  PROVE  /\ Appended(n, s, data) \in Session
         /\ Len(Appended(n, s, data).payload) = Len(s.payload) + Len(data)
         /\ Len(Appended(n, s, data).payload) <= Appended(n, s, data).cap
         /\ Appended(n, s, data).cap <= MaxMessageSize[n]
<1> DEFINE t == Appended(n, s, data)
           grown == GrownCapacity(s.cap, Len(s.payload) + Len(data), MaxMessageSize[n])
<1>1. /\ s.payload \in Seq(Nat) /\ s.cap \in Nat /\ MaxMessageSize[n] \in Nat
      /\ Len(s.payload) \in Nat /\ Len(data) \in Nat
  BY SizesAssumption, LenProperties DEF Session
<1>2. s.payload \o data \in Seq(Nat) /\ Len(s.payload \o data) = Len(s.payload) + Len(data)
  BY <1>1, ConcatProperties
<1>3. Len(s.payload) + Len(data) \in Nat
  BY <1>1
<1>4. /\ grown \in Nat /\ Len(s.payload) + Len(data) <= grown /\ grown <= MaxMessageSize[n]
  BY <1>1, <1>3, GrownCapacityBounds
<1>5. t = [s EXCEPT !.payload = s.payload \o data, !.cap = IF data = <<>> THEN s.cap ELSE grown]
  BY DEF Appended
<1> HIDE DEF grown, t
<1>6. t.payload = s.payload \o data /\ t.cap = IF data = <<>> THEN s.cap ELSE grown
  BY <1>5 DEF Session
<1>7. t \in Session
  BY <1>1, <1>2, <1>4, <1>5 DEF Session
<1>8. Len(t.payload) <= t.cap /\ t.cap <= MaxMessageSize[n]
  BY <1>1, <1>2, <1>4, <1>6
<1>9. QED
  BY <1>2, <1>6, <1>7, <1>8 DEF t

\* handle_rx_frame keeps the parts of the invariant, for an open session and
\* for one that the frame opens.
LEMMA HandleRxFrameStep ==
  ASSUME TableOK, BusOK, HistoryOK, NEW n \in Nodes, NEW i \in Slots, rx[n] # <<>>,
         NEW s, SlotOK(n, s), s.state = "RX", KeyIsFree(n, i, s),
         NEW cmd \in Commands, NEW data \in Seq(Nat), HandleRxFrame(n, i, s, cmd, data)
  PROVE  TableOK' /\ BusOK' /\ HistoryOK'
<1> USE NoFrames
<1>1. /\ s \in Session /\ now \in Nat /\ now' = now /\ xfers' = xfers
      /\ MaxMessageSize[n] \in Nat /\ s.local \in {n, ALL}
      /\ s.sid % 2 = InitiatorBit(s.peer, s.local)
  BY SizesAssumption DEF SlotOK, RoleOK, HistoryOK, HandleRxFrame
<1>2. \A c \in {CMD_ACK, CMD_NACK, CMD_ABORT_WA} : To(n, s, c, <<>>) \in Seq(HonestFrame)
  <2>1. /\ {CMD_ACK, CMD_NACK, CMD_ABORT_WA} \subseteq Commands
        /\ {CMD_ACK, CMD_NACK, CMD_ABORT_WA} \cap {CMD_START, CMD_START_WA} = {}
    BY DEF Commands, CMD_START, CMD_START_WA, CMD_ABORT_WA, CMD_ACK, CMD_NACK
  <2>2. <<>> \in Seq(Nat)
    OBVIOUS
  <2>3. QED
    BY <1>1, <2>1, <2>2, ToHonest
<1>3. mishaps' = mishaps \/ Mishap("alloc") => mishaps' \in 0 .. MaxMishaps
  BY MishapsAssumption DEF Mishap, HistoryOK
<1>4. CASE RxAbort(n, i, s, cmd)
  <2>1. TableOK'
    BY <1>4, ReleaseStep DEF RxAbort
  <2>2. BusOK'
    BY <1>4, AnswerStep DEF RxAbort
  <2>3. QED
    BY <1>1, <1>4, <2>1, <2>2 DEF HistoryOK, RxAbort
<1>5. CASE RxStart(n, i, s, cmd)
  <2> DEFINE t == [s EXCEPT !.payload = <<>>, !.cap = 0, !.offset = 0,
                            !.mode = IF cmd = CMD_START THEN WITH_ACK ELSE WITHOUT_ACK,
                            !.last = now, !.age = 0]
  <2>1. SetSlot(n, i, t)
    BY <1>5 DEF RxStart
  <2>2. t \in Session
    <3> DEFINE kind == IF cmd = CMD_START THEN WITH_ACK ELSE WITHOUT_ACK
    <3>1. kind \in {WITH_ACK, WITHOUT_ACK} /\ <<>> \in Seq(Nat)
      OBVIOUS
    <3>2. t = [s EXCEPT !.payload = <<>>, !.cap = 0, !.offset = 0, !.mode = kind,
                        !.last = now, !.age = 0]
      OBVIOUS
    <3> HIDE DEF kind, t
    <3>3. QED
      BY <1>1, <3>1, <3>2 DEF Session
  <2>3. SlotOK(n, t) /\ KeyIsFree(n, i, t)
    <3>1. /\ t.state = "RX" /\ t.peer = s.peer /\ t.local = s.local /\ t.sid = s.sid
          /\ t.payload = <<>> /\ t.cap = 0 /\ t.offset = 0
      BY <1>1 DEF Session
    <3> HIDE DEF t
    <3>2. QED
      BY <1>1, <2>2, <3>1
      DEF SlotOK, BufferOK, ChunkOK, RoleOK, IsTx, KeyIsFree, Key
  <2>4. TableOK'
    <3> HIDE DEF t
    <3>1. QED
      BY <2>1, <2>3, SlotStep
  <2>5. BusOK'
    BY <1>2, <1>5, AnswerStep DEF RxStart
  <2>6. QED
    BY <1>1, <1>5, <2>4, <2>5 DEF HistoryOK, RxStart
<1>6. CASE RxData(n, i, s, cmd, data)
  <2> DEFINE a == Appended(n, s, data)
             t == [a EXCEPT !.last = now, !.age = 0]
  <2>1. Len(s.payload) + Len(data) <= MaxMessageSize[n] /\ SetSlot(n, i, t)
    BY <1>6 DEF RxData
  <2>2. /\ a \in Session /\ Len(a.payload) = Len(s.payload) + Len(data)
        /\ Len(a.payload) <= a.cap /\ a.cap <= MaxMessageSize[n]
    BY <1>1, <2>1, AppendedProperties DEF SlotOK, BufferOK
  <2>3. /\ a.state = "RX" /\ a.peer = s.peer /\ a.local = s.local /\ a.sid = s.sid
        /\ a.offset = s.offset
    BY <1>1 DEF Appended, Session
  <2> HIDE DEF a
  <2>4. t \in Session
    <3>1. a \in Session /\ now \in Nat
      BY <1>1, <2>2
    <3>2. QED
      BY <3>1 DEF Session
  <2>5. /\ t.state = "RX" /\ t.peer = s.peer /\ t.local = s.local /\ t.sid = s.sid
        /\ t.payload = a.payload /\ t.cap = a.cap /\ t.offset = s.offset
    BY <2>2, <2>3 DEF Session
  <2> HIDE DEF t
  <2>6. s.offset <= Len(t.payload)
    <3>1. Len(s.payload) \in Nat /\ Len(data) \in Nat /\ s.offset \in Nat
      BY <1>1, LenProperties DEF Session
    <3>2. s.offset <= Len(s.payload)
      BY DEF SlotOK, BufferOK
    <3>3. QED
      BY <2>2, <2>5, <3>1, <3>2
  <2>7. SlotOK(n, t) /\ KeyIsFree(n, i, t)
    BY <1>1, <2>2, <2>4, <2>5, <2>6
    DEF SlotOK, BufferOK, ChunkOK, RoleOK, IsTx, KeyIsFree, Key
  <2>8. TableOK'
    BY <2>1, <2>7, SlotStep
  <2>9. BusOK'
    BY <1>2, <1>6, AnswerStep DEF RxData
  <2>10. QED
    BY <1>1, <1>6, <2>8, <2>9 DEF HistoryOK, RxData
<1>7. CASE RxDataFails(n, i, s, cmd, data)
  <2>1. TableOK'
    BY <1>7, ReleaseStep DEF RxDataFails
  <2>2. BusOK'
    BY <1>2, <1>7, AnswerStep DEF RxDataFails
  <2>3. mishaps' = mishaps \/ Mishap("alloc")
    BY <1>7 DEF RxDataFails
  <2>4. QED
    BY <1>1, <1>3, <1>7, <2>1, <2>2, <2>3 DEF HistoryOK, RxDataFails
<1>8. CASE RxEnd(n, i, s, cmd)
  <2> DEFINE acked(answer) == IF cmd = CMD_END THEN To(n, s, answer, <<>>) ELSE <<>>
             m == [at |-> n, from |-> s.peer, to |-> s.local,
                   mode |-> IF s.local = ALL THEN WITHOUT_ACK ELSE s.mode,
                   data |-> s.payload]
  <2>1. /\ Release(n, i)
        /\ \E c \in {CMD_ACK, CMD_NACK, CMD_ABORT_WA} : Answer(n, acked(c))
        /\ got' = got \/ got' = Append(got, m)
        /\ mishaps' = mishaps \/ Mishap("alloc")
    BY <1>8 DEF RxEnd
  <2>2. TableOK'
    BY <2>1, ReleaseStep
  <2>3. BusOK'
    BY <1>2, <2>1, AnswerStep
  <2>4. m \in Message
    BY <1>1 DEF Message, Session
  <2> HIDE DEF m
  <2>5. got' \in Seq(Message)
    <3>1. got \in Seq(Message)
      BY DEF HistoryOK
    <3>2. Append(got, m) \in Seq(Message)
      BY <2>4, <3>1, AppendProperties
    <3>3. QED
      BY <2>1, <3>1, <3>2
  <2>6. QED
    BY <1>1, <1>3, <2>1, <2>2, <2>3, <2>5 DEF HistoryOK
<1>9. CASE RxUnexpected(n, i, s, cmd)
  <2>1. TableOK'
    BY <1>9, ReleaseStep DEF RxUnexpected
  <2>2. BusOK'
    BY <1>2, <1>9, AnswerStep DEF RxUnexpected
  <2>3. QED
    BY <1>1, <1>9, <2>1, <2>2 DEF HistoryOK, RxUnexpected
<1>10. QED
  BY <1>4, <1>5, <1>6, <1>7, <1>8, <1>9 DEF HandleRxFrame

\* The first slot of a nonempty set of slots is a slot of that set.
LEMMA FirstSlot ==
  ASSUME NEW S \in SUBSET Slots, S # {}
  PROVE  FirstOf(S) \in S /\ FirstOf(S) \in Slots
<1>1. S \in SUBSET Nat
  BY DEF Slots
<1>2. QED
  BY <1>1, FirstOfMember

\* What a START opens is a slot.
LEMMA OpenedType ==
  ASSUME NEW f, f.id \in Nat, now \in Nat
  PROVE  OpenedSession(f) \in Session
<1> DEFINE kind == IF CanIdCommand(f.id) = CMD_START THEN WITH_ACK ELSE WITHOUT_ACK
           from == CanIdFrom(f.id)
           to == CanIdTo(f.id)
           sid == CanIdSession(f.id)
<1>1. kind \in {WITH_ACK, WITHOUT_ACK}
  OBVIOUS
<1>2. from \in 0 .. DEVICE_ID_MAX /\ to \in 0 .. DEVICE_ID_MAX /\ sid \in 0 .. SESSION_ID_MAX
  BY CanIdRanges
<1>3. FreeSession \in Session
  BY FreeSessionType
<1>4. OpenedSession(f) = [FreeSession EXCEPT !.state = "RX", !.mode = kind, !.peer = from,
                                             !.local = to, !.sid = sid, !.last = now]
  BY DEF OpenedSession
<1> HIDE DEF kind, from, to, sid
<1>5. QED
  BY <1>1, <1>2, <1>3, <1>4 DEF Session, SessionStates

\* add_frame, whatever the first frame of the queue is.
LEMMA AddFrameStep ==
  ASSUME TableOK, BusOK, HistoryOK, NEW n \in Nodes, AddFrame(n)
  PROVE  TableOK' /\ BusOK' /\ HistoryOK'
<1> DEFINE f == Head(rx[n])
           from == CanIdFrom(f.id)
           to == CanIdTo(f.id)
           sid == CanIdSession(f.id)
           cmd == CanIdCommand(f.id)
<1>1. rx[n] # <<>>
  BY DEF AddFrame, AddForeign, AddToSession, AddOpening, AddUnknown
<1>2. f \in HonestFrame
  BY <1>1, HeadTailProperties DEF BusOK
<1>3. f.id \in Nat /\ f.data \in Seq(Nat)
  BY <1>2 DEF HonestFrame, Frame
<1>4. /\ from \in 0 .. DEVICE_ID_MAX /\ to \in 0 .. DEVICE_ID_MAX
      /\ sid \in 0 .. SESSION_ID_MAX /\ cmd \in Nat
  BY <1>3, CanIdRanges
<1>5. cmd \in {CMD_START, CMD_START_WA} => sid % 2 = InitiatorBit(from, to)
  BY <1>2 DEF HonestFrame
<1> HIDE DEF f
<1>6. Accepted(n, f) => cmd \in Commands /\ to \in {n, ALL}
  BY <1>4 DEF Accepted, Commands, CMD_START, CMD_ABORT_WA
<1>7. UNCHANGED <<sess, now, xfers, got, mishaps>> => TableOK' /\ HistoryOK'
  BY DEF TableOK, UniqueKeys, HistoryOK, SlotOK, BufferOK, ChunkOK, RoleOK
<1>8. CASE AddForeign(n)
  <2>1. BusOK'
    BY <1>1, <1>8, AnswerStep, NoFrames DEF AddForeign
  <2>2. QED
    BY <1>7, <1>8, <2>1 DEF AddForeign
<1>9. CASE AddToSession(n)
  <2> DEFINE M == Matching(n, FrameKey(f))
             i == FirstOf(M)
             s == sess[n][i]
  <2>1. /\ Accepted(n, f) /\ M # {}
        /\ \/ IsTx(s) /\ HandleTxFrame(n, i, s, cmd)
           \/ ~ IsTx(s) /\ HandleRxFrame(n, i, s, cmd, f.data)
    BY <1>9 DEF AddToSession, f
  <2>2. i \in Slots /\ Busy(s)
    <3>1. M \in SUBSET Slots
      BY DEF Matching
    <3>2. i \in M
      BY <2>1, <3>1, FirstSlot
    <3>3. QED
      BY <3>2 DEF Matching
  <2> HIDE DEF i
  <2>3. SlotOK(n, s) /\ KeyIsFree(n, i, s)
    BY <2>2 DEF TableOK, UniqueKeys, KeyIsFree
  <2>4. CASE IsTx(s) /\ HandleTxFrame(n, i, s, cmd)
    <3> HIDE DEF s, cmd
    <3>1. QED
      BY <1>1, <1>6, <2>1, <2>2, <2>3, <2>4, HandleTxFrameStep
  <2>5. CASE ~ IsTx(s) /\ HandleRxFrame(n, i, s, cmd, f.data)
    <3>1. s.state = "RX"
      BY <2>2, <2>5 DEF IsTx, Busy
    <3> HIDE DEF s, cmd
    <3>2. QED
      BY <1>1, <1>3, <1>6, <2>1, <2>2, <2>3, <2>5, <3>1, HandleRxFrameStep
  <2>6. QED
    BY <2>1, <2>4, <2>5
<1>10. CASE AddOpening(n)
  <2> DEFINE i == FirstOf(FreeFor(n, from))
             s == OpenedSession(f)
  <2>1. /\ Accepted(n, f) /\ Matching(n, FrameKey(f)) = {}
        /\ cmd \in {CMD_START, CMD_START_WA} /\ FreeFor(n, from) # {}
        /\ HandleRxFrame(n, i, s, cmd, f.data)
    BY <1>10 DEF AddOpening, f
  <2>2. i \in Slots
    <3>1. FreeFor(n, from) \in SUBSET Slots
      BY DEF FreeFor
    <3>2. QED
      BY <2>1, <3>1, FirstSlot
  <2>3. /\ s.state = "RX" /\ s.peer = from /\ s.local = to /\ s.sid = sid
        /\ s.payload = <<>> /\ s.cap = 0 /\ s.offset = 0
    BY DEF OpenedSession, FreeSession
  <2>4. s \in Session
    <3>1. now \in Nat
      BY SizesAssumption DEF HistoryOK
    <3>2. QED
      BY <1>3, <3>1, OpenedType
  <2> HIDE DEF s
  <2>5. SlotOK(n, s)
    <3>1. Len(<<>>) = 0 /\ MaxMessageSize[n] >= 0
      BY SizesAssumption
    <3>2. QED
      BY <1>5, <1>6, <2>1, <2>3, <2>4, <3>1 DEF SlotOK, BufferOK, ChunkOK, RoleOK, IsTx
  <2>6. KeyIsFree(n, i, s)
    BY <2>1, <2>3 DEF KeyIsFree, Matching, FrameKey, Key
  <2> HIDE DEF i, cmd
  <2>7. QED
    BY <1>1, <1>3, <1>6, <2>1, <2>2, <2>3, <2>5, <2>6, HandleRxFrameStep
<1>11. CASE AddUnknown(n)
  <2>1. /\ Accepted(n, f) /\ Answer(n, AbortReply(n, f))
        /\ UNCHANGED <<sess, now, xfers, got, mishaps>>
    BY <1>11 DEF AddUnknown, f
  <2>2. MakeFrame(n, from, sid, CMD_ABORT_WA, <<>>) \in HonestFrame
    <3>1. n \in 0 .. DEVICE_ID_MAX /\ <<>> \in Seq(Nat)
      BY NodesAssumption DEF DEVICE_ID_MAX
    <3>2. CMD_ABORT_WA \in Commands /\ CMD_ABORT_WA \notin {CMD_START, CMD_START_WA}
      BY DEF Commands, CMD_START, CMD_START_WA, CMD_ABORT_WA
    <3>3. QED
      BY <1>4, <3>1, <3>2, MakeFrameHonest
  <2>3. AbortReply(n, f) \in Seq(HonestFrame)
    BY <2>2, NoFrames DEF AbortReply
  <2>4. BusOK'
    BY <1>1, <2>1, <2>3, AnswerStep
  <2>5. QED
    BY <1>7, <2>1, <2>4
<1>12. QED
  BY <1>8, <1>9, <1>10, <1>11 DEF AddFrame

-----------------------------------------------------------------------------
(* process and the environment.                                            *)

\* A timeout releases a slot; an unacknowledged transfer sends a chunk or END.
LEMMA ProcessStep ==
  ASSUME TableOK, BusOK, HistoryOK, NEW n \in Nodes, Process(n)
  PROVE  TableOK' /\ BusOK' /\ HistoryOK'
<1>1. xfers \in Seq(Transfer) /\ now' = now /\ got' = got /\ mishaps' = mishaps
  BY DEF HistoryOK, Process, ProcessTimeout, ProcessUnacked
<1>2. "TX_TIMEOUT" \in Outcomes /\ "TX_FINISHED" \in Outcomes
  BY DEF Outcomes
<1>3. CASE ProcessTimeout(n)
  <2> DEFINE i == FirstOf(Late(n))
             s == sess[n][i]
  <2>1. /\ Late(n) # {} /\ Release(n, i) /\ UNCHANGED rx
        /\ IF s.state = "RX" THEN UNCHANGED xfers ELSE EndTransfer(s, "TX_TIMEOUT")
    BY <1>3 DEF ProcessTimeout
  <2>2. i \in Slots
    <3>1. Late(n) \in SUBSET Slots
      BY DEF Late
    <3>2. QED
      BY <2>1, <3>1, FirstSlot
  <2> HIDE DEF i
  <2>3. s \in Session
    BY <2>2 DEF TableOK
  <2>4. TableOK'
    BY <2>1, <2>2, ReleaseStep
  <2> HIDE DEF s
  <2>5. EndTransfer(s, "TX_TIMEOUT") => xfers' \in Seq(Transfer)
    BY <1>1, <1>2, <2>3, EndTransferStep
  <2>6. QED
    BY <1>1, <2>1, <2>4, <2>5 DEF BusOK, HistoryOK
<1>4. CASE ProcessUnacked(n)
  <2> DEFINE i == FirstOf(Unacked(n))
             s == sess[n][i]
             chunk == NextChunk(s)
             t == [s EXCEPT !.offset = @ + Len(chunk)]
  <2>1. /\ Unacked(n) # {}
        /\ \/ /\ s.offset < Len(s.payload) /\ SetSlot(n, i, t)
              /\ Emit(n, To(n, s, CMD_DATA_WA, chunk)) /\ UNCHANGED xfers
           \/ /\ Release(n, i) /\ Emit(n, To(n, s, CMD_END_WA, <<>>))
              /\ EndTransfer(s, "TX_FINISHED")
    BY <1>4 DEF ProcessUnacked
  <2>2. i \in Slots /\ s.state = "TX_WITHOUT_ACK"
    <3>1. Unacked(n) \in SUBSET Slots
      BY DEF Unacked
    <3>2. i \in Unacked(n)
      BY <2>1, <3>1, FirstSlot
    <3>3. QED
      BY <3>2 DEF Unacked
  <2> HIDE DEF i
  <2>3. s \in Session /\ SlotOK(n, s) /\ KeyIsFree(n, i, s)
    BY <2>2 DEF TableOK, UniqueKeys, KeyIsFree, Busy
  <2> HIDE DEF s
  <2>4. \A c \in {CMD_DATA_WA, CMD_END_WA} : \A d \in Seq(Nat) :
          To(n, s, c, d) \in Seq(HonestFrame)
    <3>1. /\ {CMD_DATA_WA, CMD_END_WA} \subseteq Commands
          /\ {CMD_DATA_WA, CMD_END_WA} \cap {CMD_START, CMD_START_WA} = {}
      BY DEF Commands, CMD_START, CMD_START_WA, CMD_ABORT_WA, CMD_DATA_WA, CMD_END_WA
    <3>2. QED
      BY <2>3, <3>1, ToHonest
  <2>5. CASE /\ s.offset < Len(s.payload) /\ SetSlot(n, i, t)
             /\ Emit(n, To(n, s, CMD_DATA_WA, chunk)) /\ UNCHANGED xfers
    <3>1. /\ chunk \in Seq(Nat) /\ Len(chunk) \in 1 .. MaxLen
          /\ s.offset + Len(chunk) <= Len(s.payload)
      BY <2>3, <2>5, NextChunkProperties
    <3> HIDE DEF chunk
    <3>2. s.offset + Len(chunk) \in Nat
      BY <2>3, <3>1, LenProperties, SMTT(30) DEF Session
    <3>3. t \in Session
      BY <2>3, <3>2 DEF Session
    <3>4. /\ t.state = s.state /\ t.peer = s.peer /\ t.local = s.local /\ t.sid = s.sid
          /\ t.payload = s.payload /\ t.cap = s.cap /\ t.offset = s.offset + Len(chunk)
      BY <2>3 DEF Session
    <3> HIDE DEF t
    <3>5. SlotOK(n, t) /\ KeyIsFree(n, i, t)
      BY <2>2, <2>3, <3>1, <3>3, <3>4
      DEF SlotOK, BufferOK, ChunkOK, RoleOK, IsTx, KeyIsFree, Key
    <3>6. TableOK'
      BY <2>2, <2>5, <3>5, SlotStep
    <3>7. BusOK'
      BY <2>4, <2>5, <3>1, EmitStep
    <3>8. QED
      BY <1>1, <2>5, <3>6, <3>7 DEF HistoryOK
  <2>6. CASE /\ Release(n, i) /\ Emit(n, To(n, s, CMD_END_WA, <<>>))
             /\ EndTransfer(s, "TX_FINISHED")
    <3>1. TableOK'
      BY <2>2, <2>6, ReleaseStep
    <3>2. <<>> \in Seq(Nat)
      OBVIOUS
    <3>3. BusOK'
      BY <2>4, <2>6, <3>2, EmitStep
    <3>4. xfers' \in Seq(Transfer)
      BY <1>1, <1>2, <2>3, <2>6, EndTransferStep
    <3>5. QED
      BY <1>1, <3>1, <3>3, <3>4 DEF HistoryOK
  <2>7. QED
    BY <2>1, <2>5, <2>6
<1>5. QED
  BY <1>3, <1>4 DEF Process

\* A tick only makes timed sessions older.
LEMMA TickStep ==
  ASSUME TableOK, BusOK, HistoryOK, Tick
  PROVE  TableOK' /\ BusOK' /\ HistoryOK'
<1> DEFINE Older(s) == IF Timed(s) THEN [s EXCEPT !.age = @ + 1] ELSE s
<1>1. \A m \in Nodes, j \in Slots : sess'[m][j] = Older(sess[m][j])
  BY DEF Tick
<1>2. \A m \in Nodes, s \in Session : SlotOK(m, s) =>
        /\ Older(s) \in Session /\ SlotOK(m, Older(s))
        /\ Busy(Older(s)) = Busy(s) /\ Key(Older(s)) = Key(s)
  <2> TAKE m \in Nodes, s \in Session
  <2> HAVE SlotOK(m, s)
  <2> DEFINE t == Older(s)
  <2>1. /\ t.state = s.state /\ t.peer = s.peer /\ t.local = s.local /\ t.sid = s.sid
        /\ t.payload = s.payload /\ t.cap = s.cap /\ t.offset = s.offset
        /\ t.lastlen = s.lastlen
    BY DEF Session
  <2>2. t \in Session
    <3>1. s.age + 1 \in Nat
      BY DEF Session
    <3>2. [s EXCEPT !.age = s.age + 1] \in Session
      BY <3>1 DEF Session
    <3>3. QED
      BY <3>2
  <2> HIDE DEF t
  <2>3. SlotOK(m, t) /\ Busy(t) = Busy(s) /\ Key(t) = Key(s)
    BY <2>1, <2>2 DEF SlotOK, BufferOK, ChunkOK, RoleOK, IsTx, Busy, Key
  <2>4. QED
    BY <2>2, <2>3 DEF t
<1> HIDE DEF Older
<1>3. \A m \in Nodes, j \in Slots : sess[m][j] \in Session /\ SlotOK(m, sess[m][j])
  BY DEF TableOK
<1>4. sess' \in [Nodes -> [Slots -> Session]]
  <2>1. sess' = [m \in Nodes |-> [j \in Slots |-> Older(sess[m][j])]]
    BY DEF Tick, Older
  <2>2. QED
    BY <1>2, <1>3, <2>1
<1>5. \A m \in Nodes, j \in Slots : SlotOK(m, sess'[m][j])
  BY <1>1, <1>2, <1>3
<1>6. UniqueKeys'
  <2> SUFFICES ASSUME NEW m \in Nodes, NEW j \in Slots, NEW k \in Slots, j # k,
                      Busy(sess'[m][j]), Busy(sess'[m][k])
               PROVE  Key(sess'[m][j]) # Key(sess'[m][k])
    BY DEF UniqueKeys
  <2>1. QED
    BY <1>1, <1>2, <1>3 DEF TableOK, UniqueKeys
<1>7. (\A m \in Nodes, j \in Slots : SlotOK(m, sess[m][j]))'
  BY <1>5 DEF SlotOK, BufferOK, ChunkOK, RoleOK
<1>8. now' \in 0 .. ClockMod - 1
  BY SizesAssumption DEF Tick, HistoryOK
<1>9. QED
  BY <1>4, <1>6, <1>7, <1>8 DEF TableOK, BusOK, HistoryOK, Tick

\* Lost, repeated and foreign frames leave honest frames on the bus.
LEMMA BusMishapStep ==
  ASSUME TableOK, BusOK, HistoryOK, NEW n \in Nodes,
         Lose(n) \/ Duplicate(n) \/ Intrude(n)
  PROVE  TableOK' /\ BusOK' /\ HistoryOK'
<1>1. UNCHANGED <<sess, now, xfers, got>> /\ mishaps' \in 0 .. MaxMishaps
  BY MishapsAssumption DEF Lose, Duplicate, Intrude, Mishap, HistoryOK
<1>2. TableOK' /\ HistoryOK'
  BY <1>1 DEF TableOK, UniqueKeys, HistoryOK, SlotOK, BufferOK, ChunkOK, RoleOK
<1>3. rx[n] \in Seq(HonestFrame)
  BY DEF BusOK
<1>4. CASE Lose(n)
  <2>1. Tail(rx[n]) \in Seq(HonestFrame)
    BY <1>3, <1>4, HeadTailProperties DEF Lose
  <2>2. QED
    BY <1>2, <1>4, <2>1 DEF Lose, BusOK
<1>5. CASE Duplicate(n)
  <2>1. <<Head(rx[n])>> \in Seq(HonestFrame)
    <3>1. Head(rx[n]) \in HonestFrame
      BY <1>3, <1>5, HeadTailProperties DEF Duplicate
    <3>2. QED
      BY <3>1
  <2>2. <<Head(rx[n])>> \o rx[n] \in Seq(HonestFrame)
    BY <1>3, <2>1, ConcatProperties
  <2>3. QED
    BY <1>2, <1>5, <2>2 DEF Duplicate, BusOK
<1>6. CASE Intrude(n)
  <2>1. PICK f \in Noise : rx' = [rx EXCEPT ![n] = Append(@, f)]
    BY <1>6 DEF Intrude
  <2>2. f \in HonestFrame
    BY NoiseAssumption
  <2>3. Append(rx[n], f) \in Seq(HonestFrame)
    BY <1>3, <2>2, AppendProperties
  <2>4. QED
    BY <1>2, <2>1, <2>3 DEF BusOK
<1>7. QED
  BY <1>4, <1>5, <1>6

\* A restarted node has an empty table.
LEMMA RestartStep ==
  ASSUME TableOK, BusOK, HistoryOK, NEW n \in Nodes, Restart(n)
  PROVE  TableOK' /\ BusOK' /\ HistoryOK'
<1>1. /\ sess' = [sess EXCEPT ![n] = [i \in Slots |-> FreeSession]]
      /\ UNCHANGED <<rx, now, got>> /\ mishaps' \in 0 .. MaxMishaps
  BY MishapsAssumption DEF Restart, Mishap, HistoryOK
<1>2. \A m \in Nodes, j \in Slots :
        sess'[m][j] = IF m = n THEN FreeSession ELSE sess[m][j]
  BY <1>1 DEF TableOK
<1>3. FreeSession \in Session
  BY FreeSlotOK DEF SlotOK
<1>4. sess' \in [Nodes -> [Slots -> Session]]
  BY <1>1, <1>3 DEF TableOK
<1>5. \A m \in Nodes, j \in Slots : SlotOK(m, sess'[m][j])
  BY <1>2, FreeSlotOK DEF TableOK
<1>6. (\A m \in Nodes, j \in Slots : SlotOK(m, sess[m][j]))'
  BY <1>5 DEF SlotOK, BufferOK, ChunkOK, RoleOK
<1>7. UniqueKeys'
  BY <1>2, FreeSlotOK DEF TableOK, UniqueKeys
<1>8. xfers' \in Seq(Transfer)
  <2> DEFINE e(k) == IF xfers[k].from = n /\ xfers[k].out = "OPEN"
                     THEN [xfers[k] EXCEPT !.out = "RESTARTED"] ELSE xfers[k]
  <2>1. xfers \in [1 .. Len(xfers) -> Transfer] /\ Len(xfers) \in Nat
        /\ DOMAIN xfers = 1 .. Len(xfers)
    BY LenProperties DEF HistoryOK
  <2>2. \A k \in 1 .. Len(xfers) : e(k) \in Transfer
    <3> TAKE k \in 1 .. Len(xfers)
    <3>1. xfers[k] \in Transfer
      BY <2>1
    <3>2. QED
      BY <3>1 DEF Transfer, Outcomes
  <2>3. xfers' = [k \in 1 .. Len(xfers) |-> e(k)]
    BY <2>1 DEF Restart
  <2> HIDE DEF e
  <2>4. xfers' \in [1 .. Len(xfers) -> Transfer]
    BY <2>2, <2>3
  <2>5. QED
    BY <2>1, <2>4, SeqDef
<1>9. QED
  BY <1>1, <1>4, <1>6, <1>7, <1>8 DEF TableOK, BusOK, HistoryOK

-----------------------------------------------------------------------------
(* The theorems.                                                           *)

\* The empty tables and the silent bus satisfy the invariant.
LEMMA InitInvariant == Init => SessionInvariant
<1> SUFFICES ASSUME Init PROVE SessionInvariant
  OBVIOUS
<1>1. FreeSession \in Session
  BY FreeSessionType
<1>2. \A n \in Nodes, i \in Slots : sess[n][i] = FreeSession
  BY DEF Init
<1>3. TableOK
  <2>1. sess \in [Nodes -> [Slots -> Session]]
    BY <1>1 DEF Init
  <2>2. \A n \in Nodes, i \in Slots : SlotOK(n, sess[n][i])
    BY <1>2, FreeSlotOK
  <2>3. UniqueKeys
    BY <1>2, FreeSlotOK DEF UniqueKeys
  <2>4. QED
    BY <2>1, <2>2, <2>3 DEF TableOK
<1>4. BusOK
  BY NoFrames DEF Init, BusOK
<1>5. HistoryOK
  BY SizesAssumption, MishapsAssumption DEF Init, HistoryOK
<1>6. QED
  BY <1>3, <1>4, <1>5, InvariantParts

\* Every step of every call and of the environment keeps the invariant.
LEMMA NextInvariant == SessionInvariant /\ [Next]_vars => SessionInvariant'
<1> SUFFICES ASSUME SessionInvariant, [Next]_vars PROVE SessionInvariant'
  OBVIOUS
<1>1. TableOK /\ BusOK /\ HistoryOK
  BY InvariantParts
<1>2. ASSUME NEW n \in Nodes, NEW peer \in Destinations, NEW mode \in Modes,
             StartSend(n, peer, mode)
      PROVE  TableOK' /\ BusOK' /\ HistoryOK'
  BY <1>1, <1>2, StartSendStep
<1>3. ASSUME NEW n \in Nodes, AddFrame(n)
      PROVE  TableOK' /\ BusOK' /\ HistoryOK'
  BY <1>1, <1>3, AddFrameStep
<1>4. ASSUME NEW n \in Nodes, Process(n)
      PROVE  TableOK' /\ BusOK' /\ HistoryOK'
  BY <1>1, <1>4, ProcessStep
<1>5. ASSUME NEW n \in Nodes, Lose(n) \/ Duplicate(n) \/ Intrude(n)
      PROVE  TableOK' /\ BusOK' /\ HistoryOK'
  BY <1>1, <1>5, BusMishapStep
<1>6. ASSUME NEW n \in Nodes, Restart(n)
      PROVE  TableOK' /\ BusOK' /\ HistoryOK'
  BY <1>1, <1>6, RestartStep
<1>7. ASSUME Tick
      PROVE  TableOK' /\ BusOK' /\ HistoryOK'
  BY <1>1, <1>7, TickStep
<1>8. ASSUME UNCHANGED vars
      PROVE  TableOK' /\ BusOK' /\ HistoryOK'
  BY <1>1, <1>8 DEF vars, TableOK, UniqueKeys, BusOK, HistoryOK, SlotOK, BufferOK, ChunkOK,
                    RoleOK
<1>9. TableOK' /\ BusOK' /\ HistoryOK'
  BY <1>2, <1>3, <1>4, <1>5, <1>6, <1>7, <1>8 DEF Next
<1>10. QED
  BY <1>9, InvariantPartsNext

(***************************************************************************)
(* The session tables are in order in every reachable state, for every     *)
(* number of nodes, slots, transfers and mishaps.                          *)
(***************************************************************************)
THEOREM SessionTablesInOrder == Spec => []SessionInvariant
BY InitInvariant, NextInvariant, PTL DEF Spec

\* Every variable keeps its type.
THEOREM TypeCorrect == Spec => []TypeOK
<1>1. SessionInvariant => TypeOK
  BY DEF SessionInvariant
<1>2. QED
  BY <1>1, SessionTablesInOrder, PTL

\* find_session is never ambiguous: no two open sessions of a node share
\* peer, local address and identifier.
THEOREM KeysAreUnique == Spec => []UniqueKeys
<1>1. SessionInvariant => UniqueKeys
  BY DEF SessionInvariant
<1>2. QED
  BY <1>1, SessionTablesInOrder, PTL

\* No payload buffer is written or read past its end, and none grows past
\* max_message_size.
THEOREM PayloadsStayInBounds == Spec => []BuffersInBounds
<1>1. SessionInvariant => BuffersInBounds
  BY DEF SessionInvariant
<1>2. QED
  BY <1>1, SessionTablesInOrder, PTL

-----------------------------------------------------------------------------
(* Time.                                                                   *)

\* The difference of the clock readings is what has gone by.
AgeOK(s) ==
  Timed(s) => /\ s.age \in 0 .. MaxIdle
              /\ s.last \in 0 .. ClockMod - 1
              /\ (now - s.last) % ClockMod = s.age
AgesOK == \A n \in Nodes, i \in Slots : AgeOK(sess[n][i])

\* A slot that a call writes is not timed, or the call is its last activity.
Fresh(t) == Timed(t) => t.last = now /\ t.age = 0
Written(n, i) == \E t : SetSlot(n, i, t) /\ Fresh(t)

\* One more tick, also where the clock wraps around.
LEMMA TickAges ==
  ASSUME NEW last \in 0 .. ClockMod - 1, NEW age \in Nat, age + 1 < ClockMod,
         now \in 0 .. ClockMod - 1, (now - last) % ClockMod = age
  PROVE  (((now + 1) % ClockMod) - last) % ClockMod = age + 1
<1>1. ClockMod \in Nat \ {0} /\ now \in Int /\ last \in Int
  BY SizesAssumption
<1>2. age = IF now - last >= 0 THEN now - last ELSE now - last + ClockMod
  BY <1>1, WrapDown
<1> DEFINE next == (now + 1) % ClockMod
<1>3. next = IF now + 1 < ClockMod THEN now + 1 ELSE now + 1 - ClockMod
  <2> DEFINE k == now + 1
  <2>1. k \in 0 .. 2 * ClockMod - 1
    BY <1>1
  <2> HIDE DEF k
  <2>2. k % ClockMod = IF k < ClockMod THEN k ELSE k - ClockMod
    BY <1>1, <2>1, WrapUp
  <2> QED
    BY <1>1, <2>2 DEF k
<1> HIDE DEF next
<1>4. /\ next - last \in Int /\ -(2 * ClockMod) <= next - last /\ next - last < ClockMod
      /\ next - last >= -ClockMod
  BY <1>1, <1>3
<1>5. (next - last) % ClockMod = IF next - last >= 0 THEN next - last ELSE next - last + ClockMod
  BY <1>1, <1>4, WrapDown
<1> QED
  BY <1>1, <1>2, <1>3, <1>5 DEF next

\* Writing a fresh slot keeps the ages.
LEMMA WrittenKeepsAges ==
  ASSUME TableOK, HistoryOK, AgesOK, NEW n \in Nodes, NEW i \in Slots, Written(n, i), now' = now
  PROVE  AgesOK'
<1>1. PICK t : SetSlot(n, i, t) /\ Fresh(t)
  BY DEF Written
<1>2. \A m \in Nodes, j \in Slots :
        sess'[m][j] = IF m = n /\ j = i THEN t ELSE sess[m][j]
  BY <1>1 DEF TableOK, SetSlot
<1>3. now \in 0 .. ClockMod - 1 /\ ClockMod \in Nat \ {0} /\ MaxIdle \in Nat
  BY SizesAssumption, TrafficAssumption DEF HistoryOK
<1>4. (now - now) % ClockMod = 0
  BY <1>3, WrapDown
<1>5. AgeOK(t)
  BY <1>1, <1>3, <1>4 DEF AgeOK, Fresh
<1>6. \A m \in Nodes, j \in Slots : AgeOK(sess'[m][j])
  BY <1>2, <1>5 DEF AgesOK
<1> QED
  BY <1>6 DEF AgesOK, AgeOK

\* A released slot is fresh.
LEMMA ReleaseWrites ==
  ASSUME NEW n, NEW i, Release(n, i)
  PROVE  Written(n, i)
  BY DEF Release, Written, Fresh, Timed, FreeSession

\* handle_tx_frame sends a frame as the last activity, releases the slot, or leaves it.
LEMMA TxWrites ==
  ASSUME NEW n, NEW i, NEW s \in Session, NEW cmd, HandleTxFrame(n, i, s, cmd)
  PROVE  UNCHANGED sess \/ Written(n, i)
<1>1. \A t \in Session : EmitNext(n, i, t) => Written(n, i)
  <2> SUFFICES ASSUME NEW t \in Session, EmitNext(n, i, t) PROVE Written(n, i)
    OBVIOUS
  <2>1. CASE t.offset < Len(t.payload)
    <3> DEFINE u == [t EXCEPT !.state = "TX_WAIT_DATA_ACK", !.last = now, !.age = 0,
                              !.lastlen = Len(NextChunk(t))]
    <3>1. SetSlot(n, i, u) /\ u.last = now /\ u.age = 0
      BY <2>1 DEF EmitNext, Session
    <3> QED
      BY <3>1 DEF Written, Fresh
  <2>2. CASE ~ (t.offset < Len(t.payload))
    <3> DEFINE u == [t EXCEPT !.state = "TX_WAIT_END_ACK", !.last = now, !.age = 0]
    <3>1. SetSlot(n, i, u) /\ u.last = now /\ u.age = 0
      BY <2>2 DEF EmitNext, Session
    <3> QED
      BY <3>1 DEF Written, Fresh
  <2> QED
    BY <2>1, <2>2
<1>2. Resend(n, i, s) => Written(n, i)
  <2> DEFINE u == [s EXCEPT !.last = now, !.age = 0]
  <2>1. u.last = now /\ u.age = 0
    BY DEF Session
  <2> QED
    BY <2>1 DEF Resend, Written, Fresh
<1>3. [s EXCEPT !.offset = @ + s.lastlen] \in Session
  <2>1. s.offset + s.lastlen \in Nat
    BY DEF Session
  <2> QED
    BY <2>1 DEF Session
<1> QED
  BY <1>1, <1>2, <1>3, ReleaseWrites DEF HandleTxFrame, TxAbort, TxNack, TxUnexpected, TxAck

\* handle_rx_frame takes a frame as the last activity, or releases the slot.
LEMMA RxWrites ==
  ASSUME NEW n \in Nodes, NEW i, NEW s \in Session, NEW cmd, NEW data, HandleRxFrame(n, i, s, cmd, data)
  PROVE  Written(n, i)
<1>1. CASE RxStart(n, i, s, cmd)
  <2> DEFINE u == [s EXCEPT !.payload = <<>>, !.cap = 0, !.offset = 0,
                            !.mode = IF cmd = CMD_START THEN WITH_ACK ELSE WITHOUT_ACK,
                            !.last = now, !.age = 0]
  <2>1. SetSlot(n, i, u) /\ u.last = now /\ u.age = 0
    BY <1>1 DEF RxStart, Session
  <2> QED
    BY <2>1 DEF Written, Fresh
<1>2. CASE RxData(n, i, s, cmd, data)
  <2> DEFINE u == [Appended(n, s, data) EXCEPT !.last = now, !.age = 0]
  <2>1. u.last = now /\ u.age = 0
    BY DEF Appended, Session
  <2>2. SetSlot(n, i, u)
    BY <1>2 DEF RxData
  <2> QED
    BY <2>1, <2>2 DEF Written, Fresh
<1> QED
  BY <1>1, <1>2, ReleaseWrites DEF HandleRxFrame, RxAbort, RxDataFails, RxEnd, RxUnexpected

\* add_frame leaves the table or writes one slot.
LEMMA AddFrameWrites ==
  ASSUME TableOK, BusOK, HistoryOK, NEW n \in Nodes, AddFrame(n)
  PROVE  now' = now /\ (UNCHANGED sess \/ \E i \in Slots : Written(n, i))
<1> DEFINE f == Head(rx[n])
<1>1. rx[n] # <<>>
  BY DEF AddFrame, AddForeign, AddToSession, AddOpening, AddUnknown
<1>2. f \in HonestFrame
  BY <1>1, HeadTailProperties DEF BusOK
<1>3. f.id \in Nat
  BY <1>2 DEF HonestFrame, Frame
<1> HIDE DEF f
<1>4. CASE AddForeign(n) \/ AddUnknown(n)
  BY <1>4 DEF AddForeign, AddUnknown
<1>5. CASE AddToSession(n)
  <2> DEFINE M == Matching(n, FrameKey(f))
             i == FirstOf(M)
             s == sess[n][i]
             cmd == CanIdCommand(f.id)
  <2>1. /\ M # {}
        /\ HandleTxFrame(n, i, s, cmd) \/ HandleRxFrame(n, i, s, cmd, f.data)
    BY <1>5 DEF AddToSession, f
  <2>2. i \in Slots
    <3>1. M \in SUBSET Slots
      BY DEF Matching
    <3> QED
      BY <2>1, <3>1, FirstSlot
  <2>3. s \in Session
    BY <2>2 DEF TableOK
  <2> HIDE DEF i, s, cmd
  <2>4. now' = now
    BY <2>1 DEF HandleTxFrame, HandleRxFrame
  <2> QED
    BY <2>1, <2>2, <2>3, <2>4, TxWrites, RxWrites
<1>6. CASE AddOpening(n)
  <2> DEFINE i == FirstOf(FreeFor(n, CanIdFrom(f.id)))
             s == OpenedSession(f)
             cmd == CanIdCommand(f.id)
  <2>1. FreeFor(n, CanIdFrom(f.id)) # {} /\ HandleRxFrame(n, i, s, cmd, f.data)
    BY <1>6 DEF AddOpening, f
  <2>2. i \in Slots
    <3>1. FreeFor(n, CanIdFrom(f.id)) \in SUBSET Slots
      BY DEF FreeFor
    <3> QED
      BY <2>1, <3>1, FirstSlot
  <2>3. s \in Session
    <3>1. now \in Nat
      BY SizesAssumption DEF HistoryOK
    <3> QED
      BY <1>3, <3>1, OpenedType
  <2> HIDE DEF i, s, cmd
  <2>4. now' = now
    BY <2>1 DEF HandleRxFrame
  <2> QED
    BY <2>1, <2>2, <2>3, <2>4, RxWrites
<1> QED
  BY <1>4, <1>5, <1>6 DEF AddFrame

\* start_send writes a slot as its first activity, or one without a timeout.
LEMMA StartSendWrites ==
  ASSUME TableOK, NEW n \in Nodes, NEW peer, NEW mode, StartSend(n, peer, mode)
  PROVE  now' = now /\ \E i \in Slots : Written(n, i)
<1> DEFINE i == FirstOf(FreeFor(n, peer))
<1>1. i \in Slots
  <2>1. FreeFor(n, peer) \in SUBSET Slots /\ FreeFor(n, peer) # {}
    BY DEF FreeFor, StartSend
  <2> QED
    BY <2>1, FirstSlot
<1> DEFINE data == Payloads[Len(xfers) + 1]
           kind == IF peer = ALL THEN WITHOUT_ACK ELSE mode
           t == [FreeSession EXCEPT
                   !.state = IF kind = WITH_ACK THEN "TX_WAIT_START_ACK" ELSE "TX_WITHOUT_ACK",
                   !.mode = kind, !.peer = peer, !.local = n,
                   !.sid = SessionId(n, peer, FirstOf(UnreservedIds(n, peer))),
                   !.payload = data, !.cap = Len(data), !.last = now,
                   !.xfer = Len(xfers) + 1]
<1>2. SetSlot(n, i, t)
  BY DEF StartSend
<1>3. t.last = now /\ t.age = 0
  BY DEF FreeSession
<1>4. now' = now
  BY DEF StartSend
<1> HIDE DEF i, t
<1> QED
  BY <1>1, <1>2, <1>3, <1>4 DEF Written, Fresh

\* process releases a slot or goes on with one that has no timeout.
LEMMA ProcessWrites ==
  ASSUME TableOK, NEW n \in Nodes, Process(n)
  PROVE  now' = now /\ \E i \in Slots : Written(n, i)
<1>1. CASE ProcessTimeout(n)
  <2>1. FirstOf(Late(n)) \in Slots
    <3>1. Late(n) \in SUBSET Slots /\ Late(n) # {}
      BY <1>1 DEF Late, ProcessTimeout
    <3> QED
      BY <3>1, FirstSlot
  <2>2. Release(n, FirstOf(Late(n))) /\ now' = now
    BY <1>1 DEF ProcessTimeout
  <2> QED
    BY <2>1, <2>2, ReleaseWrites
<1>2. CASE ProcessUnacked(n)
  <2> DEFINE i == FirstOf(Unacked(n))
             s == sess[n][i]
             t == [s EXCEPT !.offset = @ + Len(NextChunk(s))]
  <2>1. i \in Slots /\ s.state = "TX_WITHOUT_ACK"
    <3>1. Unacked(n) \in SUBSET Slots /\ Unacked(n) # {}
      BY <1>2 DEF Unacked, ProcessUnacked
    <3>2. i \in Unacked(n)
      BY <3>1, FirstSlot
    <3> QED
      BY <3>2 DEF Unacked
  <2>2. t.state = "TX_WITHOUT_ACK"
    BY <2>1 DEF TableOK, Session
  <2>3. (SetSlot(n, i, t) \/ Release(n, i)) /\ now' = now
    BY <1>2 DEF ProcessUnacked
  <2> HIDE DEF i, t
  <2>4. SetSlot(n, i, t) => Written(n, i)
    BY <2>2 DEF Written, Fresh, Timed
  <2> QED
    BY <2>1, <2>3, <2>4, ReleaseWrites
<1> QED
  BY <1>1, <1>2 DEF Process

\* Time goes by for every timed session alike.
LEMMA TickKeepsAges ==
  ASSUME TableOK, HistoryOK, AgesOK, Tick
  PROVE  AgesOK'
<1> SUFFICES ASSUME NEW n \in Nodes, NEW i \in Slots, Timed(sess'[n][i])
             PROVE  /\ sess'[n][i].age \in 0 .. MaxIdle
                    /\ sess'[n][i].last \in 0 .. ClockMod - 1
                    /\ (now' - sess'[n][i].last) % ClockMod = sess'[n][i].age
  BY DEF AgesOK, AgeOK
<1> DEFINE s == sess[n][i]
<1>1. s \in Session /\ sess'[n][i] = IF Timed(s) THEN [s EXCEPT !.age = @ + 1] ELSE s
  BY DEF TableOK, Tick
<1>2. Timed(s)
  BY <1>1
<1>3. sess'[n][i].age = s.age + 1 /\ sess'[n][i].last = s.last
  BY <1>1, <1>2 DEF Session
<1>4. /\ s.age \in 0 .. MaxIdle /\ s.last \in 0 .. ClockMod - 1
      /\ (now - s.last) % ClockMod = s.age /\ s.age < MaxIdle
      /\ now \in 0 .. ClockMod - 1 /\ now' = (now + 1) % ClockMod
  BY <1>2 DEF AgesOK, AgeOK, HistoryOK, Tick
<1> HIDE DEF s
<1>5. s.age \in Nat /\ s.age + 1 < ClockMod /\ s.age + 1 \in 0 .. MaxIdle
  BY <1>4, ClockAssumption, SizesAssumption, TrafficAssumption, SMTT(30)
<1>6. (now' - s.last) % ClockMod = s.age + 1
  BY <1>4, <1>5, TickAges
<1> QED
  BY <1>3, <1>4, <1>5, <1>6

\* Every step keeps the ages.
LEMMA NextAges ==
  ASSUME SessionInvariant, AgesOK, [Next]_vars
  PROVE  AgesOK'
<1>1. TableOK /\ BusOK /\ HistoryOK
  BY InvariantParts
<1>2. UNCHANGED <<sess, now>> => AgesOK'
  BY DEF AgesOK, AgeOK
<1>3. ASSUME NEW n \in Nodes, now' = now, UNCHANGED sess \/ \E i \in Slots : Written(n, i)
      PROVE  AgesOK'
  BY <1>1, <1>2, <1>3, WrittenKeepsAges
<1>4. ASSUME NEW n \in Nodes, \/ \E peer \in Destinations, mode \in Modes : StartSend(n, peer, mode)
                              \/ AddFrame(n) \/ Process(n)
      PROVE  AgesOK'
  BY <1>1, <1>3, <1>4, StartSendWrites, AddFrameWrites, ProcessWrites
<1>5. ASSUME NEW n \in Nodes, Lose(n) \/ Duplicate(n) \/ Intrude(n)
      PROVE  AgesOK'
  BY <1>2, <1>5 DEF Lose, Duplicate, Intrude
<1>6. ASSUME NEW n \in Nodes, Restart(n)
      PROVE  AgesOK'
  <2>1. \A m \in Nodes, j \in Slots : sess'[m][j] = IF m = n THEN FreeSession ELSE sess[m][j]
    BY <1>1, <1>6 DEF Restart, TableOK
  <2>2. ~ Timed(FreeSession) /\ now' = now
    BY <1>6 DEF Restart, Timed, FreeSession
  <2> QED
    BY <2>1, <2>2 DEF AgesOK, AgeOK
<1>7. CASE Tick
  BY <1>1, <1>7, TickKeepsAges
<1>8. CASE UNCHANGED vars
  BY <1>2, <1>8 DEF vars
<1> QED
  BY <1>4, <1>5, <1>6, <1>7, <1>8 DEF Next

(***************************************************************************)
(* process finds a session late exactly when more than its timeout has     *)
(* really gone by, wherever the clock wraps around, as long as it is       *)
(* called once in every turn of the clock.                                 *)
(***************************************************************************)
THEOREM TimeoutsAreTrue == Spec => []TimeoutMatchesElapsed
<1>1. Init => AgesOK
  BY DEF Init, AgesOK, AgeOK, Timed, FreeSession
<1>2. AgesOK => TimeoutMatchesElapsed
  BY DEF AgesOK, AgeOK, TimeoutMatchesElapsed, TimedOut
<1> QED
  BY <1>1, <1>2, NextAges, SessionTablesInOrder, PTL DEF Spec

-----------------------------------------------------------------------------
(* Transfers and their outcomes.                                           *)

\* Only a sending slot carries a transfer.
OnlyTxCarries == \A n \in Nodes, i \in Slots : ~ IsTx(sess[n][i]) => sess[n][i].xfer = 0

OutcomesOK == OneOutcomePerTransfer /\ OnlyTxCarries

\* A call goes on with a slot, ends the transfer that it carries, or begins one.
Kept(n, i) ==
  /\ UNCHANGED xfers
  /\ \E t : /\ SetSlot(n, i, t) /\ t.xfer = sess[n][i].xfer
            /\ IsTx(t) <=> IsTx(sess[n][i])
            /\ IsTx(t) => t.peer = sess[n][i].peer
Ended(n, i) ==
  /\ IsTx(sess[n][i]) /\ Release(n, i)
  /\ \E o \in Outcomes \ {"OPEN"} : EndTransfer(sess[n][i], o)
Begun(n, i) ==
  /\ ~ IsTx(sess[n][i])
  /\ \E t, x : /\ SetSlot(n, i, t) /\ IsTx(t) /\ t.xfer = Len(xfers) + 1
               /\ xfers' = Append(xfers, x)
               /\ x.from = n /\ x.to = t.peer /\ x.out = "OPEN"

LEMMA TransferTypes ==
  ASSUME HistoryOK
  PROVE  /\ xfers \in Seq(Transfer) /\ Len(xfers) \in Nat /\ DOMAIN xfers = 1 .. Len(xfers)
         /\ \A k \in DOMAIN xfers : /\ k \in Nat /\ k # 0
                                   /\ xfers[k] \in Transfer /\ xfers[k].from \in Nodes
<1>1. xfers \in Seq(Transfer)
  BY DEF HistoryOK
<1>2. Len(xfers) \in Nat /\ DOMAIN xfers = 1 .. Len(xfers)
  BY <1>1, LenProperties
<1>3. \A k \in DOMAIN xfers : xfers[k] \in Transfer
  BY <1>1, <1>2, ElementOfSeq
<1>4. \A x \in Transfer : x.from \in Nodes
  BY DEF Transfer
<1>5. QED
  BY <1>1, <1>2, <1>3, <1>4

\* A slot that goes on carries what it carried.
LEMMA KeptOutcomes ==
  ASSUME TableOK, HistoryOK, OutcomesOK, NEW n \in Nodes, NEW i \in Slots, Kept(n, i)
  PROVE  OutcomesOK'
<1>1. PICK t : /\ SetSlot(n, i, t) /\ t.xfer = sess[n][i].xfer
               /\ IsTx(t) <=> IsTx(sess[n][i])
               /\ IsTx(t) => t.peer = sess[n][i].peer
  BY DEF Kept
<1>2. \A m \in Nodes, j \in Slots :
        /\ sess'[m][j].xfer = sess[m][j].xfer
        /\ IsTx(sess'[m][j]) <=> IsTx(sess[m][j])
        /\ IsTx(sess[m][j]) => sess'[m][j].peer = sess[m][j].peer
  BY <1>1 DEF TableOK, SetSlot
<1>3. xfers' = xfers /\ \A k \in DOMAIN xfers : xfers[k].from \in Nodes
  BY TransferTypes DEF Kept
<1>4. OnlyTxCarries'
  BY <1>2 DEF OutcomesOK, OnlyTxCarries
<1>5. OneOutcomePerTransfer'
  BY <1>2, <1>3 DEF OutcomesOK, OneOutcomePerTransfer
<1> QED
  BY <1>4, <1>5 DEF OutcomesOK

\* A transfer that ends was carried by this slot alone.
LEMMA EndedOutcomes ==
  ASSUME TableOK, HistoryOK, OutcomesOK, NEW n \in Nodes, NEW i \in Slots, Ended(n, i)
  PROVE  OutcomesOK'
<1> DEFINE e == sess[n][i].xfer
<1>1. PICK o \in Outcomes \ {"OPEN"} : xfers' = [xfers EXCEPT ![e].out = o]
  BY DEF Ended, EndTransfer
<1>2. \A m \in Nodes, j \in Slots :
        sess'[m][j] = IF m = n /\ j = i THEN FreeSession ELSE sess[m][j]
  BY DEF Ended, Release, SetSlot, TableOK
<1>3. ~ IsTx(FreeSession) /\ FreeSession.xfer = 0
  BY DEF IsTx, FreeSession
<1>4. /\ e \in DOMAIN xfers /\ xfers[e].from = n /\ xfers[e].out = "OPEN"
      /\ \A k \in DOMAIN xfers : k \in Nat /\ k # 0 /\ xfers[k].from \in Nodes
      /\ xfers \in Seq(Transfer)
  <2>1. IsTx(sess[n][i])
    BY DEF Ended
  <2> QED
    BY <2>1, TransferTypes DEF OutcomesOK, OneOutcomePerTransfer
<1>5. /\ DOMAIN xfers' = DOMAIN xfers /\ xfers'[e].out = o
      /\ \A k \in DOMAIN xfers : xfers'[k].from = xfers[k].from /\ xfers'[k].to = xfers[k].to
      /\ \A k \in DOMAIN xfers \ {e} : xfers'[k] = xfers[k]
  <2>1. \A k \in DOMAIN xfers : xfers[k] \in Transfer
    BY TransferTypes
  <2>2. \A k \in DOMAIN xfers :
          xfers'[k] = IF k = e THEN [xfers[k] EXCEPT !.out = o] ELSE xfers[k]
    BY <1>1
  <2>3. DOMAIN xfers' = DOMAIN xfers
    BY <1>1
  <2> HIDE DEF e
  <2>4. QED
    BY <1>4, <2>1, <2>2, <2>3 DEF Transfer
<1> HIDE DEF e
<1>6. \A m \in Nodes, j \in Slots : IsTx(sess[m][j]) /\ ~ (m = n /\ j = i) => sess[m][j].xfer # e
  <2> SUFFICES ASSUME NEW m \in Nodes, NEW j \in Slots, IsTx(sess[m][j]), m # n \/ j # i,
                      sess[m][j].xfer = e
               PROVE  FALSE
    OBVIOUS
  <2>1. xfers[e].from = m
    BY DEF OutcomesOK, OneOutcomePerTransfer
  <2>2. PICK l \in Slots : \A h \in Slots \ {l} : sess[n][h].xfer # e
    BY <1>4 DEF OutcomesOK, OneOutcomePerTransfer
  <2> QED
    BY <1>4, <2>1, <2>2 DEF e
<1>7. OnlyTxCarries'
  BY <1>2, <1>3 DEF OutcomesOK, OnlyTxCarries
<1>8. ASSUME NEW m \in Nodes, NEW j \in Slots, IsTx(sess'[m][j])
      PROVE  /\ sess'[m][j].xfer \in DOMAIN xfers'
             /\ xfers'[sess'[m][j].xfer].from = m
             /\ xfers'[sess'[m][j].xfer].to = sess'[m][j].peer
             /\ xfers'[sess'[m][j].xfer].out = "OPEN"
  <2>1. ~ (m = n /\ j = i) /\ sess'[m][j] = sess[m][j]
    BY <1>2, <1>3, <1>8
  <2>2. sess[m][j].xfer # e
    BY <1>6, <1>8, <2>1
  <2>3. /\ sess[m][j].xfer \in DOMAIN xfers /\ xfers[sess[m][j].xfer].from = m
        /\ xfers[sess[m][j].xfer].to = sess[m][j].peer /\ xfers[sess[m][j].xfer].out = "OPEN"
    BY <1>8, <2>1 DEF OutcomesOK, OneOutcomePerTransfer
  <2> QED
    BY <1>5, <2>1, <2>2, <2>3
<1>9. ASSUME NEW k \in DOMAIN xfers', xfers'[k].out = "OPEN"
      PROVE  \E l \in Slots :
               /\ IsTx(sess'[xfers'[k].from][l]) /\ sess'[xfers'[k].from][l].xfer = k
               /\ \A j \in Slots \ {l} : sess'[xfers'[k].from][j].xfer # k
  <2>1. k \in DOMAIN xfers /\ k # e /\ xfers'[k] = xfers[k]
    BY <1>1, <1>5, <1>9
  <2> DEFINE m == xfers[k].from
  <2>2. m \in Nodes /\ xfers[k].out = "OPEN" /\ k # 0
    BY <1>4, <1>9, <2>1
  <2>3. PICK l \in Slots : /\ IsTx(sess[m][l]) /\ sess[m][l].xfer = k
                           /\ \A j \in Slots \ {l} : sess[m][j].xfer # k
    BY <2>1, <2>2 DEF OutcomesOK, OneOutcomePerTransfer
  <2> HIDE DEF m
  <2>4. ~ (m = n /\ l = i)
    BY <2>1, <2>3 DEF e
  <2>5. IsTx(sess'[m][l]) /\ sess'[m][l].xfer = k
    BY <1>2, <2>2, <2>3, <2>4
  <2>6. \A j \in Slots \ {l} : sess'[m][j].xfer # k
    BY <1>2, <1>3, <2>2, <2>3
  <2> QED
    BY <2>1, <2>5, <2>6 DEF m
<1> QED
  BY <1>7, <1>8, <1>9 DEF OutcomesOK, OneOutcomePerTransfer

\* A transfer that begins has a number that no slot carries.
LEMMA BegunOutcomes ==
  ASSUME TableOK, HistoryOK, OutcomesOK, NEW n \in Nodes, NEW i \in Slots, Begun(n, i)
  PROVE  OutcomesOK'
<1> DEFINE e == Len(xfers) + 1
<1>1. PICK t, x : /\ SetSlot(n, i, t) /\ IsTx(t) /\ t.xfer = e
                  /\ xfers' = Append(xfers, x)
                  /\ x.from = n /\ x.to = t.peer /\ x.out = "OPEN"
  BY DEF Begun
<1>2. \A m \in Nodes, j \in Slots :
        sess'[m][j] = IF m = n /\ j = i THEN t ELSE sess[m][j]
  BY <1>1 DEF SetSlot, TableOK
<1>3. /\ \A k \in DOMAIN xfers : k \in Nat /\ k # 0 /\ k # e /\ xfers[k].from \in Nodes
      /\ e # 0
      /\ DOMAIN xfers' = DOMAIN xfers \union {e} /\ xfers'[e] = x
      /\ \A k \in DOMAIN xfers : xfers'[k] = xfers[k]
  <2>1. xfers' = Append(xfers, x)
    BY <1>1
  <2>2. \A k \in DOMAIN xfers : k \in Nat /\ k # 0 /\ k # e /\ xfers[k].from \in Nodes
    BY TransferTypes
  <2>3. QED
    BY <2>1, <2>2, TransferTypes
<1> HIDE DEF e
<1>4. \A m \in Nodes, j \in Slots : sess[m][j].xfer # e
  BY <1>3 DEF OutcomesOK, OneOutcomePerTransfer, OnlyTxCarries
<1>5. OnlyTxCarries'
  BY <1>1, <1>2 DEF OutcomesOK, OnlyTxCarries
<1>6. ASSUME NEW m \in Nodes, NEW j \in Slots, IsTx(sess'[m][j])
      PROVE  /\ sess'[m][j].xfer \in DOMAIN xfers'
             /\ xfers'[sess'[m][j].xfer].from = m
             /\ xfers'[sess'[m][j].xfer].to = sess'[m][j].peer
             /\ xfers'[sess'[m][j].xfer].out = "OPEN"
  <2>1. CASE m = n /\ j = i
    BY <1>1, <1>2, <1>3, <2>1
  <2>2. CASE ~ (m = n /\ j = i)
    <3>1. sess'[m][j] = sess[m][j]
      BY <1>2, <2>2
    <3>2. /\ sess[m][j].xfer \in DOMAIN xfers /\ xfers[sess[m][j].xfer].from = m
          /\ xfers[sess[m][j].xfer].to = sess[m][j].peer /\ xfers[sess[m][j].xfer].out = "OPEN"
      BY <1>6, <3>1 DEF OutcomesOK, OneOutcomePerTransfer
    <3> QED
      BY <1>3, <3>1, <3>2
  <2> QED
    BY <2>1, <2>2
<1>7. ASSUME NEW k \in DOMAIN xfers', xfers'[k].out = "OPEN"
      PROVE  \E l \in Slots :
               /\ IsTx(sess'[xfers'[k].from][l]) /\ sess'[xfers'[k].from][l].xfer = k
               /\ \A j \in Slots \ {l} : sess'[xfers'[k].from][j].xfer # k
  <2>1. CASE k = e
    <3>1. xfers'[k].from = n /\ IsTx(sess'[n][i]) /\ sess'[n][i].xfer = k
      BY <1>1, <1>2, <1>3, <2>1
    <3>2. \A j \in Slots \ {i} : sess'[n][j].xfer # k
      BY <1>2, <1>4, <2>1
    <3> QED
      BY <3>1, <3>2
  <2>2. CASE k # e
    <3> DEFINE m == xfers[k].from
    <3>1. k \in DOMAIN xfers /\ xfers'[k] = xfers[k] /\ m \in Nodes /\ xfers[k].out = "OPEN" /\ k # 0
      BY <1>3, <1>7, <2>2
    <3>2. PICK l \in Slots : /\ IsTx(sess[m][l]) /\ sess[m][l].xfer = k
                             /\ \A j \in Slots \ {l} : sess[m][j].xfer # k
      BY <3>1 DEF OutcomesOK, OneOutcomePerTransfer
    <3> HIDE DEF m
    <3>3. ~ (m = n /\ l = i)
      BY <3>2 DEF Begun
    <3>4. IsTx(sess'[m][l]) /\ sess'[m][l].xfer = k
      BY <1>2, <3>1, <3>2, <3>3
    <3>5. \A j \in Slots \ {l} : sess'[m][j].xfer # k
      BY <1>1, <1>2, <2>2, <3>1, <3>2
    <3> QED
      BY <3>1, <3>4, <3>5 DEF m
  <2> QED
    BY <2>1, <2>2
<1> QED
  BY <1>5, <1>6, <1>7 DEF OutcomesOK, OneOutcomePerTransfer

\* A released slot that carried nothing carries nothing.
LEMMA ReleaseKept ==
  ASSUME NEW n, NEW i, Release(n, i), UNCHANGED xfers, ~ IsTx(sess[n][i]), sess[n][i].xfer = 0
  PROVE  Kept(n, i)
  BY DEF Release, Kept, IsTx, FreeSession

\* handle_tx_frame goes on with the transfer or ends it.
LEMMA TxOutcome ==
  ASSUME NEW n, NEW i, sess[n][i] \in Session, IsTx(sess[n][i]), NEW cmd,
         HandleTxFrame(n, i, sess[n][i], cmd)
  PROVE  UNCHANGED <<sess, xfers>> \/ Kept(n, i) \/ Ended(n, i)
<1> DEFINE s == sess[n][i]
<1>1. ASSUME NEW t \in Session, t.xfer = s.xfer, t.peer = s.peer, EmitNext(n, i, t), UNCHANGED xfers
      PROVE  Kept(n, i)
  <2>1. CASE t.offset < Len(t.payload)
    <3> DEFINE u == [t EXCEPT !.state = "TX_WAIT_DATA_ACK", !.last = now, !.age = 0,
                              !.lastlen = Len(NextChunk(t))]
    <3>1. SetSlot(n, i, u) /\ u.xfer = s.xfer /\ u.peer = s.peer /\ u.state = "TX_WAIT_DATA_ACK"
      BY <1>1, <2>1 DEF EmitNext, Session
    <3> HIDE DEF u
    <3> QED
      BY <1>1, <3>1 DEF Kept, IsTx
  <2>2. CASE ~ (t.offset < Len(t.payload))
    <3> DEFINE u == [t EXCEPT !.state = "TX_WAIT_END_ACK", !.last = now, !.age = 0]
    <3>1. SetSlot(n, i, u) /\ u.xfer = s.xfer /\ u.peer = s.peer /\ u.state = "TX_WAIT_END_ACK"
      BY <1>1, <2>2 DEF EmitNext, Session
    <3> HIDE DEF u
    <3> QED
      BY <1>1, <3>1 DEF Kept, IsTx
  <2> QED
    BY <2>1, <2>2
<1>2. ASSUME Resend(n, i, s), UNCHANGED xfers PROVE Kept(n, i)
  <2> DEFINE u == [s EXCEPT !.last = now, !.age = 0]
  <2>1. SetSlot(n, i, u) /\ u.xfer = s.xfer /\ u.peer = s.peer /\ u.state = s.state
    BY <1>2 DEF Resend, Session
  <2> HIDE DEF u
  <2> QED
    BY <1>2, <2>1 DEF Kept, IsTx
<1> DEFINE v == [s EXCEPT !.offset = @ + s.lastlen]
<1>3. v \in Session /\ v.xfer = s.xfer /\ v.peer = s.peer
  <2>1. s.offset + s.lastlen \in Nat
    BY SMTT(30) DEF Session
  <2> QED
    BY <2>1 DEF Session
<1>4. ASSUME Release(n, i), NEW o \in {"TX_ABORTED", "TX_FINISHED"}, EndTransfer(s, o)
      PROVE  Ended(n, i)
  BY <1>4 DEF Ended, Outcomes
<1>5. CASE TxAbort(n, i, s, cmd) \/ TxUnexpected(n, i, s, cmd)
  BY <1>4, <1>5 DEF TxAbort, TxUnexpected
<1>6. CASE TxNack(n, i, s, cmd)
  BY <1>2, <1>4, <1>6 DEF TxNack
<1>7. CASE TxAck(n, i, s, cmd)
  <2>1. ASSUME EmitNext(n, i, s), UNCHANGED xfers PROVE Kept(n, i)
    BY <1>1, <2>1
  <2>2. ASSUME EmitNext(n, i, v), UNCHANGED xfers PROVE Kept(n, i)
    BY <1>1, <1>3, <2>2
  <2> QED
    BY <1>4, <1>7, <2>1, <2>2 DEF TxAck
<1> QED
  BY <1>5, <1>6, <1>7 DEF HandleTxFrame

\* handle_rx_frame concerns no transfer of this node.
LEMMA RxOutcome ==
  ASSUME NEW n, NEW i, ~ IsTx(sess[n][i]), sess[n][i].xfer = 0,
         NEW s \in Session, s.state = "RX", s.xfer = 0, NEW cmd, NEW data,
         HandleRxFrame(n, i, s, cmd, data)
  PROVE  Kept(n, i)
<1>1. UNCHANGED xfers
  BY DEF HandleRxFrame
<1>2. ASSUME NEW u, SetSlot(n, i, u), u.state = "RX", u.xfer = 0 PROVE Kept(n, i)
  BY <1>1, <1>2 DEF Kept, IsTx
<1>3. CASE RxStart(n, i, s, cmd)
  <2> DEFINE u == [s EXCEPT !.payload = <<>>, !.cap = 0, !.offset = 0,
                            !.mode = IF cmd = CMD_START THEN WITH_ACK ELSE WITHOUT_ACK,
                            !.last = now, !.age = 0]
  <2>1. SetSlot(n, i, u) /\ u.state = "RX" /\ u.xfer = 0
    BY <1>3 DEF RxStart, Session
  <2> HIDE DEF u
  <2> QED
    BY <1>2, <2>1
<1>4. CASE RxData(n, i, s, cmd, data)
  <2> DEFINE u == [Appended(n, s, data) EXCEPT !.last = now, !.age = 0]
  <2>1. u.state = "RX" /\ u.xfer = 0
    BY DEF Appended, Session
  <2>2. SetSlot(n, i, u)
    BY <1>4 DEF RxData
  <2> HIDE DEF u
  <2> QED
    BY <1>2, <2>1, <2>2
<1> QED
  BY <1>1, <1>3, <1>4, ReleaseKept DEF HandleRxFrame, RxAbort, RxDataFails, RxEnd, RxUnexpected

\* add_frame goes on with a slot or ends the transfer that it carries.
LEMMA AddFrameOutcome ==
  ASSUME TableOK, BusOK, HistoryOK, OutcomesOK, NEW n \in Nodes, AddFrame(n)
  PROVE  \/ UNCHANGED <<sess, xfers>>
         \/ \E i \in Slots : Kept(n, i) \/ Ended(n, i)
<1> DEFINE f == Head(rx[n])
<1>1. f.id \in Nat
  <2>1. rx[n] # <<>>
    BY DEF AddFrame, AddForeign, AddToSession, AddOpening, AddUnknown
  <2>2. f \in HonestFrame
    BY <2>1, HeadTailProperties DEF BusOK
  <2> QED
    BY <2>2 DEF HonestFrame, Frame
<1> HIDE DEF f
<1>2. CASE AddForeign(n) \/ AddUnknown(n)
  BY <1>2 DEF AddForeign, AddUnknown
<1>3. CASE AddToSession(n)
  <2> DEFINE M == Matching(n, FrameKey(f))
             i == FirstOf(M)
             s == sess[n][i]
             cmd == CanIdCommand(f.id)
  <2>1. /\ M # {}
        /\ \/ IsTx(s) /\ HandleTxFrame(n, i, s, cmd)
           \/ ~ IsTx(s) /\ HandleRxFrame(n, i, s, cmd, f.data)
    BY <1>3 DEF AddToSession, f
  <2>2. i \in Slots /\ Busy(s)
    <3>1. M \in SUBSET Slots
      BY DEF Matching
    <3>2. i \in M
      BY <2>1, <3>1, FirstSlot
    <3> QED
      BY <3>1, <3>2 DEF Matching
  <2>3. s \in Session
    BY <2>2 DEF TableOK
  <2> HIDE DEF i
  <2>4. ~ IsTx(s) => s.xfer = 0 /\ s.state = "RX"
    BY <2>2, <2>3 DEF OutcomesOK, OnlyTxCarries, IsTx, Busy, Session, SessionStates
  <2>5. CASE IsTx(s)
    <3>1. HandleTxFrame(n, i, sess[n][i], cmd)
      BY <2>1, <2>5
    <3> QED
      BY <2>2, <2>3, <2>5, <3>1, TxOutcome
  <2>6. CASE ~ IsTx(s)
    <3>1. HandleRxFrame(n, i, s, cmd, f.data)
      BY <2>1, <2>6
    <3>2. Kept(n, i)
      BY <2>3, <2>4, <2>6, <3>1, RxOutcome
    <3> QED
      BY <2>2, <3>2
  <2> QED
    BY <2>5, <2>6
<1>4. CASE AddOpening(n)
  <2> DEFINE i == FirstOf(FreeFor(n, CanIdFrom(f.id)))
             s == OpenedSession(f)
             cmd == CanIdCommand(f.id)
  <2>1. FreeFor(n, CanIdFrom(f.id)) # {} /\ HandleRxFrame(n, i, s, cmd, f.data)
    BY <1>4 DEF AddOpening, f
  <2>2. i \in Slots /\ ~ Busy(sess[n][i])
    <3>1. FreeFor(n, CanIdFrom(f.id)) \in SUBSET Slots
      BY DEF FreeFor
    <3>2. i \in FreeFor(n, CanIdFrom(f.id))
      BY <2>1, <3>1, FirstSlot
    <3> QED
      BY <3>1, <3>2 DEF FreeFor
  <2>3. s \in Session
    <3>1. now \in Nat
      BY SizesAssumption DEF HistoryOK
    <3> QED
      BY <1>1, <3>1, OpenedType
  <2>4. s.state = "RX" /\ s.xfer = 0
    BY DEF OpenedSession, FreeSession
  <2> HIDE DEF i, s, cmd
  <2>5. ~ IsTx(sess[n][i]) /\ sess[n][i].xfer = 0
    BY <2>2 DEF IsTx, Busy, OutcomesOK, OnlyTxCarries
  <2> QED
    BY <2>1, <2>2, <2>3, <2>4, <2>5, RxOutcome
<1> QED
  BY <1>2, <1>3, <1>4 DEF AddFrame

\* start_send begins a transfer in a free slot.
LEMMA StartSendOutcome ==
  ASSUME TableOK, NEW n \in Nodes, NEW peer, NEW mode, StartSend(n, peer, mode)
  PROVE  \E i \in Slots : Begun(n, i)
<1> DEFINE i == FirstOf(FreeFor(n, peer))
<1>1. i \in Slots /\ ~ Busy(sess[n][i])
  <2>1. FreeFor(n, peer) \in SUBSET Slots /\ FreeFor(n, peer) # {}
    BY DEF FreeFor, StartSend
  <2>2. i \in FreeFor(n, peer)
    BY <2>1, FirstSlot
  <2> QED
    BY <2>1, <2>2 DEF FreeFor
<1> DEFINE data == Payloads[Len(xfers) + 1]
           kind == IF peer = ALL THEN WITHOUT_ACK ELSE mode
           t == [FreeSession EXCEPT
                   !.state = IF kind = WITH_ACK THEN "TX_WAIT_START_ACK" ELSE "TX_WITHOUT_ACK",
                   !.mode = kind, !.peer = peer, !.local = n,
                   !.sid = SessionId(n, peer, FirstOf(UnreservedIds(n, peer))),
                   !.payload = data, !.cap = Len(data), !.last = now,
                   !.xfer = Len(xfers) + 1]
           x == [from |-> n, to |-> peer, mode |-> kind, data |-> data, out |-> "OPEN"]
<1>2. SetSlot(n, i, t) /\ xfers' = Append(xfers, x)
  BY DEF StartSend
<1>3. IsTx(t) /\ t.xfer = Len(xfers) + 1 /\ t.peer = peer
  BY DEF FreeSession, IsTx
<1>4. x.from = n /\ x.to = peer /\ x.out = "OPEN"
  OBVIOUS
<1>5. ~ IsTx(sess[n][i])
  BY <1>1 DEF IsTx, Busy
<1> HIDE DEF i, t, x
<1> QED
  BY <1>1, <1>2, <1>3, <1>4, <1>5 DEF Begun

\* process ends one transfer, drops one receiving slot, or sends on.
LEMMA ProcessOutcome ==
  ASSUME TableOK, OutcomesOK, NEW n \in Nodes, Process(n)
  PROVE  \E i \in Slots : Kept(n, i) \/ Ended(n, i)
<1>1. CASE ProcessTimeout(n)
  <2> DEFINE i == FirstOf(Late(n))
             s == sess[n][i]
  <2>1. i \in Slots /\ Timed(s)
    <3>1. Late(n) \in SUBSET Slots /\ Late(n) # {}
      BY <1>1 DEF Late, ProcessTimeout
    <3>2. i \in Late(n)
      BY <3>1, FirstSlot
    <3> QED
      BY <3>1, <3>2 DEF Late, TimedOut
  <2>2. /\ Release(n, i)
        /\ IF s.state = "RX" THEN UNCHANGED xfers ELSE EndTransfer(s, "TX_TIMEOUT")
    BY <1>1 DEF ProcessTimeout
  <2> HIDE DEF i
  <2>3. CASE s.state = "RX"
    <3>1. ~ IsTx(s) /\ s.xfer = 0
      BY <2>1, <2>3 DEF IsTx, OutcomesOK, OnlyTxCarries
    <3> QED
      BY <2>1, <2>2, <2>3, <3>1, ReleaseKept
  <2>4. CASE s.state # "RX"
    <3>1. IsTx(s)
      BY <2>1, <2>4 DEF IsTx, Timed
    <3> QED
      BY <2>1, <2>2, <2>4, <3>1 DEF Ended, Outcomes
  <2> QED
    BY <2>3, <2>4
<1>2. CASE ProcessUnacked(n)
  <2> DEFINE i == FirstOf(Unacked(n))
             s == sess[n][i]
             t == [s EXCEPT !.offset = @ + Len(NextChunk(s))]
  <2>1. i \in Slots /\ s.state = "TX_WITHOUT_ACK"
    <3>1. Unacked(n) \in SUBSET Slots /\ Unacked(n) # {}
      BY <1>2 DEF Unacked, ProcessUnacked
    <3>2. i \in Unacked(n)
      BY <3>1, FirstSlot
    <3> QED
      BY <3>2 DEF Unacked
  <2>2. t.state = "TX_WITHOUT_ACK" /\ t.xfer = s.xfer /\ t.peer = s.peer
    BY <2>1 DEF TableOK, Session
  <2>3. \/ SetSlot(n, i, t) /\ UNCHANGED xfers
        \/ Release(n, i) /\ EndTransfer(s, "TX_FINISHED")
    BY <1>2 DEF ProcessUnacked
  <2> HIDE DEF i, t
  <2>4. SetSlot(n, i, t) /\ UNCHANGED xfers => Kept(n, i)
    BY <2>1, <2>2 DEF Kept, IsTx
  <2>5. Release(n, i) /\ EndTransfer(s, "TX_FINISHED") => Ended(n, i)
    BY <2>1 DEF Ended, IsTx, Outcomes
  <2> QED
    BY <2>1, <2>3, <2>4, <2>5
<1> QED
  BY <1>1, <1>2 DEF Process

\* deinit ends the open transfers of its node and no others.
LEMMA RestartOutcomes ==
  ASSUME TableOK, HistoryOK, OutcomesOK, NEW n \in Nodes, Restart(n)
  PROVE  OutcomesOK'
<1>1. \A m \in Nodes, j \in Slots : sess'[m][j] = IF m = n THEN FreeSession ELSE sess[m][j]
  BY DEF Restart, TableOK
<1>2. ~ IsTx(FreeSession) /\ FreeSession.xfer = 0
  BY DEF IsTx, FreeSession
<1>3. /\ DOMAIN xfers' = DOMAIN xfers
      /\ \A k \in DOMAIN xfers : xfers'[k].from = xfers[k].from /\ xfers'[k].to = xfers[k].to
      /\ \A k \in DOMAIN xfers :
           xfers'[k].out = IF xfers[k].from = n /\ xfers[k].out = "OPEN" THEN "RESTARTED"
                           ELSE xfers[k].out
      /\ \A k \in DOMAIN xfers : xfers[k].from \in Nodes
  <2>1. \A k \in DOMAIN xfers : xfers[k] \in Transfer
    BY ElementOfSeq, LenProperties DEF HistoryOK
  <2>2. xfers' = [k \in DOMAIN xfers |->
                   IF xfers[k].from = n /\ xfers[k].out = "OPEN"
                   THEN [xfers[k] EXCEPT !.out = "RESTARTED"] ELSE xfers[k]]
    BY DEF Restart
  <2> QED
    BY <2>1, <2>2 DEF Transfer
<1>4. OnlyTxCarries'
  BY <1>1, <1>2 DEF OutcomesOK, OnlyTxCarries
<1>5. OneOutcomePerTransfer'
  <2>1. ASSUME NEW m \in Nodes, NEW j \in Slots, IsTx(sess'[m][j])
        PROVE  /\ sess'[m][j].xfer \in DOMAIN xfers'
               /\ xfers'[sess'[m][j].xfer].from = m
               /\ xfers'[sess'[m][j].xfer].to = sess'[m][j].peer
               /\ xfers'[sess'[m][j].xfer].out = "OPEN"
    <3>1. m # n /\ sess'[m][j] = sess[m][j]
      BY <1>1, <1>2, <2>1
    <3>2. /\ sess[m][j].xfer \in DOMAIN xfers /\ xfers[sess[m][j].xfer].from = m
          /\ xfers[sess[m][j].xfer].to = sess[m][j].peer /\ xfers[sess[m][j].xfer].out = "OPEN"
      BY <2>1, <3>1 DEF OutcomesOK, OneOutcomePerTransfer
    <3> QED
      BY <1>3, <3>1, <3>2
  <2>2. ASSUME NEW k \in DOMAIN xfers', xfers'[k].out = "OPEN"
        PROVE  \E l \in Slots :
                 /\ IsTx(sess'[xfers'[k].from][l]) /\ sess'[xfers'[k].from][l].xfer = k
                 /\ \A j \in Slots \ {l} : sess'[xfers'[k].from][j].xfer # k
    <3>1. /\ k \in DOMAIN xfers /\ xfers[k].out = "OPEN" /\ xfers[k].from # n
          /\ xfers'[k].from = xfers[k].from /\ xfers[k].from \in Nodes
      BY <1>3, <2>2
    <3>2. PICK l \in Slots :
            /\ IsTx(sess[xfers[k].from][l]) /\ sess[xfers[k].from][l].xfer = k
            /\ \A j \in Slots \ {l} : sess[xfers[k].from][j].xfer # k
      BY <3>1 DEF OutcomesOK, OneOutcomePerTransfer
    <3>3. \A j \in Slots : sess'[xfers[k].from][j] = sess[xfers[k].from][j]
      BY <1>1, <3>1
    <3> QED
      BY <3>1, <3>2, <3>3
  <2> QED
    BY <2>1, <2>2 DEF OneOutcomePerTransfer
<1> QED
  BY <1>4, <1>5 DEF OutcomesOK

\* Every step keeps the account of the transfers.
LEMMA NextOutcomes ==
  ASSUME SessionInvariant, OutcomesOK, [Next]_vars
  PROVE  OutcomesOK'
<1>1. TableOK /\ BusOK /\ HistoryOK
  BY InvariantParts
<1>2. UNCHANGED <<sess, xfers>> => OutcomesOK'
  BY DEF OutcomesOK, OneOutcomePerTransfer, OnlyTxCarries
<1>3. ASSUME NEW n \in Nodes, NEW i \in Slots, Kept(n, i) \/ Ended(n, i) \/ Begun(n, i)
      PROVE  OutcomesOK'
  BY <1>1, <1>3, KeptOutcomes, EndedOutcomes, BegunOutcomes
<1>4. ASSUME NEW n \in Nodes, NEW peer, NEW mode, StartSend(n, peer, mode)
      PROVE  OutcomesOK'
  BY <1>1, <1>3, <1>4, StartSendOutcome
<1>5. ASSUME NEW n \in Nodes, AddFrame(n)
      PROVE  OutcomesOK'
  BY <1>1, <1>2, <1>3, <1>5, AddFrameOutcome
<1>6. ASSUME NEW n \in Nodes, Process(n)
      PROVE  OutcomesOK'
  BY <1>1, <1>3, <1>6, ProcessOutcome
<1>7. ASSUME NEW n \in Nodes, Lose(n) \/ Duplicate(n) \/ Intrude(n)
      PROVE  OutcomesOK'
  BY <1>2, <1>7 DEF Lose, Duplicate, Intrude
<1>8. ASSUME NEW n \in Nodes, Restart(n)
      PROVE  OutcomesOK'
  BY <1>1, <1>8, RestartOutcomes
<1>9. CASE Tick
  <2>1. \A n \in Nodes, i \in Slots :
          /\ sess'[n][i].xfer = sess[n][i].xfer /\ sess'[n][i].peer = sess[n][i].peer
          /\ IsTx(sess'[n][i]) <=> IsTx(sess[n][i])
    BY <1>1, <1>9 DEF Tick, TableOK, Session, IsTx
  <2>2. xfers' = xfers /\ \A k \in DOMAIN xfers : xfers[k].from \in Nodes
    BY <1>1, <1>9, TransferTypes DEF Tick
  <2> QED
    BY <2>1, <2>2 DEF OutcomesOK, OneOutcomePerTransfer, OnlyTxCarries
<1>10. CASE UNCHANGED vars
  BY <1>2, <1>10 DEF vars
<1> QED
  BY <1>4, <1>5, <1>6, <1>7, <1>8, <1>9, <1>10 DEF Next

(***************************************************************************)
(* Every transfer that was begun has one outcome: it is open as long as    *)
(* exactly one sending slot carries it, and no step reports it twice or    *)
(* gives its slot away without a report.                                   *)
(***************************************************************************)
THEOREM OutcomesAreSingle == Spec => []OneOutcomePerTransfer
<1>1. Init => OutcomesOK
  BY DEF Init, OutcomesOK, OneOutcomePerTransfer, OnlyTxCarries, IsTx, FreeSession
<1>2. OutcomesOK => OneOutcomePerTransfer
  BY DEF OutcomesOK
<1> QED
  BY <1>1, <1>2, NextOutcomes, SessionTablesInOrder, PTL DEF Spec

-----------------------------------------------------------------------------
(* The exchanges on a prompt bus: the frames.                              *)

\* What is packed into a frame, read back.
LEMMA FrameFields ==
  ASSUME NEW a \in Nodes, NEW b \in 0 .. DEVICE_ID_MAX, NEW sid \in 0 .. SESSION_ID_MAX,
         NEW cmd \in Commands, NEW data
  PROVE  /\ CanIdFrom(MakeFrame(a, b, sid, cmd, data).id) = a
         /\ CanIdTo(MakeFrame(a, b, sid, cmd, data).id) = b
         /\ CanIdSession(MakeFrame(a, b, sid, cmd, data).id) = sid
         /\ CanIdCommand(MakeFrame(a, b, sid, cmd, data).id) = cmd
         /\ MakeFrame(a, b, sid, cmd, data).data = data
<1>1. a \in 0 .. DEVICE_ID_MAX /\ cmd \in 0 .. 31
  BY NodesAssumption DEF DEVICE_ID_MAX, Commands, CMD_START, CMD_ABORT_WA
<1>2. MakeFrame(a, b, sid, cmd, data).id = CanIdCreate(a, b, sid, cmd)
      /\ MakeFrame(a, b, sid, cmd, data).data = data
  BY DEF MakeFrame
<1> QED
  BY <1>1, <1>2, CanIdFields

\* No node has the address of everybody.
LEMMA NodeAddress == \A m \in Nodes : m \in 0 .. DEVICE_ID_MAX /\ m # ALL
<1>1. \A m \in 0 .. DEVICE_ID_MAX - 1 : m \in 0 .. DEVICE_ID_MAX /\ m # ALL
  BY DEF DEVICE_ID_MAX, ALL
<1> QED
  BY <1>1, NodesAssumption

\* Of two different addresses one is the higher.
LEMMA BitsDiffer ==
  ASSUME NEW a \in 0 .. DEVICE_ID_MAX, NEW b \in 0 .. DEVICE_ID_MAX, a # b
  PROVE  InitiatorBit(a, b) # InitiatorBit(b, a)
BY DEF InitiatorBit, DEVICE_ID_MAX

\* The side that sends a frame is told by the low bit of the identifier.
LEMMA ExchangeFields ==
  ASSUME NEW a, NEW b, NEW sid, NEW f,
         CanIdFrom(f.id) = a, CanIdTo(f.id) = b, CanIdSession(f.id) = sid,
         a \in 0 .. DEVICE_ID_MAX, b \in 0 .. DEVICE_ID_MAX, a # b
  PROVE  /\ sid % 2 = InitiatorBit(a, b) => Forward(f) /\ Exchange(f) = <<a, b, sid>>
         /\ sid % 2 = InitiatorBit(b, a) => ~ Forward(f) /\ Exchange(f) = <<b, a, sid>>
<1>1. Forward(f) <=> sid % 2 = InitiatorBit(a, b)
  BY DEF Forward
<1>2. InitiatorBit(a, b) # InitiatorBit(b, a)
  BY BitsDiffer
<1> QED
  BY <1>1, <1>2 DEF Exchange

\* The queues after a call: a frame in them was there before, one place further
\* back when the call took the first frame, or is the one that the call sends.
Taken(n, m, out) == IF rx[n] # <<>> /\ Answer(n, out) /\ m = n THEN 1 ELSE 0

LEMMA QueueAfter ==
  ASSUME BusOK, NEW n \in Nodes, NEW out, out = <<>> \/ \E f : out = <<f>>,
         (rx[n] # <<>> /\ Answer(n, out)) \/ Emit(n, out),
         NEW m \in Nodes, NEW q \in DOMAIN rx'[m]
  PROVE  /\ q \in Nat \ {0}
         /\ \/ /\ q + Taken(n, m, out) \in DOMAIN rx[m]
               /\ rx'[m][q] = rx[m][q + Taken(n, m, out)]
            \/ /\ m # n /\ out = <<rx'[m][q]>>
               /\ q = Len(rx[m]) + 1 /\ q \notin DOMAIN rx[m]
<1>1. /\ rx[m] \in Seq(HonestFrame) /\ Len(rx[m]) \in Nat /\ DOMAIN rx[m] = 1 .. Len(rx[m])
  BY LenProperties DEF BusOK
<1>2. CASE m = n /\ rx[n] # <<>> /\ Answer(n, out)
  <2>1. rx'[m] = Tail(rx[m]) /\ Taken(n, m, out) = 1
    BY <1>2 DEF Answer, Taken
  <2>2. /\ Len(Tail(rx[m])) = Len(rx[m]) - 1 /\ Tail(rx[m]) \in Seq(HonestFrame)
        /\ \A r \in 1 .. Len(rx[m]) - 1 : Tail(rx[m])[r] = rx[m][r + 1]
    BY <1>1, <1>2, HeadTailProperties
  <2>3. q \in 1 .. Len(rx[m]) - 1
    BY <2>1, <2>2, LenProperties
  <2> QED
    BY <1>1, <2>1, <2>2, <2>3
<1>3. CASE ~ (m = n /\ rx[n] # <<>> /\ Answer(n, out)) /\ (m = n \/ out = <<>>)
  <2>1. rx'[m] \in {rx[m], rx[m] \o <<>>} /\ Taken(n, m, out) = 0
    BY <1>3 DEF Answer, Emit, Taken
  <2>2. rx'[m] = rx[m]
    BY <1>1, <2>1, ConcatEmptySeq
  <2> QED
    BY <1>1, <2>1, <2>2
<1>4. CASE m # n /\ out # <<>>
  <2>1. PICK f : out = <<f>>
    BY <1>4
  <2>2. rx'[m] = rx[m] \o <<f>> /\ Taken(n, m, out) = 0
    BY <1>4, <2>1 DEF Answer, Emit, Taken
  <2>3. rx[m] \o <<f>> = Append(rx[m], f)
    BY <1>1
  <2>4. /\ DOMAIN rx'[m] = 1 .. Len(rx[m]) + 1
        /\ \A r \in 1 .. Len(rx[m]) : rx'[m][r] = rx[m][r]
        /\ rx'[m][Len(rx[m]) + 1] = f
    BY <1>1, <2>2, <2>3
  <2> QED
    BY <1>1, <1>4, <2>1, <2>2, <2>4
<1> QED
  BY <1>2, <1>3, <1>4

\* A call that takes the last frame of exchange x, or finds none under way, and
\* puts at most one frame of x on its way, backed by what the call leaves.
LEMMA FramesAfter ==
  ASSUME BusOK, FramesBacked, OneFrameUnderWay, NEW n \in Nodes, NEW x,
         NEW out, out = <<>> \/ \E f : out = <<f>>,
         (rx[n] # <<>> /\ Answer(n, out)) \/ Emit(n, out),
         \A m \in Nodes : \A q \in Heard(m) : Exchange(rx[m][q]) = x =>
           m = n /\ q = 1 /\ rx[n] # <<>> /\ Answer(n, out),
         \A m \in Nodes : \A q \in Heard(m) : Exchange(rx[m][q]) # x =>
           Backed(rx[m][q], sess', now', got'),
         \A f : out = <<f>> =>
           /\ CanIdFrom(f.id) = n /\ CanIdTo(f.id) # ALL
           /\ CanIdTo(f.id) \in Nodes => Exchange(f) = x /\ Backed(f, sess', now', got')
  PROVE  FramesBacked' /\ OneFrameUnderWay'
<1> DEFINE Old(m, q) == /\ q + Taken(n, m, out) \in DOMAIN rx[m]
                        /\ rx'[m][q] = rx[m][q + Taken(n, m, out)]
           New(m, q) == m # n /\ out = <<rx'[m][q]>> /\ q = Len(rx[m]) + 1
<1>1. \A m \in Nodes : \A q \in DOMAIN rx'[m] : q \in Nat \ {0} /\ (Old(m, q) \/ New(m, q))
  BY QueueAfter
\* A frame that was there before belongs to another exchange.
<1>2. ASSUME NEW m \in Nodes, NEW q \in Heard(m)', Old(m, q)
      PROVE  /\ q + Taken(n, m, out) \in Heard(m)
             /\ Exchange(rx'[m][q]) # x /\ Backed(rx'[m][q], sess', now', got')
  <2>1. q \in DOMAIN rx'[m] /\ CanIdTo(rx'[m][q].id) = m
    BY DEF Heard
  <2>2. q + Taken(n, m, out) \in Heard(m)
    BY <1>2, <2>1 DEF Heard
  <2>3. q + Taken(n, m, out) = 1 => ~ (m = n /\ rx[n] # <<>> /\ Answer(n, out))
    BY <1>1, <2>1 DEF Taken
  <2>4. Exchange(rx[m][q + Taken(n, m, out)]) # x
    BY <2>2, <2>3
  <2> QED
    BY <1>2, <2>2, <2>4
<1>3. ASSUME NEW m \in Nodes, NEW q \in Heard(m)', New(m, q)
      PROVE  /\ CanIdTo(rx'[m][q].id) = m
             /\ Exchange(rx'[m][q]) = x /\ Backed(rx'[m][q], sess', now', got')
  <2>1. q \in DOMAIN rx'[m] /\ CanIdTo(rx'[m][q].id) = m
    BY DEF Heard
  <2> QED
    BY <1>3, <2>1
<1>4. ASSUME NEW m \in Nodes, NEW q \in DOMAIN rx'[m]
      PROVE  CanIdFrom(rx'[m][q].id) \in Nodes \ {m} /\ CanIdTo(rx'[m][q].id) # ALL
  <2>1. CASE Old(m, q)
    BY <2>1 DEF FramesBacked
  <2>2. CASE New(m, q)
    BY <2>2
  <2> QED
    BY <1>1, <2>1, <2>2
<1>5. ASSUME NEW m \in Nodes, NEW q \in Heard(m)'
      PROVE  Old(m, q) \/ New(m, q)
  <2>1. q \in DOMAIN rx'[m]
    BY DEF Heard
  <2> QED
    BY <1>1, <2>1
<1>6. FramesBacked'
  <2>1. ASSUME NEW m \in Nodes, NEW q \in Heard(m)' PROVE Backed(rx'[m][q], sess', now', got')
    BY <1>2, <1>3, <1>5
  <2> HIDE DEF Old, New
  <2> QED
    BY <1>4, <2>1 DEF FramesBacked
<1>7. OneFrameUnderWay'
  <2> SUFFICES ASSUME NEW m \in Nodes, NEW l \in Nodes, NEW q \in Heard(m)', NEW r \in Heard(l)',
                      Exchange(rx'[m][q]) = Exchange(rx'[l][r])
               PROVE  m = l /\ q = r
    BY DEF OneFrameUnderWay
  <2>0. q \in Nat /\ r \in Nat
    <3>1. q \in DOMAIN rx'[m] /\ r \in DOMAIN rx'[l]
      BY DEF Heard
    <3> QED
      BY <1>1, <3>1
  <2>1. CASE Old(m, q) /\ Old(l, r)
    <3>1. q + Taken(n, m, out) \in Heard(m) /\ r + Taken(n, l, out) \in Heard(l)
      BY <1>2, <2>1
    <3>2. m = l /\ q + Taken(n, m, out) = r + Taken(n, l, out)
      BY <2>1, <3>1 DEF OneFrameUnderWay
    <3> QED
      BY <2>0, <3>2 DEF Taken
  <2>2. CASE New(m, q) /\ New(l, r)
    <3>1. rx'[m][q] = rx'[l][r]
      BY <2>2
    <3>2. CanIdTo(rx'[m][q].id) = m /\ CanIdTo(rx'[l][r].id) = l
      BY <1>3, <2>2
    <3> QED
      BY <2>2, <3>1, <3>2
  <2>3. CASE (Old(m, q) /\ New(l, r)) \/ (New(m, q) /\ Old(l, r))
    BY <1>2, <1>3, <2>3
  <2>4. (Old(m, q) \/ New(m, q)) /\ (Old(l, r) \/ New(l, r))
    BY <1>5
  <2> HIDE DEF Old, New
  <2> QED
    BY <2>1, <2>2, <2>3, <2>4
<1> QED
  BY <1>6, <1>7

\* What backs a frame is not touched by a call that writes a slot of another
\* exchange, or one that is free.
SlotExchange(s) == IF IsTx(s) THEN <<s.local, s.peer, s.sid>> ELSE <<s.peer, s.local, s.sid>>

\* The payload of a session is as little handed over as before.
StillNotGiven(g, h, data) == NotGiven(g, data) => NotGiven(h, data)

Untouched(f, t, u, time, g, h, n, i) ==
  /\ Backed(f, t, time, g)
  /\ \A j \in Slots :
       /\ Exchange(f)[1] # n \/ j # i => u[Exchange(f)[1]][j] = t[Exchange(f)[1]][j]
       /\ Exchange(f)[2] # n \/ j # i => u[Exchange(f)[2]][j] = t[Exchange(f)[2]][j]
  /\ \/ u = t
     \/ ~ Busy(t[n][i])
     \/ SlotExchange(t[n][i]) # Exchange(f)
     \/ Timed(t[n][i]) /\ t[n][i].last # time
  /\ \A k \in DOMAIN g : k \in DOMAIN h /\ h[k] = g[k]
  /\ \A j \in Slots : Sends(t[Exchange(f)[1]][j], Exchange(f), time) =>
                       StillNotGiven(g, h, t[Exchange(f)[1]][j].payload)

LEMMA BackedStays ==
  ASSUME NEW f, NEW t, NEW u, NEW time, NEW g, NEW h, NEW n, NEW i,
         Untouched(f, t, u, time, g, h, n, i)
  PROVE  Backed(f, u, time, h)
<1> USE DEF Untouched
<1> DEFINE x == Exchange(f)
<1>0. x = <<x[1], x[2], x[3]>>
  BY DEF Exchange
<1>1. PICK j \in Slots :
        /\ Sends(t[x[1]][j], x, time)
        /\ IF Forward(f) THEN ForwardBacked(f, t[x[1]][j], t, x, time, g)
           ELSE AnswerBacked(f, t[x[1]][j], t, x, time, g)
  BY Zenon DEF Backed
<1> DEFINE s == t[x[1]][j]
<1> HIDE DEF x
<1>2. u[x[1]][j] = s
  <2>1. SlotExchange(s) = x /\ Busy(s) /\ s.last = time
    BY <1>0, <1>1 DEF Sends, SlotExchange, Key, IsTx, Busy
  <2>2. u = t \/ x[1] # n \/ j # i
    BY <2>1 DEF x
  <2> QED
    BY <2>2 DEF x
<1>3. ASSUME NEW data, Holds(t, x, data, time) PROVE Holds(u, x, data, time)
  <2>1. PICK l \in Slots :
          /\ t[x[2]][l].state = "RX" /\ Key(t[x[2]][l]) = x
          /\ t[x[2]][l].mode = WITH_ACK /\ t[x[2]][l].payload = data
          /\ t[x[2]][l].last = time
    BY <1>3 DEF Holds
  <2>2. SlotExchange(t[x[2]][l]) = x /\ Busy(t[x[2]][l])
    BY <1>0, <2>1 DEF SlotExchange, Key, IsTx, Busy
  <2>3. u = t \/ x[2] # n \/ l # i
    BY <2>1, <2>2 DEF x
  <2>4. u[x[2]][l] = t[x[2]][l]
    BY <2>3 DEF x
  <2> QED
    BY <2>1, <2>4 DEF Holds
<1>4. Given(g, x, s.payload) => Given(h, x, s.payload)
  BY DEF Given
<1>5. NotGiven(g, s.payload) => NotGiven(h, s.payload)
  BY <1>1 DEF StillNotGiven, x
<1> HIDE DEF s
<1>6. Forward(f) /\ ForwardBacked(f, s, t, x, time, g) => ForwardBacked(f, s, u, x, time, h)
  BY <1>3, <1>5 DEF ForwardBacked
<1>7. ~ Forward(f) /\ AnswerBacked(f, s, t, x, time, g) => AnswerBacked(f, s, u, x, time, h)
  BY <1>3, <1>4, <1>5 DEF AnswerBacked
<1> QED
  BY <1>1, <1>2, <1>6, <1>7 DEF Backed, s, x

-----------------------------------------------------------------------------
(* The exchanges on a prompt bus: slots and history.                       *)

\* What SlotsCarry says of one slot and the transfers X.
CarryOK(s, X) ==
  IsTx(s) => /\ s.state # "TX_WITHOUT_ACK" /\ s.mode = WITH_ACK /\ s.peer # ALL
             /\ s.state = "TX_WAIT_START_ACK" => s.offset = 0
             /\ s.xfer \in DOMAIN X /\ X[s.xfer].data = s.payload

TransfersOK(X) ==
  /\ Len(X) <= Len(Payloads)
  /\ \A k \in DOMAIN X : X[k].data = Payloads[k] /\ X[k].mode = WITH_ACK

LEMMA CarryParts ==
  SlotsCarry <=> TransfersOK(xfers) /\ \A n \in Nodes, i \in Slots : CarryOK(sess[n][i], xfers)
BY Zenon DEF SlotsCarry, CarryOK, TransfersOK

LEMMA CarryPartsNext ==
  TransfersOK(xfers') /\ (\A n \in Nodes, i \in Slots : CarryOK(sess'[n][i], xfers')) => SlotsCarry'
BY Zenon DEF SlotsCarry, CarryOK, TransfersOK

\* What was handed over and reported.
GivenOK == FinishedIsDelivered /\ DeliveredIntact /\ (PayloadsDiffer => DeliveredOnce)

\* Two transfers that differ in nothing but the outcome.
SameTransfers(X, Y) ==
  /\ Len(Y) = Len(X) /\ DOMAIN Y = DOMAIN X
  /\ \A k \in DOMAIN X : /\ Y[k].from = X[k].from /\ Y[k].to = X[k].to
                         /\ Y[k].mode = X[k].mode /\ Y[k].data = X[k].data

\* A call that writes one slot and begins no transfer.
LEMMA CarryAfter ==
  ASSUME SlotsCarry, TableOK, NEW n \in Nodes, NEW i \in Slots, NEW t, SetSlot(n, i, t),
         SameTransfers(xfers, xfers'), CarryOK(t, xfers)
  PROVE  SlotsCarry'
<1>1. \A m \in Nodes, j \in Slots : sess'[m][j] = IF m = n /\ j = i THEN t ELSE sess[m][j]
  BY DEF SetSlot, TableOK
<1>2. \A s : CarryOK(s, xfers) => CarryOK(s, xfers')
  BY DEF CarryOK, SameTransfers
<1>3. TransfersOK(xfers')
  BY CarryParts DEF TransfersOK, SameTransfers
<1>4. \A m \in Nodes, j \in Slots : CarryOK(sess'[m][j], xfers')
  BY <1>1, <1>2, CarryParts
<1> QED
  BY <1>3, <1>4, CarryPartsNext

\* A message that is handed over comes behind the others.
LEMMA AppendedMessage ==
  ASSUME NEW g \in Seq(Message), NEW msg, NEW h, h = Append(g, msg)
  PROVE  /\ \A k \in DOMAIN g : k \in DOMAIN h /\ h[k] = g[k]
         /\ Len(g) + 1 \in DOMAIN h /\ h[Len(g) + 1] = msg
         /\ \A k \in DOMAIN h : h[k] = msg \/ (k \in DOMAIN g /\ h[k] = g[k])
<1>1. Len(g) \in Nat /\ DOMAIN g = 1 .. Len(g)
  BY LenProperties
<1>2. /\ DOMAIN h = 1 .. Len(g) + 1 /\ h[Len(g) + 1] = msg
      /\ \A k \in 1 .. Len(g) : h[k] = g[k]
  BY <1>1
<1> QED
  BY <1>1, <1>2

\* A message handed over is the one that transfer k was started with.
LEMMA GivenAfter ==
  ASSUME HistoryOK, GivenOK, xfers' = xfers, NEW msg, got' = Append(got, msg),
         NEW k \in DOMAIN xfers,
         xfers[k].from = msg.from, xfers[k].to = msg.to, xfers[k].mode = msg.mode,
         xfers[k].data = msg.data, NotGiven(got, msg.data)
  PROVE  GivenOK' /\ \A j \in DOMAIN got : j \in DOMAIN got' /\ got'[j] = got[j]
<1>1. /\ DOMAIN got = 1 .. Len(got) /\ Len(got) \in Nat
      /\ DOMAIN got' = 1 .. Len(got) + 1 /\ got'[Len(got) + 1] = msg
      /\ \A j \in 1 .. Len(got) : got'[j] = got[j]
  BY LenProperties DEF HistoryOK
<1>2. \A j \in DOMAIN got : j \in DOMAIN got' /\ got'[j] = got[j]
  BY <1>1
<1>3. FinishedIsDelivered'
  BY <1>2 DEF GivenOK, FinishedIsDelivered
<1>4. \A j \in DOMAIN got' : got'[j] = msg \/ (j \in DOMAIN got /\ got'[j] = got[j])
  BY <1>1
<1>5. DeliveredIntact'
  BY <1>4 DEF GivenOK, DeliveredIntact
<1>6. PayloadsDiffer => DeliveredOnce'
  <2> SUFFICES ASSUME PayloadsDiffer, NEW g \in DOMAIN got', NEW h \in DOMAIN got',
                      got'[g] = got'[h]
               PROVE  g = h
    BY DEF DeliveredOnce
  <2>1. \A j \in DOMAIN got : got[j] # msg
    BY DEF NotGiven
  <2> QED
    BY <1>1, <2>1 DEF GivenOK, DeliveredOnce
<1> QED
  BY <1>2, <1>3, <1>5, <1>6 DEF GivenOK

\* An outcome is reported; a message of a transfer that is reported as finished
\* has been handed over.
LEMMA ReportedAfter ==
  ASSUME GivenOK, got' = got, SameTransfers(xfers, xfers'),
         \A k \in DOMAIN xfers :
           xfers'[k].out = "TX_FINISHED" =>
             \/ xfers[k].out = "TX_FINISHED"
             \/ \E g \in DOMAIN got : /\ got[g].at = xfers[k].to /\ got[g].from = xfers[k].from
                                      /\ got[g].data = xfers[k].data
  PROVE  GivenOK'
<1>1. FinishedIsDelivered'
  BY DEF GivenOK, FinishedIsDelivered, SameTransfers
<1>2. DeliveredIntact'
  BY DEF GivenOK, DeliveredIntact, SameTransfers
<1>3. PayloadsDiffer => DeliveredOnce'
  BY DEF GivenOK, DeliveredOnce
<1> QED
  BY <1>1, <1>2, <1>3 DEF GivenOK

\* Ending a transfer changes nothing but its outcome.
LEMMA EndedTransfers ==
  ASSUME HistoryOK, NEW s, s.xfer \in DOMAIN xfers, NEW o, EndTransfer(s, o)
  PROVE  /\ SameTransfers(xfers, xfers')
         /\ \A k \in DOMAIN xfers : xfers'[k].out = IF k = s.xfer THEN o ELSE xfers[k].out
<1> DEFINE e == s.xfer
<1>1. \A k \in DOMAIN xfers : xfers'[k] = IF k = e THEN [xfers[k] EXCEPT !.out = o] ELSE xfers[k]
  BY DEF EndTransfer
<1>2. DOMAIN xfers' = DOMAIN xfers
  BY DEF EndTransfer
<1>3. xfers \in Seq(Transfer) /\ \A k \in DOMAIN xfers : xfers[k] \in Transfer
  BY TransferTypes
<1>4. Len(xfers') = Len(xfers)
  <2>1. Len(xfers) \in Nat /\ DOMAIN xfers = 1 .. Len(xfers)
    BY <1>3, LenProperties
  <2>2. xfers' = [k \in 1 .. Len(xfers) |-> xfers'[k]]
    BY <2>1 DEF EndTransfer
  <2> QED
    BY <2>1, <2>2
<1> HIDE DEF e
<1>5. \A k \in DOMAIN xfers :
        /\ xfers'[k].from = xfers[k].from /\ xfers'[k].to = xfers[k].to
        /\ xfers'[k].mode = xfers[k].mode /\ xfers'[k].data = xfers[k].data
        /\ xfers'[k].out = IF k = e THEN o ELSE xfers[k].out
  BY <1>1, <1>3 DEF Transfer
<1> QED
  BY <1>2, <1>4, <1>5 DEF SameTransfers, e

\* With different payloads no two sending slots send the same.
LEMMA PayloadsOfSlots ==
  ASSUME HistoryOK, OutcomesOK, SlotsCarry, PayloadsDiffer,
         NEW a \in Nodes, NEW b \in Nodes, NEW i \in Slots, NEW j \in Slots,
         IsTx(sess[a][i]), IsTx(sess[b][j]), sess[a][i].payload = sess[b][j].payload
  PROVE  a = b /\ i = j
<1> DEFINE k == sess[a][i].xfer
           l == sess[b][j].xfer
<1>1. CarryOK(sess[a][i], xfers) /\ CarryOK(sess[b][j], xfers) /\ TransfersOK(xfers)
  BY CarryParts
<1>2. /\ k \in DOMAIN xfers /\ xfers[k].from = a /\ xfers[k].out = "OPEN"
      /\ l \in DOMAIN xfers /\ xfers[l].from = b
      /\ xfers[k].data = sess[a][i].payload /\ xfers[l].data = sess[b][j].payload
  BY <1>1 DEF OutcomesOK, OneOutcomePerTransfer, CarryOK
<1>3. k \in DOMAIN Payloads /\ l \in DOMAIN Payloads /\ Payloads[k] = Payloads[l]
  <2>1. Len(xfers) \in Nat /\ Len(Payloads) \in Nat
        /\ DOMAIN xfers = 1 .. Len(xfers) /\ DOMAIN Payloads = 1 .. Len(Payloads)
    BY TrafficAssumption, TransferTypes, LenProperties
  <2> HIDE DEF k, l
  <2> QED
    BY <1>1, <1>2, <2>1 DEF TransfersOK
<1>4. k = l
  BY <1>3 DEF PayloadsDiffer
<1>5. PICK h \in Slots : \A o \in Slots \ {h} : sess[a][o].xfer # k
  BY <1>2 DEF OutcomesOK, OneOutcomePerTransfer
<1> QED
  BY <1>2, <1>4, <1>5

-----------------------------------------------------------------------------
(* The exchanges on a prompt bus: what a call of add_frame finds.          *)

InOrder == TableOK /\ BusOK /\ HistoryOK /\ OutcomesOK /\ ExchangesInOrder

LEMMA InOrderParts ==
  InOrder <=> /\ TableOK /\ BusOK /\ HistoryOK /\ OutcomesOK
              /\ FramesBacked /\ OneFrameUnderWay /\ SlotsCarry /\ GivenOK
BY DEF InOrder, ExchangesInOrder, GivenOK

LEMMA ExchangesInOrderNext ==
  FramesBacked' /\ OneFrameUnderWay' /\ SlotsCarry' /\ GivenOK' => ExchangesInOrder'
BY DEF ExchangesInOrder, GivenOK

\* A frame that node n heard.
LEMMA HeardFrame ==
  ASSUME InOrder, NEW n \in Nodes, NEW q \in Heard(n), NEW f, f = rx[n][q]
  PROVE  /\ f \in HonestFrame /\ f.id \in Nat /\ f.data \in Seq(Nat)
         /\ CanIdTo(f.id) = n /\ CanIdFrom(f.id) \in Nodes \ {n}
         /\ CanIdSession(f.id) \in 0 .. SESSION_ID_MAX
         /\ Backed(f, sess, now, got)
         /\ Forward(f) => Exchange(f) = <<CanIdFrom(f.id), n, CanIdSession(f.id)>>
         /\ ~ Forward(f) => Exchange(f) = <<n, CanIdFrom(f.id), CanIdSession(f.id)>>
         /\ Exchange(f)[1] \in Nodes /\ Exchange(f)[2] \in Nodes
         /\ Exchange(f)[1] # Exchange(f)[2]
<1>1. BusOK /\ FramesBacked
  BY InOrderParts
<1>2. q \in DOMAIN rx[n] /\ CanIdTo(f.id) = n
  BY DEF Heard
<1>3. f \in HonestFrame
  BY <1>1, <1>2, ElementOfSeq, LenProperties DEF BusOK
<1>4. f.id \in Nat /\ f.data \in Seq(Nat)
  BY <1>3 DEF HonestFrame, Frame
<1>5. CanIdFrom(f.id) \in Nodes \ {n} /\ Backed(f, sess, now, got)
  BY <1>1, <1>2 DEF FramesBacked
<1>6. CanIdSession(f.id) \in 0 .. SESSION_ID_MAX
  BY <1>4, CanIdRanges
<1>7. /\ Forward(f) => Exchange(f) = <<CanIdFrom(f.id), n, CanIdSession(f.id)>>
      /\ ~ Forward(f) => Exchange(f) = <<n, CanIdFrom(f.id), CanIdSession(f.id)>>
  BY <1>2 DEF Exchange
<1> QED
  BY <1>2, <1>3, <1>4, <1>5, <1>6, <1>7

\* The first frame in the queue of n, when it is accepted: it is all that is
\* under way of its exchange.
LEMMA AcceptedFrame ==
  ASSUME InOrder, NEW n \in Nodes, rx[n] # <<>>, NEW f, f = Head(rx[n]), Accepted(n, f)
  PROVE  /\ 1 \in Heard(n) /\ rx[n][1] = f /\ CanIdCommand(f.id) \in Commands
         /\ \A m \in Nodes : \A q \in Heard(m) :
              Exchange(rx[m][q]) = Exchange(f) => m = n /\ q = 1
<1>1. BusOK /\ FramesBacked /\ OneFrameUnderWay
  BY InOrderParts
<1>2. rx[n][1] = f /\ 1 \in DOMAIN rx[n]
  <2>1. rx[n] \in Seq(HonestFrame) /\ Len(rx[n]) \in Nat /\ DOMAIN rx[n] = 1 .. Len(rx[n])
    BY <1>1, LenProperties DEF BusOK
  <2> QED
    BY <2>1, EmptySeq
<1>3. CanIdTo(f.id) = n
  <2>1. CanIdTo(f.id) \in {n, ALL} /\ CanIdTo(f.id) # ALL
    BY <1>1, <1>2 DEF FramesBacked, Accepted
  <2> QED
    BY <2>1
<1>4. 1 \in Heard(n)
  BY <1>2, <1>3 DEF Heard
<1>5. CanIdCommand(f.id) \in Commands
  <2>1. f.id \in Nat
    BY <1>2, <1>4, HeardFrame
  <2>2. CanIdCommand(f.id) \in Nat
    BY <2>1, CanIdRanges
  <2> QED
    BY <2>2 DEF Accepted, Commands, CMD_START, CMD_ABORT_WA
<1>6. ASSUME NEW m \in Nodes, NEW q \in Heard(m), Exchange(rx[m][q]) = Exchange(f)
      PROVE  m = n /\ q = 1
  BY <1>1, <1>2, <1>4, <1>6 DEF OneFrameUnderWay
<1> QED
  BY <1>2, <1>4, <1>5, <1>6

\* The frames of other exchanges stay backed when a call writes a slot that is
\* free or belongs to exchange x, and hands over no message but that of x.
LEMMA OthersStay ==
  ASSUME InOrder, NEW n \in Nodes, NEW x, NEW i \in Slots,
         sess' = sess \/ \E t : SetSlot(n, i, t),
         sess' = sess \/ ~ Busy(sess[n][i]) \/ SlotExchange(sess[n][i]) = x, now' = now,
         \/ got' = got
         \/ \E msg : /\ got' = Append(got, msg)
                     /\ \E a \in Nodes, j \in Slots : /\ IsTx(sess[a][j])
                                                      /\ SlotExchange(sess[a][j]) = x
                                                      /\ sess[a][j].payload = msg.data
  PROVE  \A m \in Nodes : \A q \in Heard(m) : Exchange(rx[m][q]) # x =>
           Backed(rx[m][q], sess', now', got')
<1>1. TableOK /\ HistoryOK /\ OutcomesOK /\ SlotsCarry
  BY InOrderParts
<1>2. \A m \in Nodes, j \in Slots : m # n \/ j # i => sess'[m][j] = sess[m][j]
  BY <1>1 DEF SetSlot, TableOK
<1>3. \A k \in DOMAIN got : k \in DOMAIN got' /\ got'[k] = got[k]
  <2>1. ASSUME NEW msg, got' = Append(got, msg)
        PROVE  \A k \in DOMAIN got : k \in DOMAIN got' /\ got'[k] = got[k]
    BY <1>1, <2>1, AppendedMessage DEF HistoryOK
  <2> QED
    BY <2>1
<1> SUFFICES ASSUME NEW m \in Nodes, NEW q \in Heard(m), Exchange(rx[m][q]) # x
             PROVE  Backed(rx[m][q], sess', now', got')
  OBVIOUS
<1> DEFINE f == rx[m][q]
           y == Exchange(f)
<1>4. y[1] \in Nodes /\ y[2] \in Nodes /\ Backed(f, sess, now, got) /\ y = <<y[1], y[2], y[3]>>
  BY HeardFrame DEF Exchange
<1>5. ASSUME NEW j \in Slots, Sends(sess[y[1]][j], y, now)
      PROVE  StillNotGiven(got, got', sess[y[1]][j].payload)
  <2> DEFINE d == sess[y[1]][j].payload
  <2>1. CASE got' = got
    BY <2>1 DEF StillNotGiven, NotGiven
  <2>2. ASSUME NEW msg, got' = Append(got, msg),
               NEW a \in Nodes, NEW l \in Slots,
               IsTx(sess[a][l]), SlotExchange(sess[a][l]) = x, sess[a][l].payload = msg.data
        PROVE  StillNotGiven(got, got', d)
    <3>1. IsTx(sess[y[1]][j]) /\ SlotExchange(sess[y[1]][j]) = y
      BY <1>4, <1>5 DEF Sends, SlotExchange, Key
    <3>2. PayloadsDiffer => d # msg.data
      <4> SUFFICES ASSUME PayloadsDiffer, d = msg.data PROVE FALSE
        OBVIOUS
      <4>1. y[1] = a /\ j = l
        BY <1>1, <1>4, <2>2, <3>1, PayloadsOfSlots
      <4> QED
        BY <2>2, <3>1, <4>1
    <3>3. \A k \in DOMAIN got' : got'[k] = msg \/ (k \in DOMAIN got /\ got'[k] = got[k])
      BY <1>1, <2>2, LenProperties DEF HistoryOK
    <3> HIDE DEF d
    <3> QED
      BY <3>2, <3>3 DEF StillNotGiven, NotGiven
  <2> QED
    BY <2>1, <2>2
<1>6. sess' = sess \/ ~ Busy(sess[n][i]) \/ SlotExchange(sess[n][i]) # y
  OBVIOUS
<1>7. \A j \in Slots : /\ y[1] # n \/ j # i => sess'[y[1]][j] = sess[y[1]][j]
                       /\ y[2] # n \/ j # i => sess'[y[2]][j] = sess[y[2]][j]
  BY <1>2, <1>4
<1>8. Backed(f, sess', now, got')
  <2>1. \/ sess' = sess
        \/ ~ Busy(sess[n][i])
        \/ SlotExchange(sess[n][i]) # Exchange(f)
        \/ Timed(sess[n][i]) /\ sess[n][i].last # now
    BY <1>6
  <2>2. Backed(f, sess, now, got)
    BY <1>4
  <2> HIDE DEF f
  <2>3. Untouched(f, sess, sess', now, got, got', n, i)
    BY <1>3, <1>5, <1>7, <2>1, <2>2 DEF Untouched
  <2> QED
    BY <2>3, BackedStays
<1> QED
  BY <1>8

-----------------------------------------------------------------------------
(* The exchanges on a prompt bus: what a call leaves.                      *)

\* A call of the receiving side: it writes the slot of the exchange, or a free
\* one, and what it answers is backed by what it leaves.
LEMMA ResponderKeeps ==
  ASSUME InOrder, NEW n \in Nodes, rx[n] # <<>>, NEW f, f = Head(rx[n]), Accepted(n, f),
         Forward(f), NEW x, x = Exchange(f), NEW j \in Slots, Sends(sess[x[1]][j], x, now),
         NEW i \in Slots, sess' = sess \/ ~ Busy(sess[n][i]) \/ SlotExchange(sess[n][i]) = x,
         sess' = sess \/ \E t : SetSlot(n, i, t) /\ ~ IsTx(t),
         NEW cmd \in {CMD_ACK, CMD_NACK, CMD_ABORT_WA}, NEW F,
         F = MakeFrame(n, CanIdFrom(f.id), CanIdSession(f.id), cmd, <<>>),
         NEW out, out = <<>> \/ out = <<F>>, Answer(n, out),
         out = <<F>> => AnswerBacked(F, sess[x[1]][j], sess', x, now', got'),
         xfers' = xfers, now' = now,
         \/ got' = got
         \/ /\ NotGiven(got, sess[x[1]][j].payload)
            /\ got' = Append(got, [at |-> n, from |-> x[1], to |-> n, mode |-> WITH_ACK,
                                   data |-> sess[x[1]][j].payload])
  PROVE  ExchangesInOrder'
<1> DEFINE a == x[1]
           sid == CanIdSession(f.id)
           s == sess[a][j]
           msg == [at |-> n, from |-> a, to |-> n, mode |-> WITH_ACK, data |-> s.payload]
<1>1. /\ TableOK /\ BusOK /\ HistoryOK /\ OutcomesOK
      /\ FramesBacked /\ OneFrameUnderWay /\ SlotsCarry /\ GivenOK
  BY InOrderParts
<1>2. /\ 1 \in Heard(n) /\ rx[n][1] = f
      /\ \A m \in Nodes : \A q \in Heard(m) : Exchange(rx[m][q]) = x => m = n /\ q = 1
  BY AcceptedFrame
<1>3. /\ x = <<CanIdFrom(f.id), n, sid>> /\ a = CanIdFrom(f.id) /\ a \in Nodes /\ a # n
      /\ sid \in 0 .. SESSION_ID_MAX
  BY <1>2, HeardFrame
<1>4. a \in 0 .. DEVICE_ID_MAX /\ n \in 0 .. DEVICE_ID_MAX /\ a # ALL
  BY <1>3, NodeAddress
<1>5. /\ CanIdFrom(F.id) = n /\ CanIdTo(F.id) = a /\ CanIdSession(F.id) = sid
      /\ ~ Forward(F) /\ Exchange(F) = x
  <2>1. cmd \in Commands
    BY DEF Commands, CMD_ACK, CMD_NACK, CMD_ABORT_WA, CMD_START
  <2>2. CanIdFrom(F.id) = n /\ CanIdTo(F.id) = a /\ CanIdSession(F.id) = sid
    BY <1>3, <1>4, <2>1, FrameFields
  <2>3. sid % 2 = InitiatorBit(a, n)
    <3>1. CanIdTo(f.id) = n
      BY <1>2, HeardFrame
    <3> QED
      BY <1>3, <3>1 DEF Forward
  <2> QED
    BY <1>3, <1>4, <2>2, <2>3, ExchangeFields
<1>6. sess'[a][j] = s
  BY <1>1, <1>3 DEF SetSlot, TableOK
<1>7. out = <<F>> => Backed(F, sess', now', got')
  BY <1>3, <1>5, <1>6 DEF Backed
<1>8. IsTx(s) /\ SlotExchange(s) = x
  BY <1>3, SMTT(30) DEF Sends, SlotExchange, Key
<1>9. \A m \in Nodes : \A q \in Heard(m) : Exchange(rx[m][q]) # x =>
        Backed(rx[m][q], sess', now', got')
  <2>1. \/ got' = got
        \/ \E g : /\ got' = Append(got, g)
                  /\ \E b \in Nodes, l \in Slots : /\ IsTx(sess[b][l])
                                                   /\ SlotExchange(sess[b][l]) = x
                                                   /\ sess[b][l].payload = g.data
    <3>1. msg.data = s.payload
      OBVIOUS
    <3>2. got' = got \/ got' = Append(got, msg)
      OBVIOUS
    <3> HIDE DEF msg
    <3> QED
      BY <1>3, <1>8, <3>1, <3>2
  <2>2. sess' = sess \/ \E t : SetSlot(n, i, t)
    OBVIOUS
  <2> QED
    BY <2>1, <2>2, OthersStay
<1>10. FramesBacked' /\ OneFrameUnderWay'
  <2>1. out = <<>> \/ \E g : out = <<g>>
    OBVIOUS
  <2>2. \A g : out = <<g>> =>
          /\ CanIdFrom(g.id) = n /\ CanIdTo(g.id) # ALL
          /\ CanIdTo(g.id) \in Nodes => Exchange(g) = x /\ Backed(g, sess', now', got')
    <3> SUFFICES ASSUME NEW g, out = <<g>>
                 PROVE  /\ CanIdFrom(g.id) = n /\ CanIdTo(g.id) # ALL
                        /\ CanIdTo(g.id) \in Nodes => Exchange(g) = x /\ Backed(g, sess', now', got')
      OBVIOUS
    <3>1. g = F /\ out = <<F>>
      OBVIOUS
    <3> QED
      BY <1>4, <1>5, <1>7, <3>1
  <2>3. \A m \in Nodes : \A q \in Heard(m) : Exchange(rx[m][q]) = x =>
          m = n /\ q = 1 /\ rx[n] # <<>> /\ Answer(n, out)
    BY <1>2
  <2> HIDE DEF a, s, sid
  <2> QED
    BY <1>1, <1>9, <2>1, <2>2, <2>3, FramesAfter
<1>11. SlotsCarry'
  <2>1. CASE sess' = sess
    BY <1>1, <2>1 DEF SlotsCarry
  <2>2. ASSUME NEW t, SetSlot(n, i, t), ~ IsTx(t) PROVE SlotsCarry'
    <3>1. SameTransfers(xfers, xfers') /\ CarryOK(t, xfers)
      BY <2>2 DEF SameTransfers, CarryOK
    <3> QED
      BY <1>1, <2>2, <3>1, CarryAfter
  <2> QED
    BY <2>1, <2>2
<1>12. GivenOK'
  <2>1. CASE got' = got
    BY <1>1, <2>1 DEF GivenOK, FinishedIsDelivered, DeliveredIntact, DeliveredOnce
  <2>2. CASE NotGiven(got, s.payload) /\ got' = Append(got, msg)
    <3>1. CarryOK(s, xfers) /\ TransfersOK(xfers)
      BY <1>1, <1>3, CarryParts
    <3>2. /\ s.xfer \in DOMAIN xfers /\ xfers[s.xfer].from = a /\ xfers[s.xfer].to = n
          /\ xfers[s.xfer].mode = WITH_ACK /\ xfers[s.xfer].data = s.payload
      <4>1. s.peer = n
        BY <1>3, SMTT(30) DEF Sends, Key
      <4> QED
        BY <1>1, <1>3, <1>8, <3>1, <4>1, SMT, ZenonT(40)
        DEF CarryOK, TransfersOK, OutcomesOK, OneOutcomePerTransfer
    <3>3. msg.from = a /\ msg.to = n /\ msg.mode = WITH_ACK /\ msg.data = s.payload
      OBVIOUS
    <3> HIDE DEF msg, s
    <3> QED
      BY <1>1, <2>2, <3>2, <3>3, GivenAfter
  <2> QED
    BY <2>1, <2>2
<1> QED
  BY <1>10, <1>11, <1>12, ExchangesInOrderNext

\* A call of the sending side that goes on with the transfer.
LEMMA InitiatorGoesOn ==
  ASSUME InOrder, NEW n \in Nodes, rx[n] # <<>>, NEW f, f = Head(rx[n]), Accepted(n, f),
         ~ Forward(f), NEW x, x = Exchange(f), NEW i \in Slots, Sends(sess[n][i], x, now),
         NEW t, SetSlot(n, i, t), IsTx(t), Key(t) = Key(sess[n][i]), t.last = now,
         t.state # "TX_WITHOUT_ACK", t.state # "TX_WAIT_START_ACK",
         t.xfer = sess[n][i].xfer, t.mode = sess[n][i].mode, t.payload = sess[n][i].payload,
         NEW cmd \in {CMD_START, CMD_DATA, CMD_END}, NEW data, NEW F,
         F = MakeFrame(n, CanIdFrom(f.id), CanIdSession(f.id), cmd, data),
         Answer(n, <<F>>), ForwardBacked(F, t, sess', x, now, got),
         UNCHANGED <<xfers, now, got>>
  PROVE  ExchangesInOrder'
<1> DEFINE b == x[2]
           sid == CanIdSession(f.id)
           s == sess[n][i]
<1>1. /\ TableOK /\ BusOK /\ HistoryOK /\ OutcomesOK
      /\ FramesBacked /\ OneFrameUnderWay /\ SlotsCarry /\ GivenOK
  BY InOrderParts
<1>2. /\ 1 \in Heard(n) /\ rx[n][1] = f
      /\ \A m \in Nodes : \A q \in Heard(m) : Exchange(rx[m][q]) = x => m = n /\ q = 1
  BY AcceptedFrame
<1>3. /\ x = <<n, CanIdFrom(f.id), sid>> /\ b = CanIdFrom(f.id) /\ b \in Nodes /\ b # n
      /\ sid \in 0 .. SESSION_ID_MAX
  BY <1>2, HeardFrame
<1>4. b \in 0 .. DEVICE_ID_MAX /\ n \in 0 .. DEVICE_ID_MAX /\ b # ALL
  BY <1>3, NodeAddress
<1>5. /\ IsTx(s) /\ SlotExchange(s) = x /\ Key(s) = <<b, n, sid>>
      /\ sid % 2 = InitiatorBit(n, b)
  <2>1. IsTx(s) /\ Key(s) = <<b, n, sid>>
    BY <1>3 DEF Sends
  <2>2. RoleOK(n, s)
    BY <1>1 DEF TableOK, SlotOK
  <2> QED
    BY <1>3, <2>1, <2>2 DEF SlotExchange, Key, RoleOK
<1>6. /\ CanIdFrom(F.id) = n /\ CanIdTo(F.id) = b /\ Forward(F) /\ Exchange(F) = x
  <2>1. cmd \in Commands
    BY DEF Commands, CMD_START, CMD_DATA, CMD_END, CMD_ABORT_WA
  <2>2. CanIdFrom(F.id) = n /\ CanIdTo(F.id) = b /\ CanIdSession(F.id) = sid
    BY <1>3, <1>4, <2>1, FrameFields
  <2> QED
    BY <1>3, <1>4, <1>5, <2>2, ExchangeFields
<1>7. Backed(F, sess', now', got')
  <2>1. sess'[n][i] = t
    BY <1>1 DEF SetSlot, TableOK
  <2>2. Sends(t, x, now)
    BY <1>5, <1>3 DEF Sends
  <2>3. x[1] = n /\ now' = now /\ got' = got
    BY <1>3
  <2>4. ForwardBacked(F, sess'[n][i], sess', x, now, got)
    BY <2>1
  <2> HIDE DEF b, sid, s
  <2> QED
    BY <1>6, <2>1, <2>2, <2>3, <2>4 DEF Backed
<1>8. \A m \in Nodes : \A q \in Heard(m) : Exchange(rx[m][q]) # x =>
        Backed(rx[m][q], sess', now', got')
  <2>1. sess' = sess \/ \E u : SetSlot(n, i, u)
    OBVIOUS
  <2>2. got' = got /\ now' = now
    OBVIOUS
  <2> QED
    BY <1>5, <2>1, <2>2, OthersStay
<1>9. FramesBacked' /\ OneFrameUnderWay'
  <2> DEFINE out == <<F>>
  <2>1. out = <<>> \/ \E g : out = <<g>>
    OBVIOUS
  <2>2. \A g : out = <<g>> =>
          /\ CanIdFrom(g.id) = n /\ CanIdTo(g.id) # ALL
          /\ CanIdTo(g.id) \in Nodes => Exchange(g) = x /\ Backed(g, sess', now', got')
    <3> SUFFICES ASSUME NEW g, out = <<g>>
                 PROVE  /\ CanIdFrom(g.id) = n /\ CanIdTo(g.id) # ALL
                        /\ CanIdTo(g.id) \in Nodes => Exchange(g) = x /\ Backed(g, sess', now', got')
      OBVIOUS
    <3>1. g = F
      OBVIOUS
    <3> QED
      BY <1>4, <1>6, <1>7, <3>1
  <2>3. \A m \in Nodes : \A q \in Heard(m) : Exchange(rx[m][q]) = x =>
          m = n /\ q = 1 /\ rx[n] # <<>> /\ Answer(n, out)
    BY <1>2
  <2>4. rx[n] # <<>> /\ Answer(n, out)
    OBVIOUS
  <2> HIDE DEF b, s, sid, out
  <2> QED
    BY <1>1, <1>8, <2>1, <2>2, <2>3, <2>4, FramesAfter
<1>10. SlotsCarry'
  <2>1. SameTransfers(xfers, xfers')
    BY DEF SameTransfers
  <2>2. CarryOK(s, xfers)
    BY <1>1, CarryParts
  <2>3. CarryOK(t, xfers)
    BY <1>5, <2>2 DEF CarryOK, Key
  <2> QED
    BY <1>1, <2>1, <2>3, CarryAfter
<1>11. GivenOK'
  BY <1>1 DEF GivenOK, FinishedIsDelivered, DeliveredIntact, DeliveredOnce
<1> QED
  BY <1>9, <1>10, <1>11, ExchangesInOrderNext

\* A call of the sending side that ends the transfer.
LEMMA InitiatorEnds ==
  ASSUME InOrder, NEW n \in Nodes, rx[n] # <<>>, NEW f, f = Head(rx[n]), Accepted(n, f),
         ~ Forward(f), NEW x, x = Exchange(f), NEW i \in Slots, Sends(sess[n][i], x, now),
         Release(n, i), Answer(n, <<>>), NEW o, EndTransfer(sess[n][i], o),
         o = "TX_FINISHED" => Given(got, x, sess[n][i].payload),
         UNCHANGED <<now, got>>
  PROVE  ExchangesInOrder'
<1> DEFINE s == sess[n][i]
<1>1. /\ TableOK /\ BusOK /\ HistoryOK /\ OutcomesOK
      /\ FramesBacked /\ OneFrameUnderWay /\ SlotsCarry /\ GivenOK
  BY InOrderParts
<1>2. /\ 1 \in Heard(n) /\ rx[n][1] = f
      /\ \A m \in Nodes : \A q \in Heard(m) : Exchange(rx[m][q]) = x => m = n /\ q = 1
  BY AcceptedFrame
<1>3. x[1] = n /\ x = <<x[1], x[2], x[3]>>
  BY <1>2, HeardFrame
<1>4. /\ IsTx(s) /\ SlotExchange(s) = x /\ s.peer = x[2]
  BY <1>3 DEF Sends, SlotExchange, Key
<1>5. FramesBacked' /\ OneFrameUnderWay'
  <2>1. \A m \in Nodes : \A q \in Heard(m) : Exchange(rx[m][q]) # x =>
          Backed(rx[m][q], sess', now', got')
    <3>1. sess' = sess \/ \E u : SetSlot(n, i, u)
      BY DEF Release
    <3>2. got' = got /\ now' = now
      OBVIOUS
    <3> QED
      BY <1>4, <3>1, <3>2, OthersStay
  <2> DEFINE out == <<>>
  <2>2. out = <<>> /\ ~ \E g : out = <<g>>
    OBVIOUS
  <2>3. \A m \in Nodes : \A q \in Heard(m) : Exchange(rx[m][q]) = x =>
          m = n /\ q = 1 /\ rx[n] # <<>> /\ Answer(n, out)
    BY <1>2
  <2>4. rx[n] # <<>> /\ Answer(n, out)
    OBVIOUS
  <2> HIDE DEF out
  <2> QED
    BY <1>1, <2>1, <2>2, <2>3, <2>4, FramesAfter
<1>6. /\ s.xfer \in DOMAIN xfers /\ xfers[s.xfer].from = n /\ xfers[s.xfer].to = x[2]
      /\ xfers[s.xfer].data = s.payload
  <2>1. CarryOK(s, xfers)
    BY <1>1, CarryParts
  <2> QED
    BY <1>1, <1>4, <2>1 DEF CarryOK, OutcomesOK, OneOutcomePerTransfer
<1>7. /\ SameTransfers(xfers, xfers')
      /\ \A k \in DOMAIN xfers : xfers'[k].out = IF k = s.xfer THEN o ELSE xfers[k].out
  BY <1>1, <1>6, EndedTransfers
<1>8. SlotsCarry'
  <2>1. CarryOK(FreeSession, xfers)
    BY DEF CarryOK, IsTx, FreeSession
  <2> QED
    BY <1>1, <1>7, <2>1, CarryAfter DEF Release
<1>9. GivenOK'
  <2> SUFFICES ASSUME NEW k \in DOMAIN xfers, xfers'[k].out = "TX_FINISHED"
               PROVE  \/ xfers[k].out = "TX_FINISHED"
                      \/ \E g \in DOMAIN got : /\ got[g].at = xfers[k].to
                                               /\ got[g].from = xfers[k].from
                                               /\ got[g].data = xfers[k].data
    BY <1>1, <1>7, ReportedAfter
  <2>1. CASE k # s.xfer
    BY <1>7, <2>1
  <2>2. CASE k = s.xfer
    <3>1. PICK g \in DOMAIN got :
            got[g] = [at |-> x[2], from |-> x[1], to |-> x[2], mode |-> WITH_ACK,
                      data |-> s.payload]
      BY <1>7, <2>2 DEF Given
    <3>2. got[g].at = x[2] /\ got[g].from = x[1] /\ got[g].data = s.payload
      BY <3>1
    <3> HIDE DEF s
    <3> QED
      BY <1>3, <1>6, <2>2, <3>2
  <2> QED
    BY <2>1, <2>2
<1> QED
  BY <1>5, <1>8, <1>9, ExchangesInOrderNext

-----------------------------------------------------------------------------
(* The exchanges on a prompt bus: calls of the receiving side.             *)

\* A frame of the side that started the transfer, and the slots it is matched
\* against: they receive.
LEMMA ForwardFrame ==
  ASSUME InOrder, NEW n \in Nodes, rx[n] # <<>>, NEW f, f = Head(rx[n]), Accepted(n, f),
         Forward(f), NEW x, x = Exchange(f)
  PROVE  /\ x = FrameKey(f) /\ x = <<CanIdFrom(f.id), n, CanIdSession(f.id)>>
         /\ x[1] \in Nodes \ {n} /\ CanIdSession(f.id) \in 0 .. SESSION_ID_MAX
         /\ \E j \in Slots : /\ Sends(sess[x[1]][j], x, now)
                             /\ ForwardBacked(f, sess[x[1]][j], sess, x, now, got)
         /\ \A i \in Matching(n, x) :
              sess[n][i].state = "RX" /\ Key(sess[n][i]) = x /\ SlotExchange(sess[n][i]) = x
<1>1. TableOK
  BY InOrderParts
<1>2. 1 \in Heard(n) /\ rx[n][1] = f
  BY AcceptedFrame
<1> DEFINE a == CanIdFrom(f.id)
           sid == CanIdSession(f.id)
<1>3. /\ CanIdTo(f.id) = n /\ a \in Nodes \ {n} /\ sid \in 0 .. SESSION_ID_MAX
      /\ x = <<a, n, sid>> /\ Backed(f, sess, now, got)
  BY <1>2, HeardFrame
<1>4. sid % 2 = InitiatorBit(a, n)
  BY <1>3 DEF Forward
<1>5. \E j \in Slots : /\ Sends(sess[x[1]][j], x, now)
                       /\ ForwardBacked(f, sess[x[1]][j], sess, x, now, got)
  BY <1>3 DEF Backed
<1>6. ASSUME NEW i \in Matching(n, x)
      PROVE  sess[n][i].state = "RX" /\ Key(sess[n][i]) = x /\ SlotExchange(sess[n][i]) = x
  <2> DEFINE s == sess[n][i]
  <2>1. i \in Slots /\ Busy(s) /\ Key(s) = <<a, n, sid>>
    BY <1>3 DEF Matching
  <2>2. RoleOK(n, s)
    BY <1>1, <2>1 DEF TableOK, SlotOK
  <2>3. InitiatorBit(a, n) # InitiatorBit(n, a)
    BY <1>3, NodeAddress, BitsDiffer
  <2>4. ~ IsTx(s)
    BY <1>4, <2>1, <2>2, <2>3 DEF RoleOK, Key
  <2> QED
    BY <1>3, <2>1, <2>4 DEF IsTx, Busy, SlotExchange, Key
<1> QED
  BY <1>3, <1>5, <1>6, SMTT(30) DEF FrameKey

\* What backs a frame of the initiator, by its command.
LEMMA ForwardCases ==
  ASSUME NEW f, NEW s, NEW t, NEW x, NEW time, NEW g, ForwardBacked(f, s, t, x, time, g)
  PROVE  /\ NotGiven(g, s.payload)
         /\ CanIdCommand(f.id) \in {CMD_START, CMD_DATA, CMD_END}
         /\ CanIdCommand(f.id) = CMD_START => s.state = "TX_WAIT_START_ACK"
         /\ CanIdCommand(f.id) = CMD_DATA =>
              /\ s.state = "TX_WAIT_DATA_ACK"
              /\ f.data = SubSeq(s.payload, s.offset + 1, s.offset + s.lastlen)
              /\ Holds(t, x, SubSeq(s.payload, 1, s.offset), time)
         /\ CanIdCommand(f.id) = CMD_END =>
              s.state = "TX_WAIT_END_ACK" /\ Holds(t, x, s.payload, time)
<1>1. CMD_START # CMD_DATA /\ CMD_START # CMD_END /\ CMD_DATA # CMD_END
  BY DEF CMD_START, CMD_DATA, CMD_END
<1> QED
  BY <1>1, Zenon DEF ForwardBacked

\* The session that holds what was received so far is the one that is found.
LEMMA HeldInSlot ==
  ASSUME TableOK, NEW n \in Nodes, NEW i \in Slots, NEW r, r = sess[n][i], Busy(r),
         NEW a, NEW sid, Key(r) = <<a, n, sid>>,
         NEW data, NEW time, Holds(sess, <<a, n, sid>>, data, time)
  PROVE  r.payload = data /\ r.mode = WITH_ACK
<1> DEFINE x == <<a, n, sid>>
<1>1. PICK l \in Slots : /\ sess[n][l].state = "RX" /\ Key(sess[n][l]) = x
                         /\ sess[n][l].mode = WITH_ACK /\ sess[n][l].payload = data
  BY DEF Holds
<1>2. l = i
  BY <1>1 DEF TableOK, UniqueKeys, Busy
<1> QED
  BY <1>1, <1>2

\* The command of an answer is read back.
LEMMA AnswerCommand ==
  ASSUME NEW n \in Nodes, NEW a \in Nodes, NEW sid \in 0 .. SESSION_ID_MAX,
         NEW cmd \in {CMD_ACK, CMD_NACK, CMD_ABORT_WA}
  PROVE  CanIdCommand(MakeFrame(n, a, sid, cmd, <<>>).id) = cmd
<1>1. cmd \in Commands /\ a \in 0 .. DEVICE_ID_MAX
  BY NodeAddress DEF Commands, CMD_ACK, CMD_NACK, CMD_ABORT_WA, CMD_START
<1> QED
  BY <1>1, FrameFields

\* START of an acknowledged transfer.
LEMMA ResponderStarts ==
  ASSUME InOrder, NEW n \in Nodes, rx[n] # <<>>, NEW f, f = Head(rx[n]), Accepted(n, f),
         Forward(f), NEW x, x = Exchange(f), NEW i \in Slots,
         ~ Busy(sess[n][i]) \/ SlotExchange(sess[n][i]) = x,
         NEW r \in Session, r.state = "RX", Key(r) = x,
         CanIdCommand(f.id) = CMD_START, RxStart(n, i, r, CMD_START), UNCHANGED <<now, xfers>>
  PROVE  ExchangesInOrder'
<1> DEFINE a == CanIdFrom(f.id)
           sid == CanIdSession(f.id)
           F == MakeFrame(n, a, sid, CMD_ACK, <<>>)
           t == [r EXCEPT !.payload = <<>>, !.cap = 0, !.offset = 0, !.mode = WITH_ACK,
                          !.last = now, !.age = 0]
<1>1. /\ x = <<a, n, sid>> /\ a \in Nodes \ {n} /\ sid \in 0 .. SESSION_ID_MAX
      /\ r.peer = a /\ r.local = n /\ r.sid = sid
  BY ForwardFrame DEF Key
<1>2. PICK j \in Slots : /\ Sends(sess[x[1]][j], x, now)
                         /\ ForwardBacked(f, sess[x[1]][j], sess, x, now, got)
  BY ForwardFrame
<1> DEFINE s == sess[x[1]][j]
<1>3. NotGiven(got, s.payload) /\ s.state = "TX_WAIT_START_ACK"
  BY <1>2, ForwardCases, Zenon
<1>4. n # ALL
  BY NodeAddress
<1>5. SetSlot(n, i, t) /\ Answer(n, <<F>>) /\ got' = got
  BY <1>1, <1>4 DEF RxStart, To
<1>6. /\ t.state = "RX" /\ Key(t) = x /\ t.mode = WITH_ACK /\ t.payload = <<>> /\ t.last = now
      /\ ~ IsTx(t)
  BY DEF Session, Key, IsTx
<1> HIDE DEF t
<1>7. sess'[n][i] = t
  BY <1>5, InOrderParts DEF SetSlot, TableOK
<1>8. Holds(sess', x, <<>>, now')
  BY <1>1, <1>6, <1>7, SMTT(30) DEF Holds
<1>9. CanIdCommand(F.id) = CMD_ACK
  BY <1>1, AnswerCommand
<1>10. AnswerBacked(F, s, sess', x, now', got')
  BY <1>3, <1>5, <1>8, <1>9 DEF AnswerBacked
<1>11. F = MakeFrame(n, CanIdFrom(f.id), CanIdSession(f.id), CMD_ACK, <<>>)
  OBVIOUS
<1> HIDE DEF F, s, a, sid
<1> QED
  BY <1>2, <1>5, <1>6, <1>10, <1>11, ResponderKeeps DEF s

\* What is stored with the next chunk of a payload.
LEMMA ChunkStored ==
  ASSUME NEW p \in Seq(Nat), NEW k \in Nat, NEW l \in Nat, k + l <= Len(p)
  PROVE  SubSeq(p, 1, k) \o SubSeq(p, k + 1, k + l) = SubSeq(p, 1, k + l)
<1>1. /\ Len(p) \in Nat /\ 1 \in 1 .. Len(p) + 1 /\ k \in 1 - 1 .. Len(p)
      /\ k + l \in k .. Len(p)
  BY LenProperties
<1> QED
  BY <1>1, ConcatAdjacentSubSeq

\* DATA: the chunk is stored and acknowledged, or the session goes and the
\* sender is told.
LEMMA ResponderStores ==
  ASSUME InOrder, NEW n \in Nodes, rx[n] # <<>>, NEW f, f = Head(rx[n]), Accepted(n, f),
         Forward(f), NEW x, x = Exchange(f), NEW i \in Slots, NEW r, r = sess[n][i],
         r.state = "RX", Key(r) = x, CanIdCommand(f.id) = CMD_DATA,
         RxData(n, i, r, CMD_DATA, f.data) \/ RxDataFails(n, i, r, CMD_DATA, f.data),
         UNCHANGED <<now, xfers>>
  PROVE  ExchangesInOrder'
<1> DEFINE a == CanIdFrom(f.id)
           sid == CanIdSession(f.id)
           t == [Appended(n, r, f.data) EXCEPT !.last = now, !.age = 0]
<1>1. /\ x = <<a, n, sid>> /\ a \in Nodes \ {n} /\ sid \in 0 .. SESSION_ID_MAX
      /\ r.peer = a /\ r.local = n /\ r.sid = sid /\ SlotExchange(r) = x /\ Busy(r)
  BY ForwardFrame DEF Key, SlotExchange, IsTx, Busy
<1>2. PICK j \in Slots : /\ Sends(sess[x[1]][j], x, now)
                         /\ ForwardBacked(f, sess[x[1]][j], sess, x, now, got)
  BY ForwardFrame
<1> DEFINE s == sess[x[1]][j]
<1>3. /\ NotGiven(got, s.payload) /\ s.state = "TX_WAIT_DATA_ACK"
      /\ f.data = SubSeq(s.payload, s.offset + 1, s.offset + s.lastlen)
      /\ Holds(sess, x, SubSeq(s.payload, 1, s.offset), now)
  BY <1>2, ForwardCases, Zenon
<1>4. TableOK /\ n # ALL /\ r \in Session /\ got' = got
  BY InOrderParts, NodeAddress DEF TableOK, RxData, RxDataFails
<1>5. r.payload = SubSeq(s.payload, 1, s.offset) /\ r.mode = WITH_ACK
  <2> DEFINE d == SubSeq(s.payload, 1, s.offset)
  <2>1. Busy(r) /\ Key(r) = <<a, n, sid>> /\ TableOK
    BY <1>1, <1>4
  <2>2. Holds(sess, <<a, n, sid>>, d, now)
    BY <1>1, <1>3
  <2> HIDE DEF d, a, sid
  <2>3. r.payload = d /\ r.mode = WITH_ACK
    BY <2>1, <2>2, HeldInSlot
  <2> QED
    BY <2>3 DEF d
<1>6. r.payload \o f.data = SubSeq(s.payload, 1, s.offset + s.lastlen)
  <2>1. SlotOK(x[1], s)
    BY <1>1, <1>4 DEF TableOK
  <2>2. /\ s.payload \in Seq(Nat) /\ s.offset \in Nat /\ s.lastlen \in Nat
        /\ s.offset + s.lastlen <= Len(s.payload)
    BY <1>3, <2>1 DEF SlotOK, ChunkOK, Session
  <2> QED
    BY <1>3, <1>5, <2>2, ChunkStored
<1>7. CASE RxData(n, i, r, CMD_DATA, f.data)
  <2> DEFINE F == MakeFrame(n, a, sid, CMD_ACK, <<>>)
  <2>1. SetSlot(n, i, t) /\ Answer(n, <<F>>)
    BY <1>1, <1>7 DEF RxData, To
  <2>2. /\ t.state = "RX" /\ Key(t) = x /\ t.mode = WITH_ACK
        /\ t.payload = r.payload \o f.data /\ t.last = now /\ ~ IsTx(t)
    <3>1. /\ t.state = r.state /\ t.peer = r.peer /\ t.local = r.local /\ t.sid = r.sid
          /\ t.mode = r.mode /\ t.payload = r.payload \o f.data /\ t.last = now
      BY <1>4 DEF Session, Appended
    <3> HIDE DEF t
    <3> QED
      BY <1>5, <3>1 DEF Key, IsTx
  <2> HIDE DEF t
  <2>3. sess'[n][i] = t
    BY <1>4, <2>1 DEF SetSlot, TableOK
  <2>4. Holds(sess', x, r.payload \o f.data, now')
    <3> DEFINE d == r.payload \o f.data
    <3>1. x[2] = n /\ now' = now /\ t.payload = d
      BY <1>1, <2>2, SMTT(30)
    <3> HIDE DEF d
    <3>2. Holds(sess', x, d, now')
      BY <2>2, <2>3, <3>1 DEF Holds
    <3> QED
      BY <3>2 DEF d
  <2>5. CanIdCommand(F.id) = CMD_ACK
    BY <1>1, AnswerCommand
  <2>6. AnswerBacked(F, s, sess', x, now', got')
    BY <1>3, <1>4, <1>6, <2>4, <2>5 DEF AnswerBacked
  <2>7. F = MakeFrame(n, CanIdFrom(f.id), CanIdSession(f.id), CMD_ACK, <<>>)
    OBVIOUS
  <2> HIDE DEF F, s, a, sid
  <2> QED
    BY <1>1, <1>2, <1>4, <2>1, <2>2, <2>6, <2>7, ResponderKeeps DEF s
<1>8. CASE RxDataFails(n, i, r, CMD_DATA, f.data)
  <2> DEFINE F == MakeFrame(n, a, sid, CMD_ABORT_WA, <<>>)
  <2>1. SetSlot(n, i, FreeSession) /\ Answer(n, <<F>>) /\ ~ IsTx(FreeSession)
    BY <1>1, <1>8 DEF RxDataFails, Release, To, IsTx, FreeSession
  <2>2. AnswerBacked(F, s, sess', x, now', got')
    BY <1>1, AnswerCommand DEF AnswerBacked
  <2>3. F = MakeFrame(n, CanIdFrom(f.id), CanIdSession(f.id), CMD_ABORT_WA, <<>>)
    OBVIOUS
  <2> HIDE DEF F, s, a, sid
  <2> QED
    BY <1>1, <1>2, <1>4, <2>1, <2>2, <2>3, ResponderKeeps DEF s
<1> QED
  BY <1>7, <1>8

\* END: the message is handed over, or refused, and the sender is told.
LEMMA ResponderEnds ==
  ASSUME InOrder, NEW n \in Nodes, rx[n] # <<>>, NEW f, f = Head(rx[n]), Accepted(n, f),
         Forward(f), NEW x, x = Exchange(f), NEW i \in Slots, NEW r, r = sess[n][i],
         r.state = "RX", Key(r) = x, CanIdCommand(f.id) = CMD_END,
         RxEnd(n, i, r, CMD_END), UNCHANGED <<now, xfers>>
  PROVE  ExchangesInOrder'
<1> DEFINE a == CanIdFrom(f.id)
           sid == CanIdSession(f.id)
           F(cmd) == MakeFrame(n, a, sid, cmd, <<>>)
<1>1. /\ x = <<a, n, sid>> /\ a \in Nodes \ {n} /\ sid \in 0 .. SESSION_ID_MAX
      /\ r.peer = a /\ r.local = n /\ r.sid = sid /\ SlotExchange(r) = x /\ Busy(r)
  BY ForwardFrame DEF Key, SlotExchange, IsTx, Busy
<1>2. PICK j \in Slots : /\ Sends(sess[x[1]][j], x, now)
                         /\ ForwardBacked(f, sess[x[1]][j], sess, x, now, got)
  BY ForwardFrame
<1> DEFINE s == sess[x[1]][j]
           msg == [at |-> n, from |-> x[1], to |-> n, mode |-> WITH_ACK, data |-> s.payload]
<1>3. /\ NotGiven(got, s.payload) /\ s.state = "TX_WAIT_END_ACK"
      /\ Holds(sess, x, s.payload, now)
  BY <1>2, ForwardCases, Zenon
<1>4. TableOK /\ HistoryOK /\ n # ALL
  BY InOrderParts, NodeAddress
<1>5. r.payload = s.payload /\ r.mode = WITH_ACK
  <2> DEFINE d == s.payload
  <2>1. Holds(sess, <<a, n, sid>>, d, now) /\ Key(r) = <<a, n, sid>>
    BY <1>1, <1>3
  <2> HIDE DEF d, a, sid
  <2>2. r.payload = d /\ r.mode = WITH_ACK
    BY <1>1, <1>4, <2>1, HeldInSlot
  <2> QED
    BY <2>2 DEF d
<1>6. SetSlot(n, i, FreeSession) /\ ~ IsTx(FreeSession)
  BY DEF RxEnd, Release, IsTx, FreeSession
<1>7. \/ Answer(n, <<F(CMD_NACK)>>) /\ got' = got
      \/ Answer(n, <<F(CMD_ABORT_WA)>>) /\ got' = got
      \/ Answer(n, <<F(CMD_ACK)>>) /\ got' = Append(got, msg)
  <2>1. \A cmd : To(n, r, cmd, <<>>) = <<F(cmd)>>
    BY <1>1 DEF To
  <2>2. [at |-> n, from |-> r.peer, to |-> r.local,
         mode |-> IF r.local = ALL THEN WITHOUT_ACK ELSE r.mode, data |-> r.payload] = msg
    BY <1>1, <1>4, <1>5
  <2> HIDE DEF F, msg
  <2> QED
    BY <2>1, <2>2 DEF RxEnd
<1>8. \A cmd \in {CMD_ACK, CMD_NACK, CMD_ABORT_WA} :
        CanIdCommand(F(cmd).id) = cmd
        /\ F(cmd) = MakeFrame(n, CanIdFrom(f.id), CanIdSession(f.id), cmd, <<>>)
  BY <1>1, AnswerCommand
<1>9. Given(Append(got, msg), x, s.payload)
  <2>1. /\ Len(got) + 1 \in DOMAIN Append(got, msg)
        /\ Append(got, msg)[Len(got) + 1] = msg
    BY <1>4, LenProperties DEF HistoryOK
  <2>2. msg = [at |-> x[2], from |-> x[1], to |-> x[2], mode |-> WITH_ACK, data |-> s.payload]
    BY <1>1
  <2> HIDE DEF msg, s
  <2> QED
    BY <2>1, <2>2 DEF Given
<1> USE <1>1, <1>2, <1>6
<1>10. CASE Answer(n, <<F(CMD_NACK)>>) /\ got' = got
  <2>1. AnswerBacked(F(CMD_NACK), s, sess', x, now', got')
    BY <1>3, <1>8 DEF AnswerBacked
  <2>2. F(CMD_NACK) = MakeFrame(n, CanIdFrom(f.id), CanIdSession(f.id), CMD_NACK, <<>>)
    OBVIOUS
  <2> HIDE DEF F, s, a, sid
  <2> QED
    BY <1>10, <2>1, <2>2, ResponderKeeps DEF s
<1>11. CASE Answer(n, <<F(CMD_ABORT_WA)>>) /\ got' = got
  <2>1. AnswerBacked(F(CMD_ABORT_WA), s, sess', x, now', got')
    BY <1>8 DEF AnswerBacked
  <2>2. F(CMD_ABORT_WA) = MakeFrame(n, CanIdFrom(f.id), CanIdSession(f.id), CMD_ABORT_WA, <<>>)
    OBVIOUS
  <2> HIDE DEF F, s, a, sid
  <2> QED
    BY <1>11, <2>1, <2>2, ResponderKeeps DEF s
<1>12. CASE Answer(n, <<F(CMD_ACK)>>) /\ got' = Append(got, msg)
  <2>1. AnswerBacked(F(CMD_ACK), s, sess', x, now', got')
    BY <1>3, <1>8, <1>9, <1>12 DEF AnswerBacked
  <2>2. F(CMD_ACK) = MakeFrame(n, CanIdFrom(f.id), CanIdSession(f.id), CMD_ACK, <<>>)
    OBVIOUS
  <2> HIDE DEF F, a, sid
  <2> QED
    BY <1>3, <1>12, <2>1, <2>2, ResponderKeeps
<1> QED
  BY <1>7, <1>10, <1>11, <1>12

\* add_frame of a frame of the initiator.
LEMMA ResponderCalls ==
  ASSUME InOrder, NEW n \in Nodes, rx[n] # <<>>, NEW f, f = Head(rx[n]), Accepted(n, f),
         Forward(f), AddToSession(n) \/ AddOpening(n) \/ AddUnknown(n)
  PROVE  ExchangesInOrder'
<1> DEFINE x == Exchange(f)
           cmd == CanIdCommand(f.id)
<1>1. /\ x = FrameKey(f) /\ x = <<CanIdFrom(f.id), n, CanIdSession(f.id)>>
      /\ x[1] \in Nodes \ {n} /\ CanIdSession(f.id) \in 0 .. SESSION_ID_MAX
      /\ \A i \in Matching(n, x) :
           sess[n][i].state = "RX" /\ Key(sess[n][i]) = x /\ SlotExchange(sess[n][i]) = x
  BY ForwardFrame
<1>2. PICK j \in Slots : /\ Sends(sess[x[1]][j], x, now)
                         /\ ForwardBacked(f, sess[x[1]][j], sess, x, now, got)
  BY ForwardFrame
<1>3. cmd \in {CMD_START, CMD_DATA, CMD_END}
  BY <1>2, ForwardCases, Zenon
<1>4. TableOK /\ HistoryOK /\ 1 \in Heard(n) /\ f.id \in Nat
  BY InOrderParts, AcceptedFrame, HeardFrame
<1> HIDE DEF x
<1>5. ASSUME NEW i \in Slots, NEW r, r.state = "RX", Key(r) = x, r \in Session,
             ~ Busy(sess[n][i]) \/ SlotExchange(sess[n][i]) = x,
             r = sess[n][i] \/ cmd = CMD_START, HandleRxFrame(n, i, r, cmd, f.data)
      PROVE  ExchangesInOrder'
  <2>1. UNCHANGED <<now, xfers>>
    BY <1>5 DEF HandleRxFrame
  <2>2. CASE cmd = CMD_START
    <3>1. CMD_START \notin {CMD_ABORT_WA, CMD_DATA, CMD_DATA_WA, CMD_END, CMD_END_WA,
                            CMD_ACK, CMD_NACK}
      BY DEF CMD_START, CMD_ABORT_WA, CMD_DATA, CMD_DATA_WA, CMD_END, CMD_END_WA,
             CMD_ACK, CMD_NACK
    <3> HIDE DEF cmd
    <3>2. RxStart(n, i, r, cmd)
      BY <1>5, <2>2, <3>1
      DEF HandleRxFrame, RxAbort, RxData, RxDataFails, RxEnd, RxUnexpected
    <3>3. RxStart(n, i, r, CMD_START)
      BY <2>2, <3>2
    <3> QED
      BY <1>5, <2>1, <2>2, <3>3, ResponderStarts DEF x, cmd
  <2>3. CASE cmd = CMD_DATA
    <3>1. RxData(n, i, r, CMD_DATA, f.data) \/ RxDataFails(n, i, r, CMD_DATA, f.data)
      BY <1>5, <2>3 DEF HandleRxFrame, RxAbort, RxStart, RxEnd, RxUnexpected,
                        CMD_START, CMD_START_WA, CMD_ABORT_WA, CMD_DATA, CMD_END, CMD_END_WA,
                        CMD_ACK, CMD_NACK
    <3>2. r = sess[n][i]
      BY <1>5, <2>3 DEF CMD_START, CMD_DATA
    <3> QED
      BY <1>5, <2>1, <2>3, <3>1, <3>2, ResponderStores DEF x
  <2>4. CASE cmd = CMD_END
    <3>1. CMD_END \notin {CMD_ABORT_WA, CMD_START, CMD_START_WA, CMD_DATA, CMD_DATA_WA,
                          CMD_ACK, CMD_NACK}
      BY DEF CMD_START, CMD_START_WA, CMD_ABORT_WA, CMD_DATA, CMD_DATA_WA, CMD_END,
             CMD_ACK, CMD_NACK
    <3> HIDE DEF cmd
    <3>2. RxEnd(n, i, r, cmd)
      BY <1>5, <2>4, <3>1
      DEF HandleRxFrame, RxAbort, RxStart, RxData, RxDataFails, RxUnexpected
    <3>3. RxEnd(n, i, r, CMD_END) /\ r = sess[n][i]
      BY <1>5, <2>4, <3>1, <3>2
    <3> QED
      BY <1>5, <2>1, <2>4, <3>3, ResponderEnds DEF x, cmd
  <2> QED
    BY <1>3, <2>2, <2>3, <2>4
<1>6. CASE AddToSession(n)
  <2> DEFINE i == FirstOf(Matching(n, FrameKey(f)))
             r == sess[n][i]
  <2>1. /\ Matching(n, FrameKey(f)) # {}
        /\ \/ IsTx(r) /\ HandleTxFrame(n, i, r, cmd)
           \/ ~ IsTx(r) /\ HandleRxFrame(n, i, r, cmd, f.data)
    BY <1>6 DEF AddToSession
  <2>2. i \in Matching(n, x) /\ i \in Slots
    <3>1. Matching(n, x) \in SUBSET Slots
      BY DEF Matching
    <3> QED
      BY <1>1, <2>1, <3>1, FirstSlot
  <2> HIDE DEF i
  <2>3. r.state = "RX" /\ Key(r) = x /\ SlotExchange(r) = x /\ r \in Session /\ ~ IsTx(r)
    BY <1>1, <1>4, <2>2 DEF TableOK, IsTx
  <2> HIDE DEF r, cmd
  <2>4. r = sess[n][i]
    BY DEF r
  <2> QED
    BY <1>5, <2>1, <2>2, <2>3, <2>4
<1>7. CASE AddOpening(n)
  <2> DEFINE from == CanIdFrom(f.id)
             i == FirstOf(FreeFor(n, from))
             r == OpenedSession(f)
  <2>1. /\ cmd \in {CMD_START, CMD_START_WA} /\ FreeFor(n, from) # {}
        /\ HandleRxFrame(n, i, r, cmd, f.data)
    BY <1>7 DEF AddOpening
  <2>2. cmd = CMD_START
    BY <1>3, <2>1 DEF CMD_START, CMD_START_WA, CMD_DATA, CMD_END
  <2>3. i \in Slots /\ ~ Busy(sess[n][i])
    <3>1. FreeFor(n, from) \in SUBSET Slots
      BY DEF FreeFor
    <3>2. i \in FreeFor(n, from)
      BY <2>1, <3>1, FirstSlot
    <3> QED
      BY <3>2 DEF FreeFor
  <2>4. r.state = "RX" /\ Key(r) = x
    <3>1. r.state = "RX" /\ Key(r) = <<CanIdFrom(f.id), CanIdTo(f.id), CanIdSession(f.id)>>
      BY DEF OpenedSession, FreeSession, Key
    <3> QED
      BY <1>1, <3>1 DEF FrameKey
  <2>5. r \in Session
    <3>1. now \in Nat
      BY <1>4, SizesAssumption DEF HistoryOK
    <3> QED
      BY <1>4, <3>1, OpenedType
  <2> HIDE DEF i, r, cmd
  <2> QED
    BY <1>5, <2>1, <2>2, <2>3, <2>4, <2>5
<1>8. CASE AddUnknown(n)
  <2> DEFINE F == MakeFrame(n, CanIdFrom(f.id), CanIdSession(f.id), CMD_ABORT_WA, <<>>)
  <2>1. Answer(n, <<F>>) /\ UNCHANGED <<sess, now, xfers, got>>
    <3>1. ~ WithoutAck(cmd)
      BY <1>3 DEF WithoutAck, CMD_START, CMD_START_WA, CMD_DATA, CMD_DATA_WA, CMD_END,
                  CMD_END_WA, CMD_ABORT_WA
    <3> QED
      BY <1>8, <3>1 DEF AddUnknown, AbortReply
  <2>2. CanIdCommand(F.id) = CMD_ABORT_WA
    BY <1>1, AnswerCommand
  <2>3. AnswerBacked(F, sess[x[1]][j], sess', x, now', got')
    BY <2>2 DEF AnswerBacked
  <2> HIDE DEF F
  <2>4. F = MakeFrame(n, CanIdFrom(f.id), CanIdSession(f.id), CMD_ABORT_WA, <<>>)
    BY DEF F
  <2> QED
    BY <1>2, <2>1, <2>3, <2>4, ResponderKeeps DEF x
<1> QED
  BY <1>6, <1>7, <1>8

-----------------------------------------------------------------------------
(* The exchanges on a prompt bus: calls of the sending side.               *)

\* What backs an answer, by its command.
LEMMA AnswerCases ==
  ASSUME NEW f, NEW s, NEW t, NEW x, NEW time, NEW g, AnswerBacked(f, s, t, x, time, g)
  PROVE  /\ CanIdCommand(f.id) \in {CMD_ABORT_WA, CMD_NACK, CMD_ACK}
         /\ CanIdCommand(f.id) = CMD_NACK => s.state = "TX_WAIT_END_ACK"
         /\ CanIdCommand(f.id) = CMD_ACK =>
              \/ /\ s.state = "TX_WAIT_START_ACK" /\ NotGiven(g, s.payload)
                 /\ Holds(t, x, <<>>, time)
              \/ /\ s.state = "TX_WAIT_DATA_ACK" /\ NotGiven(g, s.payload)
                 /\ Holds(t, x, SubSeq(s.payload, 1, s.offset + s.lastlen), time)
              \/ s.state = "TX_WAIT_END_ACK" /\ Given(g, x, s.payload)
<1>1. CMD_ABORT_WA # CMD_NACK /\ CMD_ABORT_WA # CMD_ACK /\ CMD_NACK # CMD_ACK
  BY DEF CMD_ABORT_WA, CMD_NACK, CMD_ACK
<1> QED
  BY <1>1, Zenon DEF AnswerBacked

\* An answer, and the only slot that it is matched against: it sends.
LEMMA AnswerFrame ==
  ASSUME InOrder, NEW n \in Nodes, rx[n] # <<>>, NEW f, f = Head(rx[n]), Accepted(n, f),
         ~ Forward(f), NEW x, x = Exchange(f)
  PROVE  /\ x = <<n, CanIdFrom(f.id), CanIdSession(f.id)>>
         /\ CanIdFrom(f.id) \in Nodes \ {n} /\ CanIdSession(f.id) \in 0 .. SESSION_ID_MAX
         /\ \E i \in Slots : /\ Sends(sess[n][i], x, now)
                             /\ AnswerBacked(f, sess[n][i], sess, x, now, got)
                             /\ Matching(n, FrameKey(f)) = {i}
<1>1. TableOK
  BY InOrderParts
<1>2. 1 \in Heard(n) /\ rx[n][1] = f
  BY AcceptedFrame
<1> DEFINE b == CanIdFrom(f.id)
           sid == CanIdSession(f.id)
<1>3. /\ CanIdTo(f.id) = n /\ b \in Nodes \ {n} /\ sid \in 0 .. SESSION_ID_MAX
      /\ x = <<n, b, sid>> /\ Backed(f, sess, now, got)
  BY <1>2, HeardFrame
<1>4. PICK i \in Slots : /\ Sends(sess[n][i], x, now)
                         /\ AnswerBacked(f, sess[n][i], sess, x, now, got)
  BY <1>3 DEF Backed
<1>5. Busy(sess[n][i]) /\ Key(sess[n][i]) = <<b, n, sid>> /\ FrameKey(f) = <<b, n, sid>>
  BY <1>3, <1>4 DEF Sends, IsTx, Busy, FrameKey
<1>6. \A j \in Slots : Busy(sess[n][j]) /\ Key(sess[n][j]) = FrameKey(f) <=> j = i
  BY <1>1, <1>5 DEF TableOK, UniqueKeys
<1> QED
  BY <1>3, <1>4, <1>6 DEF Matching

\* The next chunk, or END behind the last one.
LEMMA InitiatorEmits ==
  ASSUME InOrder, NEW n \in Nodes, rx[n] # <<>>, NEW f, f = Head(rx[n]), Accepted(n, f),
         ~ Forward(f), NEW x, x = Exchange(f), NEW i \in Slots, Sends(sess[n][i], x, now),
         NotGiven(got, sess[n][i].payload),
         NEW s \in Session, IsTx(s), Key(s) = Key(sess[n][i]), s.xfer = sess[n][i].xfer,
         s.mode = sess[n][i].mode, s.payload = sess[n][i].payload, s.offset <= Len(s.payload),
         Holds(sess, x, SubSeq(s.payload, 1, s.offset), now),
         EmitNext(n, i, s), UNCHANGED <<xfers, now, got>>
  PROVE  ExchangesInOrder'
<1> DEFINE b == CanIdFrom(f.id)
           sid == CanIdSession(f.id)
<1>1. x = <<n, b, sid>> /\ b \in Nodes \ {n} /\ sid \in 0 .. SESSION_ID_MAX
  BY AnswerFrame
<1>2. s.peer = b /\ s.local = n /\ s.sid = sid
  BY <1>1 DEF Sends, Key
<1>3. /\ s.payload \in Seq(Nat) /\ s.offset \in Nat /\ Len(s.payload) \in Nat
  BY LenProperties DEF Session
<1>4. TableOK
  BY InOrderParts
<1>5. ASSUME NEW t, SetSlot(n, i, t), NEW d, Holds(sess, x, d, now)
      PROVE  Holds(sess', x, d, now)
  <2>1. sess'[b] = sess[b]
    BY <1>1, <1>4, <1>5 DEF SetSlot, TableOK
  <2>2. x[2] = b
    BY <1>1
  <2> HIDE DEF b
  <2> QED
    BY <1>5, <2>1, <2>2 DEF Holds
<1>6. \A cmd \in Commands : \A data :
        LET F == MakeFrame(n, b, sid, cmd, data) IN CanIdCommand(F.id) = cmd /\ F.data = data
  BY <1>1, NodeAddress, FrameFields
<1>7. CMD_DATA \in Commands /\ CMD_END \in Commands
  BY DEF Commands, CMD_DATA, CMD_END, CMD_START, CMD_ABORT_WA
<1>8. CASE s.offset < Len(s.payload)
  <2> DEFINE chunk == NextChunk(s)
             t == [s EXCEPT !.state = "TX_WAIT_DATA_ACK", !.last = now, !.age = 0,
                            !.lastlen = Len(chunk)]
             F == MakeFrame(n, b, sid, CMD_DATA, chunk)
  <2>1. SetSlot(n, i, t) /\ Answer(n, <<F>>)
    BY <1>2, <1>8 DEF EmitNext, To
  <2>2. chunk = SubSeq(s.payload, s.offset + 1, s.offset + Len(chunk))
    BY <1>8, NextChunkProperties
  <2>3. /\ t.state = "TX_WAIT_DATA_ACK" /\ t.last = now /\ t.lastlen = Len(chunk)
        /\ t.peer = s.peer /\ t.local = s.local /\ t.sid = s.sid /\ t.xfer = s.xfer
        /\ t.mode = s.mode /\ t.payload = s.payload /\ t.offset = s.offset
    BY DEF Session
  <2> HIDE DEF t, chunk
  <2>4. IsTx(t) /\ Key(t) = Key(s) /\ t.state # "TX_WITHOUT_ACK" /\ t.state # "TX_WAIT_START_ACK"
    BY <2>3 DEF IsTx, Key
  <2>5. CanIdCommand(F.id) = CMD_DATA /\ F.data = chunk
    BY <1>6, <1>7
  <2>6. F = MakeFrame(n, CanIdFrom(f.id), CanIdSession(f.id), CMD_DATA, chunk)
    OBVIOUS
  <2> HIDE DEF F
  <2>7. ForwardBacked(F, t, sess', x, now, got)
    <3>1. F.data = SubSeq(t.payload, t.offset + 1, t.offset + t.lastlen)
      BY <2>2, <2>3, <2>5
    <3>2. Holds(sess', x, SubSeq(t.payload, 1, t.offset), now)
      BY <1>5, <2>1, <2>3
    <3>3. NotGiven(got, t.payload)
      BY <2>3
    <3> QED
      BY <2>3, <2>5, <3>1, <3>2, <3>3, Zenon DEF ForwardBacked
  <2> HIDE DEF b, sid
  <2> QED
    BY <2>1, <2>3, <2>4, <2>6, <2>7, InitiatorGoesOn
<1>9. CASE ~ (s.offset < Len(s.payload))
  <2> DEFINE t == [s EXCEPT !.state = "TX_WAIT_END_ACK", !.last = now, !.age = 0]
             F == MakeFrame(n, b, sid, CMD_END, <<>>)
  <2>1. SetSlot(n, i, t) /\ Answer(n, <<F>>)
    BY <1>2, <1>9 DEF EmitNext, To
  <2>2. SubSeq(s.payload, 1, s.offset) = s.payload
    <3>1. s.offset = Len(s.payload)
      BY <1>3, <1>9
    <3> QED
      BY <1>3, <3>1, SubSeqFull
  <2>3. /\ t.state = "TX_WAIT_END_ACK" /\ t.last = now
        /\ t.peer = s.peer /\ t.local = s.local /\ t.sid = s.sid /\ t.xfer = s.xfer
        /\ t.mode = s.mode /\ t.payload = s.payload
    BY DEF Session
  <2> HIDE DEF t
  <2>4. IsTx(t) /\ Key(t) = Key(s) /\ t.state # "TX_WITHOUT_ACK" /\ t.state # "TX_WAIT_START_ACK"
    BY <2>3 DEF IsTx, Key
  <2>5. CanIdCommand(F.id) = CMD_END
    BY <1>6, <1>7
  <2>6. F = MakeFrame(n, CanIdFrom(f.id), CanIdSession(f.id), CMD_END, <<>>)
    OBVIOUS
  <2> HIDE DEF F
  <2>7. ForwardBacked(F, t, sess', x, now, got)
    <3>1. Holds(sess', x, t.payload, now)
      BY <1>5, <2>1, <2>2, <2>3
    <3>2. NotGiven(got, t.payload)
      BY <2>3
    <3> QED
      BY <2>3, <2>5, <3>1, <3>2, Zenon DEF ForwardBacked
  <2> HIDE DEF b, sid
  <2> QED
    BY <2>1, <2>3, <2>4, <2>6, <2>7, InitiatorGoesOn
<1> QED
  BY <1>8, <1>9

\* add_frame of an answer.
LEMMA InitiatorCalls ==
  ASSUME InOrder, NEW n \in Nodes, rx[n] # <<>>, NEW f, f = Head(rx[n]), Accepted(n, f),
         ~ Forward(f), AddToSession(n) \/ AddOpening(n) \/ AddUnknown(n)
  PROVE  ExchangesInOrder'
<1> DEFINE x == Exchange(f)
           cmd == CanIdCommand(f.id)
<1>1. PICK i \in Slots : /\ Sends(sess[n][i], x, now)
                         /\ AnswerBacked(f, sess[n][i], sess, x, now, got)
                         /\ Matching(n, FrameKey(f)) = {i}
  BY AnswerFrame
<1> DEFINE s == sess[n][i]
<1>2. /\ cmd \in {CMD_ABORT_WA, CMD_NACK, CMD_ACK}
      /\ cmd = CMD_NACK => s.state = "TX_WAIT_END_ACK"
      /\ cmd = CMD_ACK =>
           \/ /\ s.state = "TX_WAIT_START_ACK" /\ NotGiven(got, s.payload)
              /\ Holds(sess, x, <<>>, now)
           \/ /\ s.state = "TX_WAIT_DATA_ACK" /\ NotGiven(got, s.payload)
              /\ Holds(sess, x, SubSeq(s.payload, 1, s.offset + s.lastlen), now)
           \/ s.state = "TX_WAIT_END_ACK" /\ Given(got, x, s.payload)
  BY <1>1, AnswerCases, Zenon
<1>3. TableOK /\ SlotOK(n, s) /\ CarryOK(s, xfers) /\ IsTx(s)
  BY <1>1, InOrderParts, CarryParts DEF TableOK, Sends
<1>4. s \in Session /\ s.payload \in Seq(Nat) /\ s.offset \in Nat /\ s.lastlen \in Nat
  BY <1>3 DEF SlotOK, Session
<1>5. HandleTxFrame(n, i, s, cmd)
  <2>1. FirstOf(Matching(n, FrameKey(f))) = i
    BY <1>1, FirstSlot
  <2>2. AddToSession(n)
    BY <1>1 DEF AddOpening, AddUnknown
  <2> QED
    BY <1>3, <2>1, <2>2 DEF AddToSession
<1>6. UNCHANGED <<now, got>>
  BY <1>5 DEF HandleTxFrame
<1> HIDE DEF x, s, cmd
<1>7. CASE cmd = CMD_ABORT_WA
  <2>1. cmd \notin {CMD_NACK, CMD_ACK}
    BY <1>7 DEF CMD_ABORT_WA, CMD_NACK, CMD_ACK
  <2>2. Release(n, i) /\ Answer(n, <<>>) /\ EndTransfer(s, "TX_ABORTED")
    BY <1>5, <1>7, <2>1 DEF HandleTxFrame, TxAbort, TxNack, TxUnexpected, TxAck
  <2>3. "TX_ABORTED" = "TX_FINISHED" => Given(got, x, s.payload)
    OBVIOUS
  <2> DEFINE o == "TX_ABORTED"
  <2>4. o = "TX_FINISHED" => Given(got, x, s.payload)
    BY <2>3
  <2>5. EndTransfer(s, o)
    BY <2>2
  <2> HIDE DEF o
  <2> QED
    BY <1>1, <1>6, <2>2, <2>4, <2>5, InitiatorEnds DEF x, s
<1>8. CASE cmd = CMD_NACK
  <2>1. cmd \notin {CMD_ABORT_WA, CMD_ACK}
    BY <1>8 DEF CMD_ABORT_WA, CMD_NACK, CMD_ACK
  <2>2. Release(n, i) /\ Answer(n, <<>>) /\ EndTransfer(s, "TX_ABORTED")
    BY <1>2, <1>5, <1>8, <2>1 DEF HandleTxFrame, TxAbort, TxNack, TxUnexpected, TxAck
  <2>3. "TX_ABORTED" = "TX_FINISHED" => Given(got, x, s.payload)
    OBVIOUS
  <2> DEFINE o == "TX_ABORTED"
  <2>4. o = "TX_FINISHED" => Given(got, x, s.payload)
    BY <2>3
  <2>5. EndTransfer(s, o)
    BY <2>2
  <2> HIDE DEF o
  <2> QED
    BY <1>1, <1>6, <2>2, <2>4, <2>5, InitiatorEnds DEF x, s
<1>9. CASE cmd = CMD_ACK
  <2>1. cmd \notin {CMD_ABORT_WA, CMD_NACK}
    BY <1>9 DEF CMD_ABORT_WA, CMD_NACK, CMD_ACK
  <2>2. TxAck(n, i, s, cmd)
    BY <1>5, <1>9, <2>1 DEF HandleTxFrame, TxAbort, TxNack, TxUnexpected
  <2>3. CASE s.state = "TX_WAIT_START_ACK"
    <3>1. EmitNext(n, i, s) /\ xfers' = xfers
      BY <2>2, <2>3 DEF TxAck
    <3>2. s.offset = 0 /\ NotGiven(got, s.payload) /\ Holds(sess, x, <<>>, now)
      BY <1>2, <1>3, <1>9, <2>3 DEF CarryOK
    <3>3. SubSeq(s.payload, 1, s.offset) = <<>> /\ s.offset <= Len(s.payload)
      BY <1>4, <3>2, SubSeqEmpty, LenProperties
    <3>4. Holds(sess, x, SubSeq(s.payload, 1, s.offset), now)
      BY <3>2, <3>3
    <3> QED
      BY <1>1, <1>3, <1>4, <1>6, <3>1, <3>2, <3>3, <3>4, InitiatorEmits DEF x, s
  <2>4. CASE s.state = "TX_WAIT_DATA_ACK"
    <3> DEFINE t == [s EXCEPT !.offset = s.offset + s.lastlen]
    <3>1. EmitNext(n, i, t) /\ xfers' = xfers
      BY <2>2, <2>4 DEF TxAck
    <3>2. /\ NotGiven(got, s.payload)
          /\ Holds(sess, x, SubSeq(s.payload, 1, s.offset + s.lastlen), now)
      BY <1>2, <1>9, <2>4
    <3>3. s.offset + s.lastlen \in Nat /\ s.offset + s.lastlen <= Len(s.payload)
      BY <1>3, <1>4, <2>4 DEF SlotOK, ChunkOK
    <3>4. /\ t \in Session /\ t.state = s.state /\ t.peer = s.peer /\ t.local = s.local
          /\ t.sid = s.sid /\ t.xfer = s.xfer /\ t.mode = s.mode /\ t.payload = s.payload
          /\ t.offset = s.offset + s.lastlen
      BY <1>4, <3>3 DEF Session
    <3> HIDE DEF t
    <3>5. IsTx(t) /\ Key(t) = Key(s) /\ t.offset <= Len(t.payload)
      BY <1>3, <3>3, <3>4 DEF IsTx, Key
    <3>6. Holds(sess, x, SubSeq(t.payload, 1, t.offset), now)
      BY <3>2, <3>4
    <3> QED
      BY <1>1, <1>6, <3>1, <3>2, <3>4, <3>5, <3>6, InitiatorEmits DEF x, s
  <2>5. CASE s.state = "TX_WAIT_END_ACK"
    <3>1. Release(n, i) /\ Answer(n, <<>>) /\ EndTransfer(s, "TX_FINISHED")
      BY <2>2, <2>5 DEF TxAck
    <3>2. Given(got, x, s.payload)
      BY <1>2, <1>9, <2>5
    <3> QED
      BY <1>1, <1>6, <3>1, <3>2, InitiatorEnds DEF x, s
  <2> QED
    BY <1>2, <1>9, <2>3, <2>4, <2>5
<1> QED
  BY <1>2, <1>7, <1>8, <1>9

-----------------------------------------------------------------------------
(* The exchanges on a prompt bus: start_send.                              *)

\* What start_send does for an acknowledged transfer: the slot, written from i
\* to t, and START.
Starts(n, i, peer, t, sid) ==
  /\ ~ Busy(sess[n][i]) /\ SetSlot(n, i, t)
  /\ t.state = "TX_WAIT_START_ACK" /\ t.mode = WITH_ACK /\ Key(t) = <<peer, n, sid>>
  /\ t.peer = peer /\ t.offset = 0 /\ t.last = now /\ t.xfer = Len(xfers) + 1
  /\ t.payload = Payloads[Len(xfers) + 1]
  /\ sid % 2 = InitiatorBit(n, peer) /\ sid \div 2 \notin ReservedIds(n, peer)
  /\ Emit(n, <<MakeFrame(n, peer, sid, CMD_START, <<>>)>>)

\* A new transfer: an identifier that no slot sending to peer has, START on
\* the bus, and a payload of its own.
LEMMA AckedStart ==
  ASSUME PromptAcked, TableOK, HistoryOK,
         NEW n \in Nodes, NEW peer \in Destinations, NEW mode \in Modes,
         StartSend(n, peer, mode)
  PROVE  \E i \in Slots, sid \in 0 .. SESSION_ID_MAX : \E t : Starts(n, i, peer, t, sid)
<1> DEFINE data == Payloads[Len(xfers) + 1]
           unique == FirstOf(UnreservedIds(n, peer))
           sid == SessionId(n, peer, unique)
           i == FirstOf(FreeFor(n, peer))
           s == [FreeSession EXCEPT
                   !.state = "TX_WAIT_START_ACK", !.mode = WITH_ACK, !.peer = peer, !.local = n,
                   !.sid = sid, !.payload = data, !.cap = Len(data), !.last = now,
                   !.xfer = Len(xfers) + 1]
<1>1. mode = WITH_ACK /\ peer # ALL
  BY DEF PromptAcked
<1>2. /\ FreeFor(n, peer) # {} /\ UnreservedIds(n, peer) # {}
      /\ SetSlot(n, i, s) /\ Emit(n, To(n, s, CMD_START, <<>>))
  BY <1>1 DEF StartSend, WITH_ACK, WITHOUT_ACK
<1>3. unique \in UnreservedIds(n, peer) /\ unique \in 0 .. 7
  <2>1. UnreservedIds(n, peer) \in SUBSET Nat
    BY SizesAssumption DEF UnreservedIds
  <2>2. unique \in UnreservedIds(n, peer)
    BY <1>2, <2>1, FirstOfMember
  <2> QED
    BY <2>2, SizesAssumption DEF UnreservedIds
<1>4. /\ sid \in 0 .. SESSION_ID_MAX /\ sid \div 2 = unique
      /\ sid % 2 = InitiatorBit(n, peer)
  <2> HIDE DEF unique
  <2>1. InitiatorBit(n, peer) \in {0, 1}
    BY DEF InitiatorBit
  <2> QED
    BY <1>3, <2>1 DEF SessionId, SESSION_ID_MAX
<1>5. i \in Slots /\ ~ Busy(sess[n][i])
  <2>1. FreeFor(n, peer) \in SUBSET Slots
    BY DEF FreeFor
  <2>2. i \in FreeFor(n, peer)
    BY <1>2, <2>1, FirstSlot
  <2> QED
    BY <2>1, <2>2 DEF FreeFor
<1> HIDE DEF sid, i, data
<1>6. /\ s.state = "TX_WAIT_START_ACK" /\ s.mode = WITH_ACK /\ s.peer = peer /\ s.local = n
      /\ s.sid = sid /\ s.offset = 0 /\ s.last = now /\ s.xfer = Len(xfers) + 1
      /\ s.payload = data
  BY DEF FreeSession
<1>7. sid \div 2 \notin ReservedIds(n, peer)
  BY <1>3, <1>4 DEF UnreservedIds
<1> HIDE DEF s
<1>8. To(n, s, CMD_START, <<>>) = <<MakeFrame(n, peer, sid, CMD_START, <<>>)>>
  BY <1>6 DEF To
<1>9. Key(s) = <<peer, n, sid>>
  BY <1>6 DEF Key
<1>10. Starts(n, i, peer, s, sid)
  BY <1>2, <1>4, <1>5, <1>6, <1>7, <1>8, <1>9 DEF data, Starts
<1> QED
  BY <1>4, <1>5, <1>10

\* The history with one transfer more.
LEMMA BegunTransfers ==
  ASSUME HistoryOK, SlotsCarry, GivenOK, Len(xfers) < Len(Payloads), got' = got,
         NEW y, xfers' = Append(xfers, y), y.out = "OPEN", y.mode = WITH_ACK,
         y.data = Payloads[Len(xfers) + 1]
  PROVE  /\ TransfersOK(xfers') /\ GivenOK'
         /\ \A s : CarryOK(s, xfers) => CarryOK(s, xfers')
         /\ Len(xfers) + 1 \in DOMAIN xfers' /\ xfers'[Len(xfers) + 1] = y
         /\ NotGiven(got, y.data)
<1> DEFINE e == Len(xfers) + 1
<1>1. Len(xfers) \in Nat /\ DOMAIN xfers = 1 .. Len(xfers) /\ Len(Payloads) \in Nat
      /\ DOMAIN Payloads = 1 .. Len(Payloads)
  BY LenProperties, TrafficAssumption DEF HistoryOK
<1>2. /\ DOMAIN xfers' = DOMAIN xfers \union {e} /\ xfers'[e] = y /\ Len(xfers') = e
      /\ \A k \in DOMAIN xfers : xfers'[k] = xfers[k]
      /\ e \notin DOMAIN xfers /\ e \in DOMAIN Payloads
  BY <1>1
<1>3. TransfersOK(xfers)
  BY CarryParts
<1>4. TransfersOK(xfers')
  BY <1>1, <1>2, <1>3 DEF TransfersOK
<1> HIDE DEF e
<1>5. \A s : CarryOK(s, xfers) => CarryOK(s, xfers')
  BY <1>2 DEF CarryOK
<1>6. FinishedIsDelivered'
  BY <1>2 DEF GivenOK, FinishedIsDelivered
<1>7. DeliveredIntact'
  BY <1>2 DEF GivenOK, DeliveredIntact
<1>8. PayloadsDiffer => DeliveredOnce'
  BY DEF GivenOK, DeliveredOnce
<1>9. NotGiven(got, y.data)
  <2> SUFFICES ASSUME PayloadsDiffer, NEW g \in DOMAIN got, got[g].data = y.data PROVE FALSE
    BY DEF NotGiven
  <2>1. PICK k \in DOMAIN xfers : xfers[k].data = got[g].data
    BY DEF GivenOK, DeliveredIntact
  <2>2. Payloads[k] = Payloads[e] /\ k \in DOMAIN Payloads
    BY <1>1, <1>3, <2>1 DEF TransfersOK, e
  <2> QED
    BY <1>2, <2>1, <2>2 DEF PayloadsDiffer
<1> QED
  BY <1>2, <1>4, <1>5, <1>6, <1>7, <1>8, <1>9 DEF GivenOK, e

\* No frame of the new exchange is under way yet.
LEMMA StartKeepsExchanges ==
  ASSUME PromptAcked, InOrder, NEW n \in Nodes, NEW peer \in Destinations, NEW mode \in Modes,
         StartSend(n, peer, mode)
  PROVE  ExchangesInOrder'
<1>1. /\ TableOK /\ BusOK /\ HistoryOK /\ OutcomesOK
      /\ FramesBacked /\ OneFrameUnderWay /\ SlotsCarry /\ GivenOK
  BY InOrderParts
<1>0. PICK i \in Slots, sid \in 0 .. SESSION_ID_MAX : \E t : Starts(n, i, peer, t, sid)
  BY InOrderParts, AckedStart
<1>2. PICK t : Starts(n, i, peer, t, sid)
  BY <1>0
<1> USE DEF Starts
<1> DEFINE x == <<n, peer, sid>>
           F == MakeFrame(n, peer, sid, CMD_START, <<>>)
           y == [from |-> n, to |-> peer, mode |-> WITH_ACK,
                 data |-> Payloads[Len(xfers) + 1], out |-> "OPEN"]
<1>3. /\ peer # n /\ peer # ALL /\ peer \in 0 .. DEVICE_ID_MAX /\ n \in 0 .. DEVICE_ID_MAX
      /\ Len(xfers) < Len(Payloads) /\ now' = now /\ got' = got /\ xfers' = Append(xfers, y)
  <2>1. mode = WITH_ACK /\ peer # ALL
    BY DEF PromptAcked
  <2> QED
    BY <2>1, NodeAddress, TrafficAssumption DEF StartSend
<1>4. y.out = "OPEN" /\ y.mode = WITH_ACK /\ y.data = Payloads[Len(xfers) + 1]
  OBVIOUS
<1> HIDE DEF y
<1>5. /\ TransfersOK(xfers') /\ GivenOK'
      /\ \A s : CarryOK(s, xfers) => CarryOK(s, xfers')
      /\ Len(xfers) + 1 \in DOMAIN xfers' /\ xfers'[Len(xfers) + 1] = y
      /\ NotGiven(got, y.data)
  BY <1>1, <1>3, <1>4, BegunTransfers
<1>6. \A m \in Nodes, j \in Slots : sess'[m][j] = IF m = n /\ j = i THEN t ELSE sess[m][j]
  BY <1>1, <1>2 DEF SetSlot, TableOK
<1>7. CarryOK(t, xfers') /\ IsTx(t)
  BY <1>2, <1>3, <1>4, <1>5 DEF CarryOK, IsTx
<1>8. SlotsCarry'
  <2>1. \A m \in Nodes, j \in Slots : CarryOK(sess'[m][j], xfers')
    BY <1>1, <1>5, <1>6, <1>7, CarryParts
  <2> QED
    BY <1>5, <2>1, CarryPartsNext
<1>9. \A m \in Nodes : \A q \in Heard(m) : Exchange(rx[m][q]) # x
  <2> SUFFICES ASSUME NEW m \in Nodes, NEW q \in Heard(m), Exchange(rx[m][q]) = x PROVE FALSE
    OBVIOUS
  <2>1. Backed(rx[m][q], sess, now, got)
    BY HeardFrame
  <2>2. PICK j \in Slots : Sends(sess[n][j], x, now)
    BY <2>1 DEF Backed
  <2>3. IsTx(sess[n][j]) /\ sess[n][j].peer = peer /\ sess[n][j].sid = sid
    BY <2>2 DEF Sends, Key
  <2>4. sid \div 2 \in ReservedIds(n, peer)
    BY <2>3 DEF ReservedIds
  <2> QED
    BY <1>2, <2>4
<1>10. CanIdFrom(F.id) = n /\ CanIdTo(F.id) = peer /\ CanIdCommand(F.id) = CMD_START
       /\ Forward(F) /\ Exchange(F) = x
  <2>1. CMD_START \in Commands
    BY DEF Commands, CMD_START, CMD_ABORT_WA
  <2>2. /\ CanIdFrom(F.id) = n /\ CanIdTo(F.id) = peer /\ CanIdSession(F.id) = sid
        /\ CanIdCommand(F.id) = CMD_START
    BY <1>2, <1>3, <2>1, FrameFields
  <2> HIDE DEF F
  <2> QED
    BY <1>2, <1>3, <2>2, ExchangeFields
<1> HIDE DEF F
<1>11. Backed(F, sess', now', got')
  <2>1. sess'[n][i] = t /\ x[1] = n
    BY <1>6
  <2>2. Sends(t, x, now)
    BY <1>2, <1>7 DEF Sends
  <2>3. ForwardBacked(F, t, sess', x, now, got)
    BY <1>2, <1>4, <1>5, <1>10 DEF ForwardBacked
  <2> HIDE DEF x
  <2> QED
    BY <1>3, <1>10, <2>1, <2>2, <2>3 DEF Backed
<1>12. \A m \in Nodes : \A q \in Heard(m) : Exchange(rx[m][q]) # x =>
         Backed(rx[m][q], sess', now', got')
  <2>1. sess' = sess \/ \E u : SetSlot(n, i, u)
    BY <1>2
  <2> HIDE DEF x
  <2> QED
    BY <1>2, <1>3, <2>1, OthersStay
<1>13. FramesBacked' /\ OneFrameUnderWay'
  <2> DEFINE out == <<F>>
  <2>1. out = <<>> \/ \E g : out = <<g>>
    OBVIOUS
  <2>2. \A g : out = <<g>> =>
          /\ CanIdFrom(g.id) = n /\ CanIdTo(g.id) # ALL
          /\ CanIdTo(g.id) \in Nodes => Exchange(g) = x /\ Backed(g, sess', now', got')
    <3> SUFFICES ASSUME NEW g, out = <<g>>
                 PROVE  /\ CanIdFrom(g.id) = n /\ CanIdTo(g.id) # ALL
                        /\ CanIdTo(g.id) \in Nodes => Exchange(g) = x /\ Backed(g, sess', now', got')
      OBVIOUS
    <3>1. g = F
      OBVIOUS
    <3> QED
      BY <1>3, <1>10, <1>11, <3>1
  <2>3. Emit(n, out)
    BY <1>2 DEF F
  <2> HIDE DEF x, out
  <2> QED
    BY <1>1, <1>9, <1>12, <2>1, <2>2, <2>3, FramesAfter
<1> QED
  BY <1>5, <1>8, <1>13, ExchangesInOrderNext

-----------------------------------------------------------------------------
(* The exchanges on a prompt bus: everything else.                         *)

\* A step that sends nothing and hands over nothing: frames may have left the
\* head of one queue, and what backs the others stays.
LEMMA QuietStep ==
  ASSUME InOrder, NEW n \in Nodes, (rx[n] # <<>> /\ Answer(n, <<>>)) \/ Emit(n, <<>>),
         \A m \in Nodes : \A q \in Heard(m) : Backed(rx[m][q], sess', now', got')
  PROVE  FramesBacked' /\ OneFrameUnderWay'
<1> DEFINE out == <<>>
           x == <<>>
<1>1. BusOK /\ FramesBacked /\ OneFrameUnderWay
  BY InOrderParts
<1>2. out = <<>> /\ ~ \E g : out = <<g>>
  OBVIOUS
<1>3. \A m \in Nodes : \A q \in Heard(m) : Exchange(rx[m][q]) # x
  BY DEF Exchange
<1>4. (rx[n] # <<>> /\ Answer(n, out)) \/ Emit(n, out)
  OBVIOUS
<1> HIDE DEF out, x
<1> QED
  BY <1>1, <1>2, <1>3, <1>4, FramesAfter

\* The first frame of a queue goes, and nothing else happens.
LEMMA DroppedFrame ==
  ASSUME InOrder, NEW n \in Nodes, rx[n] # <<>>, Answer(n, <<>>),
         UNCHANGED <<sess, now, xfers, got>>
  PROVE  ExchangesInOrder'
<1>1. FramesBacked /\ SlotsCarry /\ GivenOK
  BY InOrderParts
<1>2. FramesBacked' /\ OneFrameUnderWay'
  <2>1. \A m \in Nodes : \A q \in Heard(m) : Backed(rx[m][q], sess', now', got')
    BY <1>1 DEF FramesBacked
  <2> QED
    BY <2>1, QuietStep
<1>3. SlotsCarry'
  BY <1>1 DEF SlotsCarry
<1>4. GivenOK'
  BY <1>1 DEF GivenOK, FinishedIsDelivered, DeliveredIntact, DeliveredOnce
<1> QED
  BY <1>2, <1>3, <1>4, ExchangesInOrderNext

\* add_frame, whatever the first frame of the queue is.
LEMMA AddFrameKeepsExchanges ==
  ASSUME InOrder, NEW n \in Nodes, AddFrame(n)
  PROVE  ExchangesInOrder'
<1> DEFINE f == Head(rx[n])
<1>1. CASE AddForeign(n)
  BY <1>1, DroppedFrame DEF AddForeign
<1>2. CASE AddToSession(n) \/ AddOpening(n) \/ AddUnknown(n)
  <2>1. rx[n] # <<>> /\ Accepted(n, f)
    BY <1>2 DEF AddToSession, AddOpening, AddUnknown
  <2> HIDE DEF f
  <2>2. f = Head(rx[n])
    BY DEF f
  <2> QED
    BY <1>2, <2>1, <2>2, ResponderCalls, InitiatorCalls
<1> QED
  BY <1>1, <1>2 DEF AddFrame

\* A session that times out backs no frame: frames are handled within the tick
\* that their session was active in.
LEMMA TimeoutKeepsExchanges ==
  ASSUME InOrder, NEW n \in Nodes, ProcessTimeout(n)
  PROVE  ExchangesInOrder'
<1> DEFINE i == FirstOf(Late(n))
           s == sess[n][i]
<1>1. /\ TableOK /\ BusOK /\ HistoryOK /\ OutcomesOK
      /\ FramesBacked /\ OneFrameUnderWay /\ SlotsCarry /\ GivenOK
  BY InOrderParts
<1>2. /\ Late(n) # {} /\ Release(n, i) /\ UNCHANGED <<rx, now, got>>
      /\ IF s.state = "RX" THEN UNCHANGED xfers ELSE EndTransfer(s, "TX_TIMEOUT")
  BY DEF ProcessTimeout
<1>3. i \in Slots /\ TimedOut(n, s)
  <2>1. Late(n) \in SUBSET Slots
    BY DEF Late
  <2>2. i \in Late(n)
    BY <1>2, <2>1, FirstSlot
  <2> QED
    BY <2>2 DEF Late
<1> HIDE DEF i
<1>4. s \in Session /\ Timed(s)
  BY <1>1, <1>3 DEF TableOK, TimedOut
<1>5. s.last # now
  <2> SUFFICES ASSUME s.last = now PROVE FALSE
    OBVIOUS
  <2> DEFINE elapsed == now - s.last
  <2>1. elapsed = 0 /\ SessionTimeout[n] \in Nat /\ ClockMod \in Nat \ {0}
    BY <1>1, SizesAssumption DEF HistoryOK
  <2>2. elapsed % ClockMod > SessionTimeout[n]
    BY <1>3 DEF TimedOut
  <2> HIDE DEF elapsed
  <2>3. elapsed % ClockMod = 0
    BY <2>1, SMT
  <2> QED
    BY <2>1, <2>2, <2>3
<1>6. \A m \in Nodes, j \in Slots :
        sess'[m][j] = IF m = n /\ j = i THEN FreeSession ELSE sess[m][j]
  BY <1>1, <1>2, <1>3 DEF Release, SetSlot, TableOK
<1>7. FramesBacked' /\ OneFrameUnderWay'
  <2>1. ASSUME NEW m \in Nodes, NEW q \in Heard(m)
        PROVE  Backed(rx[m][q], sess', now', got')
    <3> DEFINE f == rx[m][q]
    <3>1. Backed(f, sess, now, got) /\ Exchange(f)[1] \in Nodes /\ Exchange(f)[2] \in Nodes
      BY HeardFrame
    <3>2. \A j \in Slots : StillNotGiven(got, got, sess[Exchange(f)[1]][j].payload)
      BY DEF StillNotGiven
    <3>3. Timed(sess[n][i]) /\ sess[n][i].last # now
      BY <1>4, <1>5
    <3> HIDE DEF f
    <3>4. Untouched(f, sess, sess', now, got, got, n, i)
      BY <1>6, <3>1, <3>2, <3>3 DEF Untouched
    <3>5. Backed(f, sess', now, got)
      BY <3>4, BackedStays
    <3> QED
      BY <1>2, <3>5 DEF f
  <2>2. Emit(n, <<>>)
    <3>1. \A m \in Nodes : rx[m] \o <<>> = rx[m]
      BY <1>1, ConcatEmptySeq DEF BusOK
    <3> QED
      BY <1>1, <1>2, <3>1 DEF Emit, BusOK
  <2> QED
    BY <2>1, <2>2, QuietStep
<1>8. CarryOK(FreeSession, xfers)
  BY DEF CarryOK, IsTx, FreeSession
<1>9. CASE s.state = "RX"
  <2>1. xfers' = xfers /\ SameTransfers(xfers, xfers')
    BY <1>2, <1>9 DEF SameTransfers
  <2>2. SlotsCarry'
    BY <1>1, <1>2, <1>3, <1>8, <2>1, CarryAfter DEF Release
  <2>3. GivenOK'
    BY <1>1, <1>2, <2>1 DEF GivenOK, FinishedIsDelivered, DeliveredIntact, DeliveredOnce
  <2> QED
    BY <1>7, <2>2, <2>3, ExchangesInOrderNext
<1>10. CASE s.state # "RX"
  <2> DEFINE o == "TX_TIMEOUT"
  <2>1. EndTransfer(s, o) /\ o # "TX_FINISHED"
    BY <1>2, <1>10
  <2>2. IsTx(s)
    BY <1>4, <1>10 DEF IsTx, Timed
  <2>3. s.xfer \in DOMAIN xfers
    BY <1>1, <1>3, <2>2 DEF OutcomesOK, OneOutcomePerTransfer
  <2> HIDE DEF s, o
  <2>4. /\ SameTransfers(xfers, xfers')
        /\ \A k \in DOMAIN xfers : xfers'[k].out = IF k = s.xfer THEN o ELSE xfers[k].out
    BY <1>1, <2>1, <2>3, EndedTransfers
  <2>5. SlotsCarry'
    BY <1>1, <1>2, <1>3, <1>8, <2>4, CarryAfter DEF Release
  <2>6. GivenOK'
    <3>1. \A k \in DOMAIN xfers : xfers'[k].out = "TX_FINISHED" => xfers[k].out = "TX_FINISHED"
      BY <2>1, <2>4
    <3> QED
      BY <1>1, <1>2, <2>4, <3>1, ReportedAfter
  <2> QED
    BY <1>7, <2>5, <2>6, ExchangesInOrderNext
<1> QED
  BY <1>9, <1>10

\* Time goes on only when nothing is under way.
LEMMA TickKeepsExchanges ==
  ASSUME PromptAcked, InOrder, Tick
  PROVE  ExchangesInOrder'
<1>1. /\ TableOK /\ SlotsCarry /\ GivenOK
  BY InOrderParts
<1>2. /\ \A n \in Nodes : rx'[n] = <<>>
      /\ xfers' = xfers /\ got' = got
  BY DEF PromptAcked, Tick
<1>3. \A n \in Nodes : DOMAIN rx'[n] = {} /\ Heard(n)' = {}
  BY <1>2 DEF Heard
<1>4. FramesBacked' /\ OneFrameUnderWay'
  BY <1>3 DEF FramesBacked, OneFrameUnderWay
<1>5. \A n \in Nodes, i \in Slots : CarryOK(sess'[n][i], xfers')
  <2> SUFFICES ASSUME NEW n \in Nodes, NEW i \in Slots PROVE CarryOK(sess'[n][i], xfers')
    OBVIOUS
  <2> DEFINE s == sess[n][i]
             t == sess'[n][i]
  <2>1. s \in Session /\ CarryOK(s, xfers)
    BY <1>1, CarryParts DEF TableOK
  <2>2. t = IF Timed(s) THEN [s EXCEPT !.age = @ + 1] ELSE s
    BY DEF Tick
  <2>3. /\ t.state = s.state /\ t.mode = s.mode /\ t.peer = s.peer /\ t.offset = s.offset
        /\ t.xfer = s.xfer /\ t.payload = s.payload
    BY <2>1, <2>2 DEF Session
  <2> HIDE DEF s, t
  <2>4. CarryOK(t, xfers')
    BY <1>2, <2>1, <2>3 DEF CarryOK, IsTx
  <2> QED
    BY <2>4 DEF t
<1>6. SlotsCarry'
  BY <1>1, <1>2, <1>5, CarryParts, CarryPartsNext
<1>7. GivenOK'
  BY <1>1, <1>2 DEF GivenOK, FinishedIsDelivered, DeliveredIntact, DeliveredOnce
<1> QED
  BY <1>4, <1>6, <1>7, ExchangesInOrderNext

\* Nothing is under way at first.
LEMMA InitExchanges == Init => ExchangesInOrder
<1> SUFFICES ASSUME Init PROVE ExchangesInOrder
  OBVIOUS
<1>1. \A n \in Nodes : rx[n] = <<>> /\ DOMAIN rx[n] = {} /\ Heard(n) = {}
  BY DEF Init, Heard
<1>2. FramesBacked /\ OneFrameUnderWay
  BY <1>1 DEF FramesBacked, OneFrameUnderWay
<1>3. \A n \in Nodes, i \in Slots : ~ IsTx(sess[n][i])
  BY DEF Init, IsTx, FreeSession
<1>4. Len(xfers) = 0 /\ DOMAIN xfers = {} /\ DOMAIN got = {} /\ Len(Payloads) >= 0
  BY LenProperties, TrafficAssumption DEF Init
<1>5. SlotsCarry
  BY <1>3, <1>4 DEF SlotsCarry
<1> QED
  BY <1>2, <1>4, <1>5 DEF ExchangesInOrder, FinishedIsDelivered, DeliveredIntact, DeliveredOnce

\* Every step of a prompt bus that only loses frames keeps the exchanges in order.
LEMMA NextExchanges ==
  ASSUME PromptAcked, SessionInvariant, OutcomesOK, ExchangesInOrder, [Next]_vars
  PROVE  ExchangesInOrder'
<1>1. InOrder
  BY InvariantParts DEF InOrder
<1>2. ASSUME NEW n \in Nodes, NEW peer \in Destinations, NEW mode \in Modes,
             StartSend(n, peer, mode)
      PROVE  ExchangesInOrder'
  BY <1>1, <1>2, StartKeepsExchanges
<1>3. ASSUME NEW n \in Nodes, AddFrame(n) PROVE ExchangesInOrder'
  BY <1>1, <1>3, AddFrameKeepsExchanges
<1>4. ASSUME NEW n \in Nodes, Process(n) PROVE ExchangesInOrder'
  <2>1. Unacked(n) = {}
    BY InOrderParts, <1>1 DEF Unacked, SlotsCarry, IsTx
  <2> QED
    BY <1>1, <1>4, <2>1, TimeoutKeepsExchanges DEF Process, ProcessUnacked
<1>5. ASSUME NEW n \in Nodes, Lose(n) PROVE ExchangesInOrder'
  <2>1. BusOK
    BY <1>1, InOrderParts
  <2>2. \A m \in Nodes : rx[m] \o <<>> = rx[m]
    BY <2>1, ConcatEmptySeq DEF BusOK
  <2>3. Answer(n, <<>>)
    BY <1>5, <2>1, <2>2 DEF Lose, Answer, BusOK
  <2> QED
    BY <1>1, <1>5, <2>3, DroppedFrame DEF Lose
<1>6. ASSUME NEW n \in Nodes, Duplicate(n) \/ Intrude(n) \/ Restart(n) PROVE FALSE
  BY <1>6 DEF PromptAcked, Duplicate, Intrude, Restart, Mishap
<1>7. ASSUME Tick PROVE ExchangesInOrder'
  BY <1>1, <1>7, TickKeepsExchanges
<1>8. ASSUME UNCHANGED vars PROVE ExchangesInOrder'
  BY <1>8 DEF vars, ExchangesInOrder, FramesBacked, OneFrameUnderWay, Heard, SlotsCarry,
              FinishedIsDelivered, DeliveredIntact, DeliveredOnce
<1> QED
  BY <1>2, <1>3, <1>4, <1>5, <1>6, <1>7, <1>8 DEF Next

\* One frame under way of each exchange is one frame or answer of each transfer.
LEMMA OneFrameStopsAndWaits ==
  ASSUME TableOK, BusOK, OneFrameUnderWay
  PROVE  StopAndWait
<1> SUFFICES ASSUME NEW n \in Nodes, NEW i \in Slots, NEW s, s = sess[n][i],
                    IsTx(s), s.peer \in Nodes
             PROVE  Cardinality(InFlight(n, s.peer, s.sid))
                      + Cardinality(InFlight(s.peer, n, s.sid)) <= 1
  BY DEF StopAndWait
<1> DEFINE p == s.peer
           sid == s.sid
           A == InFlight(n, p, sid)
           B == InFlight(p, n, sid)
           x == <<n, p, sid>>
<1>1. p # n /\ sid % 2 = InitiatorBit(n, p) /\ p \in 0 .. DEVICE_ID_MAX /\ n \in 0 .. DEVICE_ID_MAX
  BY NodeAddress DEF TableOK, SlotOK, RoleOK
<1> HIDE DEF p, sid
<1>2. \A q \in A : q \in Heard(p) /\ Exchange(rx[p][q]) = x
  <2> SUFFICES ASSUME NEW q \in A PROVE q \in Heard(p) /\ Exchange(rx[p][q]) = x
    OBVIOUS
  <2> DEFINE f == rx[p][q]
  <2>1. /\ q \in DOMAIN rx[p]
        /\ CanIdFrom(f.id) = n /\ CanIdTo(f.id) = p /\ CanIdSession(f.id) = sid
    BY DEF InFlight, FrameKey
  <2> HIDE DEF f
  <2>2. Exchange(f) = x
    BY <1>1, <2>1, ExchangeFields
  <2> QED
    BY <2>1, <2>2 DEF Heard, f
<1>3. \A q \in B : q \in Heard(n) /\ Exchange(rx[n][q]) = x
  <2> SUFFICES ASSUME NEW q \in B PROVE q \in Heard(n) /\ Exchange(rx[n][q]) = x
    OBVIOUS
  <2> DEFINE f == rx[n][q]
  <2>1. /\ q \in DOMAIN rx[n]
        /\ CanIdFrom(f.id) = p /\ CanIdTo(f.id) = n /\ CanIdSession(f.id) = sid
    BY DEF InFlight, FrameKey
  <2> HIDE DEF f
  <2>2. Exchange(f) = x
    BY <1>1, <2>1, ExchangeFields
  <2> QED
    BY <2>1, <2>2 DEF Heard, f
<1>4. p \in Nodes
  BY DEF p
<1> HIDE DEF A, B
<1>5. /\ \A q, r \in A : q = r
      /\ \A q, r \in B : q = r
      /\ A = {} \/ B = {}
  BY <1>1, <1>2, <1>3, <1>4 DEF OneFrameUnderWay
<1>6. ASSUME NEW S, \A q, r \in S : q = r PROVE Cardinality(S) \in {0, 1}
  <2>1. CASE S = {}
    BY <2>1, FS_EmptySet
  <2>2. CASE S # {}
    <3>1. PICK q : S = {q}
      BY <1>6, <2>2
    <3> QED
      BY <3>1, FS_Singleton
  <2> QED
    BY <2>1, <2>2
<1>7. Cardinality({}) = 0
  BY FS_EmptySet
<1>8. Cardinality(A) \in {0, 1} /\ Cardinality(B) \in {0, 1}
  BY <1>5, <1>6
<1>9. Cardinality(A) + Cardinality(B) <= 1
  BY <1>5, <1>7, <1>8
<1> QED
  BY <1>9 DEF A, B, p, sid

\* The invariant of a prompt bus that only loses, for every number of nodes,
\* sessions, transfers and losses.
LEMMA ExchangesStayInOrder ==
  ASSUME PromptAcked
  PROVE  Spec => [](SessionInvariant /\ OutcomesOK /\ ExchangesInOrder)
<1>1. Init => SessionInvariant /\ OutcomesOK /\ ExchangesInOrder
  <2>1. Init => OutcomesOK
    BY DEF Init, OutcomesOK, OneOutcomePerTransfer, OnlyTxCarries, IsTx, FreeSession
  <2> QED
    BY <2>1, InitInvariant, InitExchanges
<1>2. SessionInvariant /\ OutcomesOK /\ ExchangesInOrder /\ [Next]_vars
        => SessionInvariant' /\ OutcomesOK' /\ ExchangesInOrder'
  BY NextInvariant, NextOutcomes, NextExchanges
<1> QED
  BY <1>1, <1>2, PTL DEF Spec

(***************************************************************************)
(* Where a frame is handled within the tick it was sent in and transfers   *)
(* are acknowledged, no transfer has more than one frame or answer under   *)
(* way, whatever is lost and wherever memory is short.                     *)
(***************************************************************************)
THEOREM TransfersStopAndWait == PromptAcked => (Spec => []StopAndWait)
<1> SUFFICES ASSUME PromptAcked PROVE Spec => []StopAndWait
  OBVIOUS
<1>1. SessionInvariant /\ ExchangesInOrder => StopAndWait
  BY InvariantParts, OneFrameStopsAndWaits DEF ExchangesInOrder
<1> QED
  BY <1>1, ExchangesStayInOrder, PTL

\* There a transfer that is reported as TX_FINISHED has been handed over.
THEOREM FinishedMeansDelivered == PromptAcked => (Spec => []FinishedIsDelivered)
<1> SUFFICES ASSUME PromptAcked PROVE Spec => []FinishedIsDelivered
  OBVIOUS
<1>1. ExchangesInOrder => FinishedIsDelivered
  BY DEF ExchangesInOrder
<1> QED
  BY <1>1, ExchangesStayInOrder, PTL

\* There a message that is handed over is one that its sender started to send.
THEOREM DeliveriesAreIntact == PromptAcked => (Spec => []DeliveredIntact)
<1> SUFFICES ASSUME PromptAcked PROVE Spec => []DeliveredIntact
  OBVIOUS
<1>1. ExchangesInOrder => DeliveredIntact
  BY DEF ExchangesInOrder
<1> QED
  BY <1>1, ExchangesStayInOrder, PTL

\* There a message is handed over once, when the messages sent are all different.
THEOREM DeliveriesAreSingle == PromptAcked /\ PayloadsDiffer => (Spec => []DeliveredOnce)
<1> SUFFICES ASSUME PromptAcked, PayloadsDiffer PROVE Spec => []DeliveredOnce
  OBVIOUS
<1>1. ExchangesInOrder => DeliveredOnce
  BY DEF ExchangesInOrder
<1> QED
  BY <1>1, ExchangesStayInOrder, PTL

-----------------------------------------------------------------------------
(* A bus that is late as much as it likes, but neither loses nor adds: a   *)
(* frame carries no number, yet the frames of one exchange that are on     *)
(* their way still tell, one behind the other, how far its transfer goes.  *)

\* Nodes may restart and run out of memory.  No message is refused: the NACK of
\* one transfer, when it is late, makes the next one repeat a chunk that is stored.
Reliable == Mishaps \subseteq {"restart", "alloc"} /\ Rejected = {}

\* How far a transfer has come.
Point == [xfer : Nat, offset : Nat]

\* Initiator, destination and identifier of what others may start to send to m.
ExchangesTo(m) ==
  {x \in (Nodes \ {m}) \X {m, ALL} \X (0 .. SESSION_ID_MAX) : x[3] % 2 = InitiatorBit(x[1], x[2])}

StandsAt(p, x, X) ==
  /\ p.xfer \in DOMAIN X /\ X[p.xfer].from = x[1] /\ X[p.xfer].to = x[2]
  /\ p.offset <= Len(X[p.xfer].data)

StartLeads(f, x, c, X) ==
  /\ CanIdCommand(f.id) \in {CMD_START, CMD_START_WA}
  /\ StandsAt(c, x, X) /\ c.offset = 0
  /\ X[c.xfer].mode = IF CanIdCommand(f.id) = CMD_START THEN WITH_ACK ELSE WITHOUT_ACK
DataLeads(f, x, a, c, X) ==
  /\ CanIdCommand(f.id) \in {CMD_DATA, CMD_DATA_WA}
  /\ StandsAt(a, x, X) /\ StandsAt(c, x, X) /\ c.xfer = a.xfer /\ a.offset <= c.offset
  /\ f.data = SubSeq(X[a.xfer].data, a.offset + 1, c.offset)
EndLeads(f, x, a, X) ==
  /\ CanIdCommand(f.id) \in {CMD_END, CMD_END_WA}
  /\ StandsAt(a, x, X) /\ a.offset = Len(X[a.xfer].data)

\* Frame f in the queue of m takes exchange x from point a to point c; END and
\* ABORT_WA are the end of a transfer, wherever the next one begins.
Leads(f, x, m, a, c, X) ==
  IF FrameKey(f) = x
  THEN /\ Accepted(m, f)
       /\ \/ StartLeads(f, x, c, X)
          \/ DataLeads(f, x, a, c, X)
          \/ EndLeads(f, x, a, X)
          \/ CanIdCommand(f.id) = CMD_ABORT_WA
  ELSE c = a

\* The frames of queue q take exchange x from point a to point c.
Way(b, q, x, m, X) ==
  /\ b \in [0 .. Len(q) -> Point]
  /\ \A i \in 1 .. Len(q) : Leads(q[i], x, m, b[i - 1], b[i], X)
AllLead(q, x, m, a, c, X) == \E b : Way(b, q, x, m, X) /\ b[0] = a /\ b[Len(q)] = c

\* What a receiving slot holds is the transfer up to p.
Stored(s, x, p, X) ==
  /\ StandsAt(p, x, X) /\ s.mode = X[p.xfer].mode
  /\ s.payload = SubSeq(X[p.xfer].data, 1, p.offset)
Received(T, x, p, X) ==
  \A j \in Slots : T[j].state = "RX" /\ Key(T[j]) = x => Stored(T[j], x, p, X)

\* A sending slot that is not done, and how much of its payload it has sent.
Sending(s) == s.state \in {"TX_WITHOUT_ACK", "TX_WAIT_START_ACK", "TX_WAIT_DATA_ACK"}
SentUpTo(s) == IF s.state = "TX_WAIT_DATA_ACK" THEN s.offset + s.lastlen ELSE s.offset
Emitted(T, x, p) ==
  \A j \in Slots : Sending(T[j]) /\ SlotExchange(T[j]) = x =>
    p.xfer = T[j].xfer /\ p.offset = SentUpTo(T[j])

\* From what the table T of the receiver holds, the queue leads to what the
\* table S of the sender has sent.
Continues(q, T, S, x, m, X) ==
  \E a, c \in Point : AllLead(q, x, m, a, c, X) /\ Received(T, x, a, X) /\ Emitted(S, x, c)

ExchangesContinue ==
  \A m \in Nodes : \A x \in ExchangesTo(m) : Continues(rx[m], sess[m], sess[x[1]], x, m, xfers)

\* What a sending slot of n knows of its transfer.
Carries(n, s, X) ==
  IsTx(s) => /\ s.xfer \in DOMAIN X /\ X[s.xfer].from = n /\ X[s.xfer].to = s.peer
             /\ X[s.xfer].mode = s.mode /\ X[s.xfer].data = s.payload
             /\ s.mode = WITHOUT_ACK <=> s.state = "TX_WITHOUT_ACK"
             /\ s.peer = ALL => s.mode = WITHOUT_ACK
AllCarry == \A n \in Nodes, i \in Slots : Carries(n, sess[n][i], xfers)

\* Nobody refuses a message, and no node hears itself.
NoNack(m, f) == CanIdFrom(f.id) \in Nodes \ {m} /\ CanIdCommand(f.id) # CMD_NACK
NoNacks == \A m \in Nodes : \A q \in DOMAIN rx[m] : NoNack(m, rx[m][q])

\* What goes to everybody is not acknowledged.
Broadcasts(X) == \A k \in DOMAIN X : X[k].to = ALL => X[k].mode = WITHOUT_ACK

TransfersContinue ==
  ExchangesContinue /\ AllCarry /\ Broadcasts(xfers) /\ NoNacks /\ DeliveredIntact

\* What a run of the bus can rely on at any time.
OnTheWay == TableOK /\ BusOK /\ HistoryOK /\ TransfersContinue

\* The transfers Y are those of X, some of them ended, and later ones.
Extends(X, Y) ==
  /\ DOMAIN X \subseteq DOMAIN Y
  /\ \A k \in DOMAIN X : /\ Y[k].from = X[k].from /\ Y[k].to = X[k].to
                         /\ Y[k].mode = X[k].mode /\ Y[k].data = X[k].data

LEMMA ExtendsLeads ==
  ASSUME NEW X, NEW Y, Extends(X, Y), NEW x, NEW p, NEW a, NEW c, NEW f, NEW m, NEW s
  PROVE  /\ StandsAt(p, x, X) => StandsAt(p, x, Y)
         /\ Leads(f, x, m, a, c, X) => Leads(f, x, m, a, c, Y)
         /\ Stored(s, x, p, X) => Stored(s, x, p, Y)
<1>1. \A r : StandsAt(r, x, X) => StandsAt(r, x, Y) /\ Y[r.xfer].mode = X[r.xfer].mode
                                  /\ Y[r.xfer].data = X[r.xfer].data
  BY DEF Extends, StandsAt
<1>2. StartLeads(f, x, c, X) => StartLeads(f, x, c, Y)
  BY <1>1 DEF StartLeads
<1>3. DataLeads(f, x, a, c, X) => DataLeads(f, x, a, c, Y)
  BY <1>1 DEF DataLeads
<1>4. EndLeads(f, x, a, X) => EndLeads(f, x, a, Y)
  BY <1>1 DEF EndLeads
<1>5. Stored(s, x, p, X) => Stored(s, x, p, Y)
  BY <1>1 DEF Stored
<1> QED
  BY <1>1, <1>2, <1>3, <1>4, <1>5 DEF Leads

LEMMA ExtendsReceived ==
  ASSUME NEW X, NEW Y, Extends(X, Y), NEW T, NEW x, NEW p, Received(T, x, p, X)
  PROVE  Received(T, x, p, Y)
<1> SUFFICES ASSUME NEW j \in Slots, T[j].state = "RX", Key(T[j]) = x PROVE Stored(T[j], x, p, Y)
  BY DEF Received
<1>1. Stored(T[j], x, p, X)
  BY DEF Received
<1> QED
  BY <1>1, ExtendsLeads

\* The way that is left when the first frame is taken.
LEMMA AllLeadBehind ==
  ASSUME NEW q \in Seq(HonestFrame), q # <<>>, NEW x, NEW m, NEW X, NEW a, NEW c,
         AllLead(q, x, m, a, c, X)
  PROVE  \E p \in Point : Leads(Head(q), x, m, a, p, X) /\ AllLead(Tail(q), x, m, p, c, X)
<1> DEFINE l == Len(q)
           r == Tail(q)
<1>0. PICK b : Way(b, q, x, m, X) /\ b[0] = a /\ b[l] = c
  BY DEF AllLead
<1> DEFINE d == [i \in 0 .. l - 1 |-> b[i + 1]]
<1>1. l \in Nat \ {0} /\ Head(q) = q[1]
  BY LenProperties, EmptySeq
<1>2. Len(r) = l - 1 /\ \A i \in 1 .. l - 1 : r[i] = q[i + 1]
  BY HeadTailProperties
<1>3. b \in [0 .. l -> Point] /\ \A i \in 1 .. l : Leads(q[i], x, m, b[i - 1], b[i], X)
  BY <1>0 DEF Way, l
<1> HIDE DEF l, r
<1>4. d \in [0 .. l - 1 -> Point] /\ \A i \in 0 .. l - 1 : d[i] = b[i + 1]
  BY <1>1, <1>3
<1> HIDE DEF d
<1>5. ASSUME NEW i \in 1 .. l - 1 PROVE Leads(r[i], x, m, d[i - 1], d[i], X)
  <2>1. Leads(q[i + 1], x, m, b[(i + 1) - 1], b[i + 1], X)
    BY <1>1, <1>3
  <2>2. r[i] = q[i + 1] /\ d[i] = b[i + 1] /\ d[i - 1] = b[(i + 1) - 1]
    BY <1>1, <1>2, <1>4
  <2> QED
    BY <2>1, <2>2
<1>6. Way(d, r, x, m, X)
  BY <1>2, <1>4, <1>5 DEF Way
<1>7. d[0] = b[1] /\ d[Len(r)] = c /\ b[1] \in Point
  BY <1>0, <1>1, <1>2, <1>3, <1>4
<1>8. Leads(q[1], x, m, a, b[1], X)
  BY <1>0, <1>1, <1>3
<1>9. AllLead(r, x, m, b[1], c, X)
  BY <1>6, <1>7 DEF AllLead
<1> QED
  BY <1>1, <1>7, <1>8, <1>9 DEF r

\* The way goes on with a frame behind the last.
LEMMA AllLeadOn ==
  ASSUME NEW q \in Seq(HonestFrame), NEW x, NEW m, NEW X, NEW a, NEW p,
         AllLead(q, x, m, a, p, X), NEW f, NEW c \in Point, Leads(f, x, m, p, c, X)
  PROVE  AllLead(Append(q, f), x, m, a, c, X)
<1> DEFINE l == Len(q)
           r == Append(q, f)
<1>0. PICK b : Way(b, q, x, m, X) /\ b[0] = a /\ b[l] = p
  BY DEF AllLead
<1> DEFINE d == [i \in 0 .. l + 1 |-> IF i = l + 1 THEN c ELSE b[i]]
<1>1. l \in Nat /\ Len(r) = l + 1 /\ r[l + 1] = f /\ \A i \in 1 .. l : r[i] = q[i]
  BY LenProperties
<1>2. b \in [0 .. l -> Point] /\ \A i \in 1 .. l : Leads(q[i], x, m, b[i - 1], b[i], X)
  BY <1>0 DEF Way
<1> HIDE DEF l, r
<1>4. /\ d \in [0 .. l + 1 -> Point] /\ d[l + 1] = c
      /\ \A i \in 0 .. l : d[i] = b[i]
  BY <1>1, <1>2
<1> HIDE DEF d
<1>5. ASSUME NEW i \in 1 .. l + 1 PROVE Leads(r[i], x, m, d[i - 1], d[i], X)
  <2>1. CASE i \in 1 .. l
    <3>1. Leads(q[i], x, m, b[i - 1], b[i], X)
      BY <1>2, <2>1
    <3>2. r[i] = q[i] /\ d[i] = b[i] /\ d[i - 1] = b[i - 1]
      BY <1>1, <1>4, <2>1
    <3> QED
      BY <3>1, <3>2
  <2>2. CASE i = l + 1
    <3>1. r[i] = f /\ d[i] = c /\ d[i - 1] = p
      BY <1>0, <1>1, <1>4, <2>2
    <3> QED
      BY <3>1
  <2> QED
    BY <1>1, <2>1, <2>2
<1>6. Way(d, r, x, m, X)
  BY <1>1, <1>4, <1>5 DEF Way
<1>7. d[0] = a /\ d[Len(r)] = c
  BY <1>0, <1>1, <1>4
<1>8. AllLead(r, x, m, a, c, X)
  BY <1>6, <1>7 DEF AllLead
<1> QED
  BY <1>8 DEF r

LEMMA AllLeadExtends ==
  ASSUME NEW X, NEW Y, Extends(X, Y), NEW q, NEW x, NEW m, NEW a, NEW c,
         AllLead(q, x, m, a, c, X)
  PROVE  AllLead(q, x, m, a, c, Y)
<1>0. PICK b : Way(b, q, x, m, X) /\ b[0] = a /\ b[Len(q)] = c
  BY DEF AllLead
<1>1. \A i \in 1 .. Len(q) : Leads(q[i], x, m, b[i - 1], b[i], X)
  BY <1>0 DEF Way
<1>2. \A i \in 1 .. Len(q) : Leads(q[i], x, m, b[i - 1], b[i], Y)
  BY <1>1, ExtendsLeads
<1>3. Way(b, q, x, m, Y)
  BY <1>0, <1>2 DEF Way
<1> QED
  BY <1>0, <1>3 DEF AllLead

\* Both ends may lose what they know.
LEMMA ContinuesStill ==
  ASSUME NEW X, NEW Y, Extends(X, Y), NEW q, NEW x, NEW m, NEW T, NEW U, NEW S, NEW V,
         Continues(q, T, S, x, m, X),
         \A a \in Point : Received(T, x, a, X) => Received(U, x, a, X),
         \A a \in Point : Emitted(S, x, a) => Emitted(V, x, a)
  PROVE  Continues(q, U, V, x, m, Y)
<1>1. PICK a, c \in Point :
        AllLead(q, x, m, a, c, X) /\ Received(T, x, a, X) /\ Emitted(S, x, c)
  BY DEF Continues
<1>2. AllLead(q, x, m, a, c, Y) /\ Received(U, x, a, Y) /\ Emitted(V, x, c)
  BY <1>1, AllLeadExtends, ExtendsReceived
<1> QED
  BY <1>2 DEF Continues

\* The receiver takes a frame.
LEMMA ContinuesBehind ==
  ASSUME NEW X, NEW q \in Seq(HonestFrame), q # <<>>, NEW x, NEW m, NEW T, NEW U, NEW S,
         Continues(q, T, S, x, m, X),
         \A a, c \in Point : Leads(Head(q), x, m, a, c, X) /\ Received(T, x, a, X) =>
                               Received(U, x, c, X)
  PROVE  Continues(Tail(q), U, S, x, m, X)
<1>1. PICK a, c \in Point :
        AllLead(q, x, m, a, c, X) /\ Received(T, x, a, X) /\ Emitted(S, x, c)
  BY DEF Continues
<1>2. PICK p \in Point : Leads(Head(q), x, m, a, p, X) /\ AllLead(Tail(q), x, m, p, c, X)
  BY <1>1, AllLeadBehind
<1>3. Received(U, x, p, X)
  BY <1>1, <1>2
<1> QED
  BY <1>1, <1>2, <1>3 DEF Continues

\* The sender puts one behind the others.
LEMMA ContinuesOn ==
  ASSUME NEW X, NEW Y, Extends(X, Y), NEW q \in Seq(HonestFrame), NEW x, NEW m,
         NEW T, NEW S, NEW V, Continues(q, T, S, x, m, X), NEW f,
         \A a \in Point : Emitted(S, x, a) =>
            \E c \in Point : Leads(f, x, m, a, c, Y) /\ Emitted(V, x, c)
  PROVE  Continues(Append(q, f), T, V, x, m, Y)
<1>1. PICK a, c \in Point :
        AllLead(q, x, m, a, c, X) /\ Received(T, x, a, X) /\ Emitted(S, x, c)
  BY DEF Continues
<1>2. AllLead(q, x, m, a, c, Y) /\ Received(T, x, a, Y)
  BY <1>1, AllLeadExtends, ExtendsReceived
<1>3. PICK p \in Point : Leads(f, x, m, c, p, Y) /\ Emitted(V, x, p)
  BY <1>1
<1>4. AllLead(Append(q, f), x, m, a, p, Y)
  BY <1>2, <1>3, AllLeadOn
<1> QED
  BY <1>2, <1>3, <1>4 DEF Continues

\* What a call of n has to keep: what the frame that it takes leads to is in its
\* receiving slots; they hold no more than before; what it sends goes on from
\* what it had sent.
Takes(n) ==
  \A x \in ExchangesTo(n) : \A a, c \in Point :
    Leads(Head(rx[n]), x, n, a, c, xfers) /\ Received(sess[n], x, a, xfers) =>
      Received(sess'[n], x, c, xfers)
Remains(n) ==
  \A x \in ExchangesTo(n) : \A a \in Point :
    Received(sess[n], x, a, xfers) => Received(sess'[n], x, a, xfers)
GoesOn(n, out) ==
  \A m \in Nodes \ {n} : \A x \in ExchangesTo(m) : x[1] = n =>
    \A a \in Point : Emitted(sess[n], x, a) =>
      \E c \in Point : /\ Emitted(sess'[n], x, c)
                       /\ out = <<>> => c = a
                       /\ \A f : out = <<f>> => Leads(f, x, m, a, c, xfers')

LEMMA CallContinues ==
  ASSUME ExchangesContinue, TableOK, BusOK, NEW n \in Nodes, Extends(xfers, xfers'),
         sess' = sess \/ \E i, t : SetSlot(n, i, t),
         NEW out, out = <<>> \/ \E f : out = <<f>> /\ CanIdFrom(f.id) = n,
         (rx[n] # <<>> /\ Answer(n, out) /\ Takes(n)) \/ (Emit(n, out) /\ Remains(n)),
         GoesOn(n, out)
  PROVE  ExchangesContinue'
<1> SUFFICES ASSUME NEW m \in Nodes, NEW x \in ExchangesTo(m)
             PROVE  Continues(rx'[m], sess'[m], sess'[x[1]], x, m, xfers')
  BY DEF ExchangesContinue
<1>1. Continues(rx[m], sess[m], sess[x[1]], x, m, xfers) /\ rx[m] \in Seq(HonestFrame)
  BY DEF ExchangesContinue, BusOK
<1>2. x[1] \in Nodes \ {m}
  BY DEF ExchangesTo
<1>3. \A k \in Nodes \ {n} : sess'[k] = sess[k]
  BY DEF SetSlot, TableOK
<1>4. \A T, p : Received(T, x, p, xfers) => Received(T, x, p, xfers')
  BY ExtendsReceived
<1>5. Extends(xfers, xfers)
  BY DEF Extends
<1>6. CASE m = n
  <2>1. sess'[x[1]] = sess[x[1]]
    BY <1>2, <1>3, <1>6
  <2>2. CASE rx[n] # <<>> /\ Answer(n, out) /\ Takes(n)
    <3>1. rx'[m] = Tail(rx[m]) /\ Tail(rx[m]) \in Seq(HonestFrame)
      BY <1>1, <1>6, <2>2, HeadTailProperties DEF Answer
    <3>2. Continues(Tail(rx[m]), sess'[m], sess[x[1]], x, m, xfers)
      <4>1. \A a, c \in Point : Leads(Head(rx[m]), x, m, a, c, xfers) /\ Received(sess[m], x, a, xfers) =>
                                  Received(sess'[m], x, c, xfers)
        BY <1>6, <2>2 DEF Takes
      <4> QED
        BY <1>1, <1>6, <2>2, <4>1, ContinuesBehind
    <3>3. Continues(Tail(rx[m]), sess'[m], sess[x[1]], x, m, xfers')
      <4> DEFINE r == Tail(rx[m])
                 T == sess'[m]
                 S == sess[x[1]]
      <4>1. r \in Seq(HonestFrame) /\ Continues(r, T, S, x, m, xfers)
        BY <3>1, <3>2
      <4> HIDE DEF r, T, S
      <4>2. Continues(r, T, S, x, m, xfers')
        BY <4>1, ContinuesStill
      <4> QED
        BY <4>2 DEF r, T, S
    <3> QED
      BY <2>1, <3>1, <3>3
  <2>3. CASE Emit(n, out) /\ Remains(n)
    <3>1. rx'[m] = rx[m]
      BY <1>6, <2>3 DEF Emit
    <3>2. \A a \in Point : Received(sess[m], x, a, xfers) => Received(sess'[m], x, a, xfers)
      BY <1>6, <2>3 DEF Remains
    <3> QED
      BY <1>1, <2>1, <3>1, <3>2, ContinuesStill
  <2> QED
    BY <2>2, <2>3
<1>7. CASE m # n
  <2>1. sess'[m] = sess[m] /\ rx'[m] = rx[m] \o out
    BY <1>3, <1>7 DEF Answer, Emit
  <2>2. CASE out = <<>>
    <3>1. rx'[m] = rx[m]
      BY <1>1, <2>1, <2>2, ConcatEmptySeq
    <3>2. \A a \in Point : Emitted(sess[x[1]], x, a) => Emitted(sess'[x[1]], x, a)
      <4>1. CASE x[1] = n
        BY <1>7, <2>2, <4>1 DEF GoesOn
      <4>2. CASE x[1] # n
        BY <1>2, <1>3, <4>2
      <4> QED
        BY <4>1, <4>2
    <3> QED
      BY <1>1, <2>1, <3>1, <3>2, ContinuesStill
  <2>3. ASSUME NEW f, out = <<f>>, CanIdFrom(f.id) = n
        PROVE  Continues(rx'[m], sess'[m], sess'[x[1]], x, m, xfers')
    <3>1. rx'[m] = Append(rx[m], f)
      BY <1>1, <2>1, <2>3
    <3>2. \A a \in Point : Emitted(sess[x[1]], x, a) =>
            \E c \in Point : Leads(f, x, m, a, c, xfers') /\ Emitted(sess'[x[1]], x, c)
      <4>1. CASE x[1] = n
        BY <1>7, <2>3, <4>1 DEF GoesOn
      <4>2. CASE x[1] # n
        <5>1. FrameKey(f) # x
          BY <2>3, <4>2 DEF FrameKey
        <5>2. \A a : Leads(f, x, m, a, a, xfers')
          BY <5>1 DEF Leads
        <5>3. sess'[x[1]] = sess[x[1]]
          BY <1>2, <1>3, <4>2
        <5> QED
          BY <5>2, <5>3
      <4> QED
        BY <4>1, <4>2
    <3>3. Continues(Append(rx[m], f), sess[m], sess'[x[1]], x, m, xfers')
      BY <1>1, <3>2, ContinuesOn
    <3> QED
      BY <2>1, <3>1, <3>3
  <2> QED
    BY <2>2, <2>3
<1> QED
  BY <1>6, <1>7

\* Slots that differ in nothing but their times and their buffer.
Alike(s, t) ==
  /\ t.state = s.state /\ t.mode = s.mode /\ t.payload = s.payload
  /\ t.peer = s.peer /\ t.local = s.local /\ t.sid = s.sid
  /\ t.offset = s.offset /\ t.lastlen = s.lastlen /\ t.xfer = s.xfer

LEMMA AlikeSlots ==
  ASSUME NEW s, NEW t, Alike(s, t)
  PROVE  /\ Key(t) = Key(s) /\ SlotExchange(t) = SlotExchange(s)
         /\ IsTx(t) <=> IsTx(s)
         /\ Sending(t) <=> Sending(s)
         /\ SentUpTo(t) = SentUpTo(s)
         /\ \A x, p, X : Stored(s, x, p, X) => Stored(t, x, p, X)
         /\ \A n, X : Carries(n, s, X) => Carries(n, t, X)
BY DEF Alike, Key, SlotExchange, IsTx, Sending, SentUpTo, Stored, Carries

\* A frame is taken and no receiving slot has its key any more.
LEMMA TakesAway ==
  ASSUME NEW n \in Nodes, NEW f, f = Head(rx[n]),
         \A j \in Slots : sess'[n][j].state = "RX" =>
           /\ Alike(sess[n][j], sess'[n][j])
           /\ Accepted(n, f) => Key(sess'[n][j]) # FrameKey(f)
  PROVE  Takes(n)
<1> SUFFICES ASSUME NEW x \in ExchangesTo(n), NEW a \in Point, NEW c \in Point,
                    Leads(f, x, n, a, c, xfers), Received(sess[n], x, a, xfers),
                    NEW j \in Slots, sess'[n][j].state = "RX", Key(sess'[n][j]) = x
             PROVE  Stored(sess'[n][j], x, c, xfers)
  BY DEF Takes, Received
<1> DEFINE s == sess[n][j]
           t == sess'[n][j]
<1>1. Alike(s, t) /\ FrameKey(f) # x
  BY DEF Leads
<1>2. c = a
  BY <1>1 DEF Leads
<1>3. s.state = "RX" /\ Key(s) = x
  BY <1>1, AlikeSlots DEF Alike
<1>4. Stored(s, x, a, xfers)
  BY <1>3 DEF Received
<1> HIDE DEF s, t
<1>5. Stored(t, x, a, xfers)
  BY <1>1, <1>4, AlikeSlots
<1> QED
  BY <1>2, <1>5 DEF t

\* Receiving slots are left alone or released.
LEMMA RemainsAlike ==
  ASSUME NEW n \in Nodes, \A j \in Slots : sess'[n][j].state = "RX" => Alike(sess[n][j], sess'[n][j])
  PROVE  Remains(n)
<1> SUFFICES ASSUME NEW x \in ExchangesTo(n), NEW a \in Point, Received(sess[n], x, a, xfers),
                    NEW j \in Slots, sess'[n][j].state = "RX", Key(sess'[n][j]) = x
             PROVE  Stored(sess'[n][j], x, a, xfers)
  BY DEF Remains, Received
<1> DEFINE s == sess[n][j]
           t == sess'[n][j]
<1>1. Alike(s, t)
  OBVIOUS
<1>2. s.state = "RX" /\ Key(s) = x
  BY <1>1, AlikeSlots DEF Alike
<1>3. Stored(s, x, a, xfers)
  BY <1>2 DEF Received
<1> HIDE DEF s, t
<1>4. Stored(t, x, a, xfers)
  BY <1>1, <1>3, AlikeSlots
<1> QED
  BY <1>4 DEF t

\* A frame is taken into the slot that has its key.
LEMMA TakesIn ==
  ASSUME TableOK, NEW n \in Nodes, NEW f, f = Head(rx[n]),
         NEW i \in Slots, NEW t, SetSlot(n, i, t), NEW y, y = FrameKey(f), Key(t) = y,
         \A j \in Slots \ {i} : Busy(sess[n][j]) => Key(sess[n][j]) # y,
         \A a, c \in Point : Leads(f, y, n, a, c, xfers) /\ Received(sess[n], y, a, xfers) =>
           Stored(t, y, c, xfers)
  PROVE  Takes(n)
<1>1. \A j \in Slots : sess'[n][j] = IF j = i THEN t ELSE sess[n][j]
  BY DEF SetSlot, TableOK
<1> SUFFICES ASSUME NEW x \in ExchangesTo(n), NEW a \in Point, NEW c \in Point,
                    Leads(f, x, n, a, c, xfers), Received(sess[n], x, a, xfers),
                    NEW j \in Slots, sess'[n][j].state = "RX", Key(sess'[n][j]) = x
             PROVE  Stored(sess'[n][j], x, c, xfers)
  BY DEF Takes, Received
<1>2. CASE j = i
  <2>1. sess'[n][j] = t /\ x = y
    BY <1>1, <1>2
  <2> QED
    BY <2>1
<1>3. CASE j # i
  <2>1. sess'[n][j] = sess[n][j]
    BY <1>1, <1>3
  <2>2. x # y
    BY <1>3, <2>1 DEF Busy
  <2>3. c = a
    BY <2>2 DEF Leads
  <2> QED
    BY <2>1, <2>3 DEF Received
<1> QED
  BY <1>2, <1>3

\* A node that sends nothing, or what tells the other side nothing.
LEMMA GoesQuietly ==
  ASSUME NEW n \in Nodes, NEW out,
         \A j \in Slots : Sending(sess'[n][j]) => Alike(sess[n][j], sess'[n][j]),
         \A f : out = <<f>> => \A m \in Nodes \ {n} : \A x \in ExchangesTo(m) :
           x[1] = n /\ FrameKey(f) = x => Accepted(m, f) /\ CanIdCommand(f.id) = CMD_ABORT_WA
  PROVE  GoesOn(n, out)
<1> SUFFICES ASSUME NEW m \in Nodes \ {n}, NEW x \in ExchangesTo(m), x[1] = n,
                    NEW a \in Point, Emitted(sess[n], x, a)
             PROVE  /\ Emitted(sess'[n], x, a)
                    /\ \A f : out = <<f>> => Leads(f, x, m, a, a, xfers')
  BY DEF GoesOn
<1>1. Emitted(sess'[n], x, a)
  <2> SUFFICES ASSUME NEW j \in Slots, Sending(sess'[n][j]), SlotExchange(sess'[n][j]) = x
               PROVE  a.xfer = sess'[n][j].xfer /\ a.offset = SentUpTo(sess'[n][j])
    BY DEF Emitted
  <2> DEFINE s == sess[n][j]
             t == sess'[n][j]
  <2>1. Alike(s, t)
    OBVIOUS
  <2>2. Sending(s) /\ SlotExchange(s) = x /\ SentUpTo(t) = SentUpTo(s) /\ t.xfer = s.xfer
    BY <2>1, AlikeSlots DEF Alike
  <2>3. a.xfer = s.xfer /\ a.offset = SentUpTo(s)
    BY <2>2 DEF Emitted
  <2> QED
    BY <2>2, <2>3
<1>2. ASSUME NEW f, out = <<f>> PROVE Leads(f, x, m, a, a, xfers')
  BY <1>2 DEF Leads
<1> QED
  BY <1>1, <1>2

\* A node that sends the next frame of exchange y from slot i.
LEMMA GoesFurther ==
  ASSUME TableOK, NEW n \in Nodes, NEW i \in Slots, NEW t, SetSlot(n, i, t),
         NEW f, NEW y, y = FrameKey(f),
         Sending(t) => SlotExchange(t) = y,
         \A j \in Slots \ {i} : Sending(sess[n][j]) => SlotExchange(sess[n][j]) # y,
         Sending(sess[n][i]) => SlotExchange(sess[n][i]) = y,
         \A m \in Nodes \ {n} : y \in ExchangesTo(m) =>
           \A a \in Point : Emitted(sess[n], y, a) =>
             \E c \in Point : /\ Leads(f, y, m, a, c, xfers')
                              /\ Sending(t) => c.xfer = t.xfer /\ c.offset = SentUpTo(t)
  PROVE  GoesOn(n, <<f>>)
<1>1. \A j \in Slots : sess'[n][j] = IF j = i THEN t ELSE sess[n][j]
  BY DEF SetSlot, TableOK
<1> SUFFICES ASSUME NEW m \in Nodes \ {n}, NEW x \in ExchangesTo(m), x[1] = n,
                    NEW a \in Point, Emitted(sess[n], x, a)
             PROVE  \E c \in Point : Emitted(sess'[n], x, c) /\ Leads(f, x, m, a, c, xfers')
  BY DEF GoesOn
<1>2. CASE x = y
  <2>1. PICK c \in Point : /\ Leads(f, y, m, a, c, xfers')
                           /\ Sending(t) => c.xfer = t.xfer /\ c.offset = SentUpTo(t)
    BY <1>2
  <2>2. Emitted(sess'[n], x, c)
    BY <1>1, <1>2, <2>1 DEF Emitted
  <2> QED
    BY <1>2, <2>1, <2>2
<1>3. CASE x # y
  <2>1. Leads(f, x, m, a, a, xfers')
    BY <1>3 DEF Leads
  <2>2. Emitted(sess'[n], x, a)
    BY <1>1, <1>3 DEF Emitted
  <2> QED
    BY <2>1, <2>2
<1> QED
  BY <1>2, <1>3

\* What exchange y that n begins is made of.
LEMMA ExchangeOf ==
  ASSUME NEW m \in Nodes, NEW x \in ExchangesTo(m)
  PROVE  /\ x = <<x[1], x[2], x[3]>> /\ x[1] \in Nodes /\ x[1] # m /\ x[2] \in {m, ALL}
         /\ x[3] \in 0 .. SESSION_ID_MAX /\ x[3] % 2 = InitiatorBit(x[1], x[2])
         /\ x[1] \in 0 .. DEVICE_ID_MAX /\ x[2] \in 0 .. DEVICE_ID_MAX /\ x[1] # x[2]
<1>1. ALL \in 0 .. DEVICE_ID_MAX
  BY DEF ALL, DEVICE_ID_MAX
<1> QED
  BY <1>1, NodeAddress DEF ExchangesTo

\* A frame of n reaches who it is for.
LEMMA AcceptedThere ==
  ASSUME NEW n \in Nodes, NEW m \in Nodes \ {n}, NEW to \in {m, ALL},
         NEW sid \in 0 .. SESSION_ID_MAX, NEW cmd \in Commands, NEW data, Len(data) <= MaxLen,
         to = ALL => WithoutAck(cmd)
  PROVE  /\ Accepted(m, MakeFrame(n, to, sid, cmd, data))
         /\ FrameKey(MakeFrame(n, to, sid, cmd, data)) = <<n, to, sid>>
<1>1. to \in 0 .. DEVICE_ID_MAX /\ n # ALL /\ cmd <= CMD_ABORT_WA
  BY NodeAddress DEF ALL, DEVICE_ID_MAX, Commands
<1> DEFINE f == MakeFrame(n, to, sid, cmd, data)
<1>2. /\ CanIdFrom(f.id) = n /\ CanIdTo(f.id) = to /\ CanIdSession(f.id) = sid
      /\ CanIdCommand(f.id) = cmd /\ f.data = data
  BY <1>1, FrameFields
<1> HIDE DEF f
<1>3. Accepted(m, f) /\ FrameKey(f) = <<n, to, sid>>
  BY <1>1, <1>2 DEF Accepted, FrameKey
<1> QED
  BY <1>3 DEF f

\* What n may answer: ABORT_WA, or a frame of an exchange that it did not begin.
LEMMA AnswersQuietly ==
  ASSUME NEW n \in Nodes, NEW b \in 0 .. DEVICE_ID_MAX, NEW sid \in 0 .. SESSION_ID_MAX,
         NEW cmd \in Commands, NEW f, f = MakeFrame(n, b, sid, cmd, <<>>),
         cmd = CMD_ABORT_WA \/ (b # n /\ sid % 2 = InitiatorBit(b, n)),
         NEW m \in Nodes \ {n}, NEW x \in ExchangesTo(m), x[1] = n, FrameKey(f) = x
  PROVE  Accepted(m, f) /\ CanIdCommand(f.id) = CMD_ABORT_WA
<1>1. /\ CanIdFrom(f.id) = n /\ CanIdTo(f.id) = b /\ CanIdSession(f.id) = sid
      /\ CanIdCommand(f.id) = cmd
  BY FrameFields
<1>2. x[2] = b /\ x[3] = sid
  BY <1>1 DEF FrameKey
<1>3. cmd = CMD_ABORT_WA
  <2> SUFFICES ASSUME b # n, sid % 2 = InitiatorBit(b, n) PROVE FALSE
    OBVIOUS
  <2>1. InitiatorBit(n, b) = InitiatorBit(b, n)
    BY <1>2, ExchangeOf
  <2> QED
    BY <2>1, NodeAddress, BitsDiffer
<1>4. b \in {m, ALL} /\ WithoutAck(cmd) /\ Len(<<>>) <= MaxLen
  BY <1>2, <1>3, ExchangeOf, SizesAssumption DEF WithoutAck
<1> QED
  BY <1>1, <1>3, <1>4, AcceptedThere

\* A command that is handled knows one transfer more, or an outcome more.
LEMMA SameHistory ==
  ASSUME TransfersContinue, SameTransfers(xfers, xfers'), got' = got
  PROVE  Extends(xfers, xfers') /\ Broadcasts(xfers') /\ DeliveredIntact'
<1>1. Extends(xfers, xfers')
  BY DEF SameTransfers, Extends
<1>2. Broadcasts(xfers')
  BY DEF TransfersContinue, Broadcasts, SameTransfers
<1>3. DeliveredIntact'
  BY DEF TransfersContinue, DeliveredIntact, SameTransfers
<1> QED
  BY <1>1, <1>2, <1>3

\* A call of n that writes at most one slot and sends at most one frame.
LEMMA CallKeeps ==
  ASSUME OnTheWay, NEW n \in Nodes, Extends(xfers, xfers'), Broadcasts(xfers'), DeliveredIntact',
         sess' = sess \/ \E i \in Slots : \E t : SetSlot(n, i, t) /\ Carries(n, t, xfers'),
         NEW out,
         out = <<>> \/ \E f : /\ out = <<f>> /\ CanIdFrom(f.id) = n
                              /\ CanIdCommand(f.id) # CMD_NACK,
         (rx[n] # <<>> /\ Answer(n, out) /\ Takes(n)) \/ (Emit(n, out) /\ Remains(n)),
         GoesOn(n, out)
  PROVE  TransfersContinue'
<1>1. /\ TableOK /\ BusOK /\ ExchangesContinue /\ AllCarry /\ NoNacks
  BY DEF OnTheWay, TransfersContinue
<1>2. ExchangesContinue'
  BY <1>1, CallContinues
<1>3. AllCarry'
  <2>1. \A m, s : Carries(m, s, xfers) => Carries(m, s, xfers')
    BY DEF Carries, Extends
  <2>2. CASE sess' = sess
    BY <1>1, <2>1, <2>2 DEF AllCarry
  <2>3. ASSUME NEW i \in Slots, NEW t, SetSlot(n, i, t), Carries(n, t, xfers')
        PROVE  AllCarry'
    <3>1. \A m \in Nodes, j \in Slots : sess'[m][j] = IF m = n /\ j = i THEN t ELSE sess[m][j]
      BY <1>1, <2>3 DEF SetSlot, TableOK
    <3>2. \A m \in Nodes, j \in Slots : Carries(m, sess'[m][j], xfers')
      BY <1>1, <2>1, <2>3, <3>1 DEF AllCarry
    <3> QED
      BY <3>2 DEF AllCarry
  <2> QED
    BY <2>2, <2>3
<1>4. NoNacks'
  <2> SUFFICES ASSUME NEW m \in Nodes, NEW q \in DOMAIN rx'[m] PROVE NoNack(m, rx'[m][q])
    BY DEF NoNacks
  <2>1. \/ /\ q + Taken(n, m, out) \in DOMAIN rx[m]
           /\ rx'[m][q] = rx[m][q + Taken(n, m, out)]
        \/ m # n /\ out = <<rx'[m][q]>>
    BY <1>1, QueueAfter
  <2>2. CASE /\ q + Taken(n, m, out) \in DOMAIN rx[m]
             /\ rx'[m][q] = rx[m][q + Taken(n, m, out)]
    BY <1>1, <2>2 DEF NoNacks
  <2>3. CASE m # n /\ out = <<rx'[m][q]>>
    <3>1. PICK f : out = <<f>> /\ CanIdFrom(f.id) = n /\ CanIdCommand(f.id) # CMD_NACK
      BY <2>3
    <3>2. rx'[m][q] = f
      BY <2>3, <3>1
    <3> QED
      BY <2>3, <3>1, <3>2 DEF NoNack
  <2> QED
    BY <2>1, <2>2, <2>3
<1> QED
  BY <1>2, <1>3, <1>4 DEF TransfersContinue

\* The frame is taken by slot i, which holds nothing of its exchange afterwards.
LEMMA FrameIsTaken ==
  ASSUME NEW n \in Nodes, NEW f, f = Head(rx[n]), NEW i \in Slots, sess'[n][i].state # "RX",
         \A j \in Slots \ {i} : sess'[n][j] = sess[n][j],
         \A j \in Slots \ {i} : Busy(sess[n][j]) => Key(sess[n][j]) # FrameKey(f)
  PROVE  Takes(n)
<1>1. ASSUME NEW j \in Slots, sess'[n][j].state = "RX"
      PROVE  /\ Alike(sess[n][j], sess'[n][j])
             /\ Key(sess'[n][j]) # FrameKey(f)
  <2>1. j # i /\ sess'[n][j] = sess[n][j]
    BY <1>1
  <2>2. Busy(sess[n][j])
    BY <1>1, <2>1 DEF Busy
  <2> QED
    BY <2>1, <2>2 DEF Alike
<1> QED
  BY <1>1, TakesAway

\* Answers that say nothing of what n sends itself.
QuietAnswer(n, out) ==
  \/ out = <<>>
  \/ \E b \in 0 .. DEVICE_ID_MAX, sid \in 0 .. SESSION_ID_MAX, cmd \in {CMD_ACK, CMD_ABORT_WA} :
       /\ out = <<MakeFrame(n, b, sid, cmd, <<>>)>>
       /\ cmd = CMD_ABORT_WA \/ (b # n /\ sid % 2 = InitiatorBit(b, n))

LEMMA AnswersGoOn ==
  ASSUME NEW n \in Nodes, NEW out, QuietAnswer(n, out),
         \A j \in Slots : Sending(sess'[n][j]) => Alike(sess[n][j], sess'[n][j])
  PROVE  /\ GoesOn(n, out)
         /\ out = <<>> \/ \E f : /\ out = <<f>> /\ CanIdFrom(f.id) = n
                                 /\ CanIdCommand(f.id) # CMD_NACK
<1>1. CASE out = <<>>
  <2>1. \A f : out # <<f>>
    BY <1>1
  <2> QED
    BY <1>1, <2>1, GoesQuietly
<1>2. CASE out # <<>>
  <2>1. PICK b \in 0 .. DEVICE_ID_MAX, sid \in 0 .. SESSION_ID_MAX, cmd \in {CMD_ACK, CMD_ABORT_WA} :
          /\ out = <<MakeFrame(n, b, sid, cmd, <<>>)>>
          /\ cmd = CMD_ABORT_WA \/ (b # n /\ sid % 2 = InitiatorBit(b, n))
    BY <1>2 DEF QuietAnswer
  <2> DEFINE g == MakeFrame(n, b, sid, cmd, <<>>)
  <2>2. cmd \in Commands /\ cmd # CMD_NACK
    BY DEF Commands, CMD_START, CMD_ACK, CMD_NACK, CMD_ABORT_WA
  <2>3. CanIdFrom(g.id) = n /\ CanIdCommand(g.id) = cmd
    BY <2>2, FrameFields
  <2>4. \A m \in Nodes \ {n} : \A x \in ExchangesTo(m) :
          x[1] = n /\ FrameKey(g) = x => Accepted(m, g) /\ CanIdCommand(g.id) = CMD_ABORT_WA
    BY <2>1, <2>2, AnswersQuietly
  <2>5. out = <<g>>
    BY <2>1
  <2> HIDE DEF g
  <2>6. \A f : out = <<f>> => f = g
    BY <2>5
  <2>7. GoesOn(n, out)
    BY <2>4, <2>6, GoesQuietly
  <2> QED
    BY <2>2, <2>3, <2>5, <2>7
<1> QED
  BY <1>1, <1>2

\* What a sending slot puts on the bus reaches those that it is for.
LEMMA SentFrame ==
  ASSUME NEW n \in Nodes, NEW s \in Session, NEW cmd \in Commands, NEW data, Len(data) <= MaxLen,
         s.peer = ALL => WithoutAck(cmd), NEW F, F = MakeFrame(n, s.peer, s.sid, cmd, data),
         NEW x, x = <<n, s.peer, s.sid>>, NEW m \in Nodes \ {n}, x \in ExchangesTo(m)
  PROVE  /\ Accepted(m, F) /\ FrameKey(F) = x /\ x[1] = n /\ x[2] = s.peer
         /\ CanIdCommand(F.id) = cmd /\ F.data = data
<1>1. s.peer \in 0 .. DEVICE_ID_MAX /\ s.sid \in 0 .. SESSION_ID_MAX
  BY DEF Session
<1>2. s.peer \in {m, ALL}
  BY ExchangeOf
<1>3. CanIdCommand(F.id) = cmd /\ F.data = data
  BY <1>1, FrameFields
<1>4. Accepted(m, F) /\ FrameKey(F) = <<n, s.peer, s.sid>>
  BY <1>1, <1>2, AcceptedThere
<1> QED
  BY <1>3, <1>4

\* The next chunk goes from what was sent to what is sent with it.
LEMMA DataSent ==
  ASSUME NEW n \in Nodes, NEW s \in Session, NEW X, IsTx(s), Carries(n, s, X),
         s.offset < Len(s.payload),
         NEW cmd \in {CMD_DATA, CMD_DATA_WA}, s.mode = WITHOUT_ACK => cmd = CMD_DATA_WA,
         NEW F, F = MakeFrame(n, s.peer, s.sid, cmd, NextChunk(s)),
         NEW x, x = <<n, s.peer, s.sid>>, NEW m \in Nodes \ {n}, x \in ExchangesTo(m),
         NEW a, a.xfer = s.xfer, a.offset = s.offset,
         NEW c, c.xfer = s.xfer, c.offset = s.offset + Len(NextChunk(s))
  PROVE  Leads(F, x, m, a, c, X)
<1> DEFINE d == NextChunk(s)
           l == Len(d)
<1>1. /\ l \in 1 .. MaxLen /\ s.offset + l <= Len(s.payload)
      /\ d = SubSeq(s.payload, s.offset + 1, s.offset + l)
  BY NextChunkProperties
<1>2. s.offset \in Nat /\ l \in Nat /\ l <= MaxLen /\ MaxLen \in Nat /\ Len(s.payload) \in Nat
  <2>1. s.payload \in Seq(Nat) /\ s.offset \in Nat
    BY DEF Session
  <2> QED
    BY <1>1, <2>1, SizesAssumption, LenProperties
<1>3. cmd \in Commands /\ (s.peer = ALL => WithoutAck(cmd))
  BY DEF Carries, Commands, WithoutAck, CMD_START, CMD_ABORT_WA, CMD_DATA, CMD_DATA_WA
<1> HIDE DEF d
<1>4. /\ Accepted(m, F) /\ FrameKey(F) = x /\ x[1] = n /\ x[2] = s.peer
      /\ CanIdCommand(F.id) = cmd /\ F.data = d
  <2>1. F = MakeFrame(n, s.peer, s.sid, cmd, d)
    BY DEF d
  <2> QED
    BY <1>2, <1>3, <2>1, SentFrame
<1>5. /\ s.xfer \in DOMAIN X /\ X[s.xfer].from = n /\ X[s.xfer].to = s.peer
      /\ X[s.xfer].data = s.payload
  BY DEF Carries
<1>6. a.offset <= Len(s.payload) /\ c.offset <= Len(s.payload) /\ a.offset <= c.offset
      /\ c.offset = s.offset + l
  BY <1>1, <1>2 DEF d
<1> HIDE DEF l
<1>7. StandsAt(a, x, X) /\ StandsAt(c, x, X)
  BY <1>4, <1>5, <1>6 DEF StandsAt
<1>8. DataLeads(F, x, a, c, X)
  BY <1>1, <1>4, <1>5, <1>6, <1>7 DEF DataLeads
<1> QED
  BY <1>4, <1>8 DEF Leads

\* END is sent when everything else is.
LEMMA EndSent ==
  ASSUME NEW n \in Nodes, NEW s \in Session, NEW X, IsTx(s), Carries(n, s, X),
         NEW cmd \in {CMD_END, CMD_END_WA}, s.mode = WITHOUT_ACK => cmd = CMD_END_WA,
         NEW F, F = MakeFrame(n, s.peer, s.sid, cmd, <<>>),
         NEW x, x = <<n, s.peer, s.sid>>, NEW m \in Nodes \ {n}, x \in ExchangesTo(m),
         NEW a, a.xfer = s.xfer, a.offset = Len(s.payload), NEW c
  PROVE  Leads(F, x, m, a, c, X)
<1>1. cmd \in Commands /\ (s.peer = ALL => WithoutAck(cmd)) /\ Len(<<>>) <= MaxLen
  BY SizesAssumption
  DEF Carries, Commands, WithoutAck, CMD_START, CMD_ABORT_WA, CMD_END, CMD_END_WA
<1>2. /\ Accepted(m, F) /\ FrameKey(F) = x /\ x[1] = n /\ x[2] = s.peer
      /\ CanIdCommand(F.id) = cmd
  BY <1>1, SentFrame, SMTT(30)
<1>3. Len(s.payload) \in Nat
  BY LenProperties DEF Session
<1>4. StandsAt(a, x, X) /\ a.offset = Len(X[a.xfer].data)
  BY <1>2, <1>3 DEF StandsAt, Carries
<1>5. EndLeads(F, x, a, X)
  BY <1>2, <1>4 DEF EndLeads
<1> QED
  BY <1>2, <1>5 DEF Leads

\* START leads from anywhere to the beginning of its transfer.
LEMMA StartSent ==
  ASSUME NEW n \in Nodes, NEW s \in Session, NEW X, IsTx(s), Carries(n, s, X),
         NEW cmd, cmd = IF s.mode = WITH_ACK THEN CMD_START ELSE CMD_START_WA,
         NEW F, F = MakeFrame(n, s.peer, s.sid, cmd, <<>>),
         NEW x, x = <<n, s.peer, s.sid>>, NEW m \in Nodes \ {n}, x \in ExchangesTo(m),
         NEW a, NEW c, c.xfer = s.xfer, c.offset = 0
  PROVE  Leads(F, x, m, a, c, X)
<1>0. s.mode \in {WITH_ACK, WITHOUT_ACK} /\ WITH_ACK # WITHOUT_ACK
  BY DEF Session, WITH_ACK, WITHOUT_ACK
<1>1. cmd \in Commands /\ (s.peer = ALL => WithoutAck(cmd)) /\ Len(<<>>) <= MaxLen
  BY <1>0, SizesAssumption
  DEF Carries, Commands, WithoutAck, CMD_START, CMD_ABORT_WA, CMD_START_WA
<1>2. /\ Accepted(m, F) /\ FrameKey(F) = x /\ x[1] = n /\ x[2] = s.peer
      /\ CanIdCommand(F.id) = cmd
  BY <1>1, SentFrame, SMTT(30)
<1>3. Len(s.payload) \in Nat
  BY LenProperties DEF Session
<1>4. StandsAt(c, x, X)
  BY <1>2, <1>3 DEF StandsAt, Carries
<1>5. X[c.xfer].mode = IF CanIdCommand(F.id) = CMD_START THEN WITH_ACK ELSE WITHOUT_ACK
  <2>1. X[c.xfer].mode = s.mode
    BY DEF Carries
  <2>2. CMD_START # CMD_START_WA
    BY DEF CMD_START, CMD_START_WA
  <2> QED
    BY <1>0, <1>2, <2>1, <2>2
<1>6. StartLeads(F, x, c, X)
  BY <1>2, <1>4, <1>5 DEF StartLeads
<1> QED
  BY <1>2, <1>6 DEF Leads

\* The frame that a call takes.
LEMMA TakenFrame ==
  ASSUME OnTheWay, NEW n \in Nodes, rx[n] # <<>>, NEW f, f = Head(rx[n])
  PROVE  /\ f \in HonestFrame /\ f.id \in Nat /\ f.data \in Seq(Nat)
         /\ CanIdFrom(f.id) \in Nodes \ {n} /\ CanIdCommand(f.id) # CMD_NACK
         /\ CanIdFrom(f.id) \in 0 .. DEVICE_ID_MAX /\ CanIdTo(f.id) \in 0 .. DEVICE_ID_MAX
         /\ CanIdSession(f.id) \in 0 .. SESSION_ID_MAX
         /\ Accepted(n, f) => CanIdCommand(f.id) \in Commands /\ CanIdTo(f.id) \in {n, ALL}
<1>1. f \in HonestFrame /\ rx[n] \in Seq(HonestFrame)
  BY HeadTailProperties DEF OnTheWay, BusOK
<1>2. f.id \in Nat /\ f.data \in Seq(Nat)
  BY <1>1 DEF HonestFrame, Frame
<1>3. 1 \in DOMAIN rx[n] /\ rx[n][1] = f
  <2>1. Len(rx[n]) \in Nat \ {0} /\ DOMAIN rx[n] = 1 .. Len(rx[n])
    BY <1>1, LenProperties, EmptySeq
  <2> QED
    BY <1>1, <2>1, HeadTailProperties
<1>4. CanIdFrom(f.id) \in Nodes \ {n} /\ CanIdCommand(f.id) # CMD_NACK
  BY <1>3 DEF OnTheWay, TransfersContinue, NoNacks, NoNack
<1>5. /\ CanIdFrom(f.id) \in 0 .. DEVICE_ID_MAX /\ CanIdTo(f.id) \in 0 .. DEVICE_ID_MAX
      /\ CanIdSession(f.id) \in 0 .. SESSION_ID_MAX /\ CanIdCommand(f.id) \in Nat
  BY <1>2, CanIdRanges
<1>6. Accepted(n, f) => CanIdCommand(f.id) \in Commands /\ CanIdTo(f.id) \in {n, ALL}
  BY <1>5 DEF Accepted, Commands, CMD_START, CMD_ABORT_WA
<1> QED
  BY <1>1, <1>2, <1>4, <1>5, <1>6

\* A call that takes a frame which concerns slot i, and answers it quietly: the
\* slot is left with nothing that is received or being sent, or as it was.
LEMMA QuietCall ==
  ASSUME OnTheWay, NEW n \in Nodes, rx[n] # <<>>, NEW f, f = Head(rx[n]),
         NEW i \in Slots, NEW t, SetSlot(n, i, t) \/ (sess' = sess /\ t = sess[n][i]),
         t.state # "RX", Carries(n, t, xfers'), Sending(t) => Alike(sess[n][i], t),
         \A j \in Slots \ {i} : Busy(sess[n][j]) => Key(sess[n][j]) # FrameKey(f),
         Extends(xfers, xfers'), Broadcasts(xfers'), DeliveredIntact',
         NEW out, QuietAnswer(n, out), Answer(n, out)
  PROVE  TransfersContinue'
<1>1. \A j \in Slots : sess'[n][j] = IF j = i THEN t ELSE sess[n][j]
  BY DEF SetSlot, OnTheWay, TableOK
<1>2. Takes(n)
  BY <1>1, FrameIsTaken
<1>3. \A j \in Slots : Sending(sess'[n][j]) => Alike(sess[n][j], sess'[n][j])
  BY <1>1 DEF Alike
<1>4. /\ GoesOn(n, out)
      /\ out = <<>> \/ \E g : /\ out = <<g>> /\ CanIdFrom(g.id) = n
                              /\ CanIdCommand(g.id) # CMD_NACK
  BY <1>3, AnswersGoOn
<1>5. sess' = sess \/ \E j \in Slots : \E u : SetSlot(n, j, u) /\ Carries(n, u, xfers')
  OBVIOUS
<1> QED
  BY <1>2, <1>4, <1>5, CallKeeps

\* An empty slot carries nothing.
LEMMA FreeCarries ==
  /\ ~ IsTx(FreeSession) /\ ~ Sending(FreeSession) /\ FreeSession.state # "RX"
  /\ \A n, X : Carries(n, FreeSession, X)
BY DEF FreeSession, IsTx, Sending, Carries

\* The frame is not for n, or belongs to no session of n.
LEMMA UnheardContinues ==
  ASSUME OnTheWay, NEW n \in Nodes, AddForeign(n) \/ AddUnknown(n)
  PROVE  TransfersContinue'
<1> DEFINE f == Head(rx[n])
           out == IF Accepted(n, f) THEN AbortReply(n, f) ELSE <<>>
<1>1. /\ rx[n] # <<>> /\ Answer(n, out) /\ UNCHANGED <<sess, xfers, got>>
      /\ Accepted(n, f) => Matching(n, FrameKey(f)) = {}
  BY DEF AddForeign, AddUnknown
<1>2. CanIdFrom(f.id) \in 0 .. DEVICE_ID_MAX /\ CanIdSession(f.id) \in 0 .. SESSION_ID_MAX
  BY <1>1, TakenFrame
<1>3. QuietAnswer(n, out)
  BY <1>2 DEF QuietAnswer, AbortReply
<1> HIDE DEF out, f
<1>4. \A j \in Slots : Busy(sess[n][j]) /\ Accepted(n, f) => Key(sess[n][j]) # FrameKey(f)
  BY <1>1 DEF Matching
<1>5. \A j \in Slots : sess'[n][j] = sess[n][j] /\ Alike(sess[n][j], sess'[n][j])
  BY <1>1 DEF Alike
<1>6. Takes(n)
  <2>1. f = Head(rx[n])
    BY DEF f
  <2>2. \A j \in Slots : sess'[n][j].state = "RX" =>
          /\ Alike(sess[n][j], sess'[n][j])
          /\ Accepted(n, f) => Key(sess'[n][j]) # FrameKey(f)
    BY <1>4, <1>5 DEF Busy
  <2> QED
    BY <2>1, <2>2, TakesAway
<1>7. /\ GoesOn(n, out)
      /\ out = <<>> \/ \E g : /\ out = <<g>> /\ CanIdFrom(g.id) = n
                              /\ CanIdCommand(g.id) # CMD_NACK
  BY <1>3, <1>5, AnswersGoOn
<1>8. Extends(xfers, xfers') /\ Broadcasts(xfers') /\ DeliveredIntact'
  BY <1>1, SameHistory DEF OnTheWay, SameTransfers
<1> QED
  BY <1>1, <1>6, <1>7, <1>8, CallKeeps

\* A transfer of n goes on with the next chunk or with END.
LEMMA InitiatorContinues ==
  ASSUME OnTheWay, NEW n \in Nodes, rx[n] # <<>>, NEW f, f = Head(rx[n]),
         NEW i \in Slots, NEW s, s = sess[n][i], Key(s) = FrameKey(f),
         s.state \in {"TX_WAIT_START_ACK", "TX_WAIT_DATA_ACK"},
         NEW v \in Session, v = [s EXCEPT !.offset = SentUpTo(s)],
         EmitNext(n, i, v), UNCHANGED <<xfers, got>>
  PROVE  TransfersContinue'
<1>1. /\ TableOK /\ HistoryOK /\ SlotOK(n, s) /\ s \in Session /\ Carries(n, s, xfers)
  BY DEF OnTheWay, TransfersContinue, AllCarry, TableOK, SlotOK
<1>2. /\ v.state = s.state /\ v.mode = s.mode /\ v.peer = s.peer /\ v.local = s.local
      /\ v.sid = s.sid /\ v.payload = s.payload /\ v.xfer = s.xfer /\ v.offset = SentUpTo(s)
  BY <1>1 DEF Session
<1>3. /\ IsTx(s) /\ IsTx(v) /\ Sending(s) /\ s.local = n /\ s.peer # n
      /\ s.mode = WITH_ACK /\ Carries(n, v, xfers)
  <2>1. IsTx(s) /\ IsTx(v) /\ Sending(s)
    BY <1>2 DEF IsTx, Sending
  <2>2. s.local = n /\ s.peer # n
    BY <1>1, <2>1 DEF SlotOK, RoleOK
  <2>3. s.mode = WITH_ACK
    BY <1>1, <2>1 DEF Carries, Session
  <2> QED
    BY <1>1, <1>2, <2>1, <2>2, <2>3 DEF Carries
<1>4. v.offset <= Len(v.payload) /\ v.offset \in Nat /\ Len(v.payload) \in Nat
  <2>1. s.offset \in Nat /\ s.lastlen \in Nat /\ s.payload \in Seq(Nat) /\ Len(s.payload) \in Nat
    BY <1>1, LenProperties DEF Session
  <2> QED
    BY <1>1, <1>2, <2>1 DEF SlotOK, BufferOK, ChunkOK, SentUpTo
<1> DEFINE y == <<n, s.peer, s.sid>>
<1>5. SlotExchange(s) = y /\ Key(s) = <<s.peer, n, s.sid>>
  BY <1>3 DEF SlotExchange, Key
<1>6. \A j \in Slots \ {i} :
        /\ Busy(sess[n][j]) => Key(sess[n][j]) # FrameKey(f)
        /\ Sending(sess[n][j]) => SlotExchange(sess[n][j]) # y
  <2> SUFFICES ASSUME NEW j \in Slots \ {i}
               PROVE  /\ Busy(sess[n][j]) => Key(sess[n][j]) # FrameKey(f)
                      /\ Sending(sess[n][j]) => SlotExchange(sess[n][j]) # y
    OBVIOUS
  <2>1. Busy(s) /\ (Sending(sess[n][j]) => Busy(sess[n][j]) /\ IsTx(sess[n][j]))
    BY <1>3 DEF Busy, IsTx, Sending
  <2>2. Busy(sess[n][j]) => Key(sess[n][j]) # Key(s)
    BY <1>1, <2>1 DEF TableOK, UniqueKeys
  <2>3. Sending(sess[n][j]) /\ SlotExchange(sess[n][j]) = y => Key(sess[n][j]) = <<s.peer, n, s.sid>>
    BY <2>1 DEF SlotExchange, Key
  <2> QED
    BY <1>5, <2>1, <2>2, <2>3
<1>7. Extends(xfers, xfers') /\ Broadcasts(xfers') /\ DeliveredIntact'
  BY SameHistory DEF OnTheWay, SameTransfers
<1>8. ASSUME NEW t, SetSlot(n, i, t), t.state # "RX", Carries(n, t, xfers),
             Sending(t) => SlotExchange(t) = y,
             NEW F, Answer(n, <<F>>), CanIdFrom(F.id) = n, CanIdCommand(F.id) # CMD_NACK,
             FrameKey(F) = y,
             \A m \in Nodes \ {n} : y \in ExchangesTo(m) =>
               \A a \in Point : a.xfer = s.xfer /\ a.offset = v.offset =>
                 \E c \in Point : /\ Leads(F, y, m, a, c, xfers)
                                  /\ Sending(t) => c.xfer = t.xfer /\ c.offset = SentUpTo(t)
      PROVE  TransfersContinue'
  <2>1. \A j \in Slots : sess'[n][j] = IF j = i THEN t ELSE sess[n][j]
    BY <1>1, <1>8 DEF SetSlot, TableOK
  <2>2. Takes(n)
    BY <1>6, <1>8, <2>1, FrameIsTaken
  <2>3. \A m \in Nodes \ {n} : y \in ExchangesTo(m) =>
          \A a \in Point : Emitted(sess[n], y, a) =>
            \E c \in Point : /\ Leads(F, y, m, a, c, xfers')
                             /\ Sending(t) => c.xfer = t.xfer /\ c.offset = SentUpTo(t)
    <3>1. \A a : Emitted(sess[n], y, a) => a.xfer = s.xfer /\ a.offset = v.offset
      BY <1>2, <1>3, <1>5 DEF Emitted
    <3> QED
      BY <1>8, <3>1
  <2>4. Sending(sess[n][i]) => SlotExchange(sess[n][i]) = y
    BY <1>5
  <2> HIDE DEF y
  <2>5. GoesOn(n, <<F>>)
    BY <1>1, <1>6, <1>8, <2>3, <2>4, GoesFurther
  <2> DEFINE out == <<F>>
  <2>6. /\ out = <<>> \/ \E g : /\ out = <<g>> /\ CanIdFrom(g.id) = n
                                /\ CanIdCommand(g.id) # CMD_NACK
        /\ GoesOn(n, out) /\ Answer(n, out)
    BY <1>8, <2>5
  <2> HIDE DEF out
  <2>7. sess' = sess \/ \E j \in Slots : \E u : SetSlot(n, j, u) /\ Carries(n, u, xfers')
    BY <1>8
  <2> QED
    BY <1>7, <2>2, <2>6, <2>7, CallKeeps
<1>9. s.peer \in 0 .. DEVICE_ID_MAX /\ s.sid \in 0 .. SESSION_ID_MAX /\ s.xfer \in Nat
  BY <1>1 DEF Session
<1>10. \A cmd \in Commands : \A data :
         LET F == MakeFrame(n, s.peer, s.sid, cmd, data)
         IN  /\ CanIdFrom(F.id) = n /\ CanIdCommand(F.id) = cmd
             /\ FrameKey(F) = y
  BY <1>9, FrameFields DEF FrameKey
<1>11. CASE v.offset < Len(v.payload)
  <2> DEFINE d == NextChunk(v)
             t == [v EXCEPT !.state = "TX_WAIT_DATA_ACK", !.last = now, !.age = 0, !.lastlen = Len(d)]
             F == MakeFrame(n, s.peer, s.sid, CMD_DATA, d)
  <2>1. SetSlot(n, i, t) /\ Answer(n, <<F>>)
    BY <1>2, <1>11 DEF EmitNext, To
  <2>2. /\ t.state = "TX_WAIT_DATA_ACK" /\ t.lastlen = Len(d) /\ t.offset = v.offset
        /\ t.peer = v.peer /\ t.local = v.local /\ t.sid = v.sid /\ t.xfer = v.xfer
        /\ t.mode = v.mode /\ t.payload = v.payload
    BY DEF Session
  <2>3. Len(d) \in Nat
    BY <1>11, NextChunkProperties
  <2>4. CMD_DATA \in Commands /\ CMD_DATA # CMD_NACK
    BY DEF CMD_DATA, CMD_NACK, Commands, CMD_START, CMD_ABORT_WA
  <2>5. CanIdFrom(F.id) = n /\ CanIdCommand(F.id) # CMD_NACK /\ FrameKey(F) = y
    BY <1>10, <2>4
  <2>6. F = MakeFrame(n, v.peer, v.sid, CMD_DATA, NextChunk(v)) /\ y = <<n, v.peer, v.sid>>
    BY <1>2
  <2> HIDE DEF t, F
  <2>7. /\ SlotExchange(t) = y /\ SentUpTo(t) = v.offset + Len(d) /\ Carries(n, t, xfers)
    BY <1>2, <1>3, <2>2 DEF SlotExchange, IsTx, SentUpTo, Carries, WITH_ACK, WITHOUT_ACK
  <2>8. ASSUME NEW m \in Nodes \ {n}, y \in ExchangesTo(m), NEW a \in Point,
               a.xfer = s.xfer, a.offset = v.offset
        PROVE  \E c \in Point : /\ Leads(F, y, m, a, c, xfers)
                                /\ Sending(t) => c.xfer = t.xfer /\ c.offset = SentUpTo(t)
    <3> DEFINE c == [xfer |-> s.xfer, offset |-> v.offset + Len(d)]
    <3>1. c \in Point /\ c.xfer = s.xfer /\ c.offset = v.offset + Len(d)
      <4>1. v.offset + Len(d) \in Nat
        BY <1>4, <2>3
      <4> QED
        BY <1>9, <4>1 DEF Point
    <3> HIDE DEF c, y, d
    <3>2. /\ CMD_DATA \in {CMD_DATA, CMD_DATA_WA} /\ v.mode = WITH_ACK
          /\ WITH_ACK # WITHOUT_ACK /\ a.xfer = v.xfer /\ c.xfer = v.xfer
          /\ c.offset = v.offset + Len(NextChunk(v))
      BY <1>2, <1>3, <2>8, <3>1 DEF WITH_ACK, WITHOUT_ACK, d
    <3>3. Leads(F, y, m, a, c, xfers)
      BY <1>3, <1>11, <2>6, <2>8, <3>2, DataSent
    <3> QED
      BY <1>2, <2>2, <2>7, <3>1, <3>3
  <2> HIDE DEF y
  <2> QED
    BY <1>8, <2>1, <2>2, <2>5, <2>7, <2>8
<1>12. CASE ~ (v.offset < Len(v.payload))
  <2> DEFINE t == [v EXCEPT !.state = "TX_WAIT_END_ACK", !.last = now, !.age = 0]
             F == MakeFrame(n, s.peer, s.sid, CMD_END, <<>>)
  <2>1. SetSlot(n, i, t) /\ Answer(n, <<F>>)
    BY <1>2, <1>12 DEF EmitNext, To
  <2>2. /\ t.state = "TX_WAIT_END_ACK"
        /\ t.peer = v.peer /\ t.local = v.local /\ t.sid = v.sid /\ t.xfer = v.xfer
        /\ t.mode = v.mode /\ t.payload = v.payload
    BY DEF Session
  <2>3. v.offset = Len(v.payload)
    BY <1>4, <1>12
  <2>4. CMD_END \in Commands /\ CMD_END # CMD_NACK
    BY DEF CMD_END, CMD_NACK, Commands, CMD_START, CMD_ABORT_WA
  <2>5. CanIdFrom(F.id) = n /\ CanIdCommand(F.id) # CMD_NACK /\ FrameKey(F) = y
    BY <1>10, <2>4
  <2>6. F = MakeFrame(n, v.peer, v.sid, CMD_END, <<>>) /\ y = <<n, v.peer, v.sid>>
    BY <1>2
  <2> HIDE DEF t, F
  <2>7. ~ Sending(t) /\ Carries(n, t, xfers)
    BY <1>2, <1>3, <2>2 DEF Sending, Carries, IsTx, WITH_ACK, WITHOUT_ACK
  <2>8. ASSUME NEW m \in Nodes \ {n}, y \in ExchangesTo(m), NEW a \in Point,
               a.xfer = s.xfer, a.offset = v.offset
        PROVE  \E c \in Point : /\ Leads(F, y, m, a, c, xfers)
                                /\ Sending(t) => c.xfer = t.xfer /\ c.offset = SentUpTo(t)
    <3> HIDE DEF y
    <3>1. /\ CMD_END \in {CMD_END, CMD_END_WA} /\ v.mode = WITH_ACK
          /\ WITH_ACK # WITHOUT_ACK /\ a.xfer = v.xfer /\ a.offset = Len(v.payload)
      BY <1>2, <1>3, <2>3, <2>8 DEF WITH_ACK, WITHOUT_ACK
    <3>2. Leads(F, y, m, a, a, xfers)
      BY <1>3, <2>6, <2>8, <3>1, EndSent
    <3> QED
      BY <2>7, <2>8, <3>2
  <2> HIDE DEF y
  <2> QED
    BY <1>8, <2>1, <2>2, <2>5, <2>7, <2>8
<1> QED
  BY <1>11, <1>12

\* handle_tx_frame: the slot is released, or sends the next frame, or stays as it is.
LEMMA TxCallContinues ==
  ASSUME OnTheWay, NEW n \in Nodes, rx[n] # <<>>, NEW f, f = Head(rx[n]),
         NEW i \in Slots, NEW s, s = sess[n][i], IsTx(s), Key(s) = FrameKey(f),
         NEW cmd, cmd = CanIdCommand(f.id), HandleTxFrame(n, i, s, cmd)
  PROVE  TransfersContinue'
<1>1. /\ TableOK /\ HistoryOK /\ SlotOK(n, s) /\ s \in Session /\ Carries(n, s, xfers)
      /\ s.xfer \in DOMAIN xfers /\ got' = got
  BY DEF OnTheWay, TransfersContinue, AllCarry, TableOK, SlotOK, Carries, HandleTxFrame
<1>2. \A j \in Slots \ {i} : Busy(sess[n][j]) => Key(sess[n][j]) # FrameKey(f)
  BY <1>1 DEF TableOK, UniqueKeys, Busy, IsTx
<1>3. cmd # CMD_NACK
  BY TakenFrame
<1>4. ASSUME Release(n, i), NEW o, EndTransfer(s, o), NEW out, QuietAnswer(n, out), Answer(n, out)
      PROVE  TransfersContinue'
  <2>1. Extends(xfers, xfers') /\ Broadcasts(xfers') /\ DeliveredIntact'
    BY <1>1, <1>4, EndedTransfers, SameHistory DEF OnTheWay
  <2> DEFINE t == FreeSession
  <2>2. t.state # "RX" /\ ~ Sending(t) /\ Carries(n, t, xfers') /\ SetSlot(n, i, t)
    BY <1>4, FreeCarries DEF Release
  <2> HIDE DEF t
  <2> QED
    BY <1>2, <1>4, <2>1, <2>2, QuietCall
<1>5. QuietAnswer(n, <<>>) /\ QuietAnswer(n, To(n, s, CMD_ABORT_WA, <<>>))
  BY <1>1 DEF QuietAnswer, To, Session
<1>6. CASE TxAbort(n, i, s, cmd) \/ TxUnexpected(n, i, s, cmd)
  BY <1>4, <1>5, <1>6 DEF TxAbort, TxUnexpected
<1>7. CASE TxAck(n, i, s, cmd)
  <2>1. CASE EmitNext(n, i, s) /\ s.state = "TX_WAIT_START_ACK" /\ UNCHANGED xfers
    <3>1. s = [s EXCEPT !.offset = SentUpTo(s)]
      <4>1. SentUpTo(s) = s.offset
        BY <2>1 DEF SentUpTo
      <4> QED
        BY <1>1, <4>1 DEF Session
    <3> QED
      BY <1>1, <2>1, <3>1, InitiatorContinues
  <2>2. CASE /\ EmitNext(n, i, [s EXCEPT !.offset = @ + s.lastlen])
             /\ s.state = "TX_WAIT_DATA_ACK" /\ UNCHANGED xfers
    <3> DEFINE v == [s EXCEPT !.offset = s.offset + s.lastlen]
    <3>1. v = [s EXCEPT !.offset = SentUpTo(s)]
      BY <2>2 DEF SentUpTo
    <3>2. v \in Session
      <4>1. s.offset + s.lastlen \in Nat
        BY <1>1, SMTT(30) DEF Session
      <4> QED
        BY <1>1, <4>1 DEF Session
    <3>3. EmitNext(n, i, v)
      BY <2>2
    <3> HIDE DEF v
    <3> QED
      BY <1>1, <2>2, <3>1, <3>2, <3>3, InitiatorContinues
  <2>3. CASE Release(n, i) /\ Answer(n, <<>>) /\ EndTransfer(s, "TX_FINISHED")
    BY <1>4, <1>5, <2>3
  <2>4. CASE Answer(n, <<>>) /\ UNCHANGED <<sess, xfers>>
    <3>1. Extends(xfers, xfers') /\ Broadcasts(xfers') /\ DeliveredIntact'
      BY <1>1, <2>4, SameHistory DEF OnTheWay, SameTransfers
    <3>2. s.state # "RX" /\ Carries(n, s, xfers') /\ Alike(sess[n][i], s)
      BY <1>1, <2>4 DEF IsTx, Alike
    <3> DEFINE out == <<>>
    <3>3. QuietAnswer(n, out) /\ Answer(n, out)
      BY <1>5, <2>4
    <3> HIDE DEF out
    <3> QED
      BY <1>2, <2>4, <3>1, <3>2, <3>3, QuietCall
  <2> QED
    BY <1>7, <2>1, <2>2, <2>3, <2>4 DEF TxAck
<1> QED
  BY <1>3, <1>6, <1>7 DEF HandleTxFrame, TxNack

\* What the next END of an exchange would hand over is what was started to be sent.
LEMMA EndDelivers ==
  ASSUME OnTheWay, NEW n \in Nodes, rx[n] # <<>>, NEW f, f = Head(rx[n]), Accepted(n, f),
         CanIdCommand(f.id) \in {CMD_END, CMD_END_WA},
         NEW i \in Slots, NEW s, s = sess[n][i], s.state = "RX", Key(s) = FrameKey(f)
  PROVE  \E k \in DOMAIN xfers : /\ xfers[k].from = s.peer /\ xfers[k].to = s.local
                                 /\ xfers[k].mode = s.mode /\ xfers[k].data = s.payload
<1> DEFINE x == FrameKey(f)
<1>1. SlotOK(n, s) /\ rx[n] \in Seq(HonestFrame) /\ HistoryOK
  BY DEF OnTheWay, TableOK, BusOK
<1>2. x[1] = s.peer /\ x[2] = s.local /\ x[3] = s.sid /\ x = <<s.peer, s.local, s.sid>>
  BY DEF Key
<1>3. x \in ExchangesTo(n)
  <2>1. s.peer = CanIdFrom(f.id) /\ s.peer \in Nodes \ {n}
    BY <1>2, TakenFrame DEF FrameKey
  <2>2. s.local \in {n, ALL} /\ s.sid % 2 = InitiatorBit(s.peer, s.local) /\ s.sid \in 0 .. SESSION_ID_MAX
    BY <1>1 DEF SlotOK, RoleOK, Session
  <2> HIDE DEF x
  <2> QED
    BY <1>2, <2>1, <2>2 DEF ExchangesTo
<1> HIDE DEF x
<1>4. Continues(rx[n], sess[n], sess[x[1]], x, n, xfers)
  BY <1>3 DEF OnTheWay, TransfersContinue, ExchangesContinue
<1>5. PICK a, c \in Point : AllLead(rx[n], x, n, a, c, xfers) /\ Received(sess[n], x, a, xfers)
  BY <1>4 DEF Continues
<1>6. PICK p \in Point : Leads(f, x, n, a, p, xfers)
  BY <1>1, <1>5, AllLeadBehind
<1>7. EndLeads(f, x, a, xfers)
  BY <1>6 DEF Leads, StartLeads, DataLeads, x,
     CMD_START, CMD_START_WA, CMD_DATA, CMD_DATA_WA, CMD_END, CMD_END_WA, CMD_ABORT_WA
<1>8. Stored(s, x, a, xfers)
  <2>1. sess[n][i].state = "RX" /\ Key(sess[n][i]) = x
    BY DEF x
  <2> QED
    BY <1>5, <2>1 DEF Received
<1>9. s.payload = xfers[a.xfer].data
  <2>1. a.xfer \in DOMAIN xfers
    BY <1>7 DEF EndLeads, StandsAt
  <2>2. xfers[a.xfer].data \in Seq(Nat)
    BY <1>1, <2>1, TransferTypes DEF Transfer
  <2>3. s.payload = SubSeq(xfers[a.xfer].data, 1, Len(xfers[a.xfer].data))
    BY <1>7, <1>8 DEF EndLeads, Stored
  <2> QED
    BY <2>2, <2>3, SubSeqFull
<1> QED
  BY <1>2, <1>7, <1>8, <1>9 DEF EndLeads, StandsAt, Stored

\* START begins with nothing, DATA puts its chunk behind what is stored.
LEMMA StartLeadsIn ==
  ASSUME NEW n, NEW f, CanIdCommand(f.id) \in {CMD_START, CMD_START_WA}, HistoryOK,
         NEW t, t.payload = <<>>,
         t.mode = IF CanIdCommand(f.id) = CMD_START THEN WITH_ACK ELSE WITHOUT_ACK,
         NEW a, NEW c, Leads(f, FrameKey(f), n, a, c, xfers)
  PROVE  Stored(t, FrameKey(f), c, xfers)
<1> DEFINE x == FrameKey(f)
<1>1. StartLeads(f, x, c, xfers)
  BY DEF Leads, DataLeads, EndLeads,
     CMD_START, CMD_START_WA, CMD_DATA, CMD_DATA_WA, CMD_END, CMD_END_WA, CMD_ABORT_WA
<1> HIDE DEF x
<1>2. StandsAt(c, x, xfers) /\ c.offset = 0 /\ t.mode = xfers[c.xfer].mode
  BY <1>1 DEF StartLeads
<1>3. xfers[c.xfer].data \in Seq(Nat)
  BY <1>2, TransferTypes DEF StandsAt, Transfer
<1>4. t.payload = SubSeq(xfers[c.xfer].data, 1, c.offset)
  BY <1>2, <1>3, SubSeqEmpty
<1> QED
  BY <1>2, <1>4 DEF Stored, x

\* What slot s holds with a chunk behind it.
StoredWith(s, chunk, x, p, X) ==
  /\ StandsAt(p, x, X) /\ s.mode = X[p.xfer].mode
  /\ s.payload \o chunk = SubSeq(X[p.xfer].data, 1, p.offset)

LEMMA DataLeadsIn ==
  ASSUME NEW n, NEW f, CanIdCommand(f.id) \in {CMD_DATA, CMD_DATA_WA}, HistoryOK,
         NEW s, NEW a \in Point, NEW c \in Point, Leads(f, FrameKey(f), n, a, c, xfers),
         Stored(s, FrameKey(f), a, xfers)
  PROVE  StoredWith(s, f.data, FrameKey(f), c, xfers)
<1> DEFINE x == FrameKey(f)
<1>1. DataLeads(f, x, a, c, xfers)
  BY DEF Leads, StartLeads, EndLeads,
     CMD_START, CMD_START_WA, CMD_DATA, CMD_DATA_WA, CMD_END, CMD_END_WA, CMD_ABORT_WA
<1>2. Stored(s, x, a, xfers)
  OBVIOUS
<1> HIDE DEF x
<1> DEFINE d == xfers[a.xfer].data
<1>3. /\ StandsAt(a, x, xfers) /\ StandsAt(c, x, xfers) /\ c.xfer = a.xfer
      /\ a.offset <= c.offset /\ f.data = SubSeq(d, a.offset + 1, c.offset)
      /\ c.offset <= Len(d)
  BY <1>1 DEF DataLeads, StandsAt
<1>4. d \in Seq(Nat) /\ a.offset \in Nat /\ c.offset \in Nat
  BY <1>3, TransferTypes DEF StandsAt, Transfer, Point
<1>5. s.payload = SubSeq(d, 1, a.offset) /\ s.mode = xfers[c.xfer].mode
  BY <1>2, <1>3 DEF Stored
<1> HIDE DEF d
<1>6. s.payload \o f.data = SubSeq(d, 1, c.offset)
  <2> DEFINE l == c.offset - a.offset
  <2>1. l \in Nat /\ a.offset + l = c.offset
    BY <1>3, <1>4
  <2> HIDE DEF l
  <2>2. SubSeq(d, 1, a.offset) \o SubSeq(d, a.offset + 1, a.offset + l) = SubSeq(d, 1, a.offset + l)
    BY <1>3, <1>4, <2>1, ChunkStored
  <2> QED
    BY <1>3, <1>5, <2>1, <2>2
<1>7. s.payload \o f.data = SubSeq(xfers[c.xfer].data, 1, c.offset)
  BY <1>3, <1>6 DEF d
<1> QED
  BY <1>3, <1>5, <1>7 DEF StoredWith, x

\* handle_rx_frame, for the slot that the frame opens or finds open.
LEMMA RxCallContinues ==
  ASSUME Reliable, OnTheWay, NEW n \in Nodes, rx[n] # <<>>, NEW f, f = Head(rx[n]),
         Accepted(n, f), NEW cmd, cmd = CanIdCommand(f.id),
         NEW i \in Slots, NEW s, SlotOK(n, s), s.state = "RX", Key(s) = FrameKey(f),
         s = sess[n][i] \/ cmd \in {CMD_START, CMD_START_WA},
         \A j \in Slots \ {i} : Busy(sess[n][j]) => Key(sess[n][j]) # FrameKey(f),
         HandleRxFrame(n, i, s, cmd, f.data)
  PROVE  TransfersContinue'
<1>1. /\ TableOK /\ HistoryOK /\ s \in Session /\ xfers' = xfers
      /\ s.local \in {n, ALL} /\ s.sid % 2 = InitiatorBit(s.peer, s.local)
      /\ s.peer \in 0 .. DEVICE_ID_MAX /\ s.sid \in 0 .. SESSION_ID_MAX
  BY DEF OnTheWay, HandleRxFrame, SlotOK, RoleOK, Session
<1>2. /\ s.peer = CanIdFrom(f.id) /\ s.local = CanIdTo(f.id) /\ s.sid = CanIdSession(f.id)
      /\ s.peer \in Nodes \ {n} /\ f.data \in Seq(Nat)
  BY TakenFrame DEF Key, FrameKey
<1>3. Extends(xfers, xfers') /\ Broadcasts(xfers')
  BY <1>1 DEF OnTheWay, TransfersContinue, Extends
<1>4. got' = got => DeliveredIntact'
  BY <1>1, SameHistory DEF OnTheWay, SameTransfers
<1>5. QuietAnswer(n, <<>>) /\ QuietAnswer(n, To(n, s, CMD_ABORT_WA, <<>>))
  BY <1>1 DEF QuietAnswer, To
<1>6. s.local = n => QuietAnswer(n, To(n, s, CMD_ACK, <<>>))
  <2> SUFFICES ASSUME s.local = n PROVE QuietAnswer(n, To(n, s, CMD_ACK, <<>>))
    OBVIOUS
  <2>1. s.peer # n /\ s.sid % 2 = InitiatorBit(s.peer, n) /\ CMD_ACK \in {CMD_ACK, CMD_ABORT_WA}
    BY <1>1, <1>2
  <2> QED
    BY <1>1, <2>1 DEF QuietAnswer, To
<1>7. cmd \in {CMD_START, CMD_DATA, CMD_END} => s.local = n
  <2>1. CMD_START \notin {CMD_START_WA, CMD_DATA_WA, CMD_END_WA, CMD_ABORT_WA}
        /\ CMD_DATA \notin {CMD_START_WA, CMD_DATA_WA, CMD_END_WA, CMD_ABORT_WA}
        /\ CMD_END \notin {CMD_START_WA, CMD_DATA_WA, CMD_END_WA, CMD_ABORT_WA}
    BY DEF CMD_START, CMD_START_WA, CMD_DATA, CMD_DATA_WA, CMD_END, CMD_END_WA, CMD_ABORT_WA
  <2> QED
    BY <1>1, <1>2, <2>1 DEF Accepted, WithoutAck
<1>8. ASSUME Release(n, i), NEW out, QuietAnswer(n, out), Answer(n, out), DeliveredIntact'
      PROVE  TransfersContinue'
  <2> DEFINE t == FreeSession
  <2>1. t.state # "RX" /\ ~ Sending(t) /\ Carries(n, t, xfers') /\ SetSlot(n, i, t)
    BY <1>8, FreeCarries DEF Release
  <2> HIDE DEF t
  <2> QED
    BY <1>3, <1>8, <2>1, QuietCall
<1>9. ASSUME NEW t, SetSlot(n, i, t), t.state = "RX", Key(t) = FrameKey(f), got' = got,
             NEW out, QuietAnswer(n, out), Answer(n, out),
             \A a, c \in Point :
               Leads(f, FrameKey(f), n, a, c, xfers) /\ Received(sess[n], FrameKey(f), a, xfers) =>
                 Stored(t, FrameKey(f), c, xfers)
      PROVE  TransfersContinue'
  <2> DEFINE y == FrameKey(f)
  <2>0. /\ y = FrameKey(f) /\ Key(t) = y
        /\ \A j \in Slots \ {i} : Busy(sess[n][j]) => Key(sess[n][j]) # y
        /\ \A a, c \in Point : Leads(f, y, n, a, c, xfers) /\ Received(sess[n], y, a, xfers) =>
             Stored(t, y, c, xfers)
    BY <1>9
  <2> HIDE DEF y
  <2>1. Takes(n)
    BY <1>1, <1>9, <2>0, TakesIn
  <2>2. \A j \in Slots : sess'[n][j] = IF j = i THEN t ELSE sess[n][j]
    BY <1>1, <1>9 DEF SetSlot, TableOK
  <2>3. ~ Sending(t) /\ Carries(n, t, xfers')
    BY <1>9 DEF Sending, Carries, IsTx
  <2>4. \A j \in Slots : Sending(sess'[n][j]) => Alike(sess[n][j], sess'[n][j])
    BY <2>2, <2>3 DEF Alike
  <2>5. /\ GoesOn(n, out)
        /\ out = <<>> \/ \E g : /\ out = <<g>> /\ CanIdFrom(g.id) = n
                                /\ CanIdCommand(g.id) # CMD_NACK
    BY <1>9, <2>4, AnswersGoOn
  <2>6. sess' = sess \/ \E j \in Slots : \E u : SetSlot(n, j, u) /\ Carries(n, u, xfers')
    BY <1>9, <2>3
  <2> QED
    BY <1>3, <1>4, <1>9, <2>1, <2>5, <2>6, CallKeeps
<1>10. CASE RxAbort(n, i, s, cmd)
  BY <1>4, <1>5, <1>8, <1>10 DEF RxAbort
<1>11. CASE RxUnexpected(n, i, s, cmd)
  BY <1>4, <1>5, <1>8, <1>11 DEF RxUnexpected
<1>12. CASE RxDataFails(n, i, s, cmd, f.data)
  <2> DEFINE out == IF cmd = CMD_DATA THEN To(n, s, CMD_ABORT_WA, <<>>) ELSE <<>>
  <2>1. Release(n, i) /\ Answer(n, out) /\ QuietAnswer(n, out) /\ got' = got
    BY <1>5, <1>12 DEF RxDataFails
  <2> HIDE DEF out
  <2> QED
    BY <1>4, <1>8, <2>1
<1>13. CASE RxStart(n, i, s, cmd)
  <2> DEFINE mode == IF cmd = CMD_START THEN WITH_ACK ELSE WITHOUT_ACK
             t == [s EXCEPT !.payload = <<>>, !.cap = 0, !.offset = 0, !.mode = mode,
                            !.last = now, !.age = 0]
             out == IF cmd = CMD_START /\ s.local # ALL THEN To(n, s, CMD_ACK, <<>>) ELSE <<>>
  <2>1. SetSlot(n, i, t) /\ Answer(n, out) /\ got' = got /\ cmd \in {CMD_START, CMD_START_WA}
    BY <1>13 DEF RxStart
  <2>2. QuietAnswer(n, out)
    BY <1>5, <1>6, <1>7
  <2>3. /\ t.state = "RX" /\ t.peer = s.peer /\ t.local = s.local /\ t.sid = s.sid
        /\ t.payload = <<>> /\ t.mode = mode
    BY <1>1 DEF Session
  <2> HIDE DEF t, out
  <2>4. Key(t) = FrameKey(f)
    BY <2>3 DEF Key
  <2>5. \A a, c : Leads(f, FrameKey(f), n, a, c, xfers) => Stored(t, FrameKey(f), c, xfers)
    BY <1>1, <2>1, <2>3, StartLeadsIn
  <2> QED
    BY <1>9, <2>1, <2>2, <2>3, <2>4, <2>5
<1>14. CASE RxData(n, i, s, cmd, f.data)
  <2> DEFINE t == [Appended(n, s, f.data) EXCEPT !.last = now, !.age = 0]
             out == IF cmd = CMD_DATA THEN To(n, s, CMD_ACK, <<>>) ELSE <<>>
  <2>1. SetSlot(n, i, t) /\ Answer(n, out) /\ got' = got /\ cmd \in {CMD_DATA, CMD_DATA_WA}
    BY <1>14 DEF RxData
  <2>2. QuietAnswer(n, out)
    BY <1>5, <1>6, <1>7
  <2>3. /\ t.state = "RX" /\ t.peer = s.peer /\ t.local = s.local /\ t.sid = s.sid
        /\ t.payload = s.payload \o f.data /\ t.mode = s.mode
    BY <1>1 DEF Session, Appended
  <2>4. s = sess[n][i]
    BY <2>1 DEF CMD_START, CMD_START_WA, CMD_DATA, CMD_DATA_WA
  <2> HIDE DEF t, out
  <2>5. Key(t) = FrameKey(f)
    BY <2>3 DEF Key
  <2>6. \A a \in Point : Received(sess[n], FrameKey(f), a, xfers) => Stored(s, FrameKey(f), a, xfers)
    BY <2>4 DEF Received
  <2>7. \A a, c \in Point :
          Leads(f, FrameKey(f), n, a, c, xfers) /\ Received(sess[n], FrameKey(f), a, xfers) =>
            Stored(t, FrameKey(f), c, xfers)
    <3> SUFFICES ASSUME NEW a \in Point, NEW c \in Point,
                        Leads(f, FrameKey(f), n, a, c, xfers),
                        Received(sess[n], FrameKey(f), a, xfers)
                 PROVE  Stored(t, FrameKey(f), c, xfers)
      OBVIOUS
    <3>1. Stored(s, FrameKey(f), a, xfers)
      BY <2>6
    <3>2. CanIdCommand(f.id) \in {CMD_DATA, CMD_DATA_WA} /\ HistoryOK
      BY <1>1, <2>1
    <3>3. StoredWith(s, f.data, FrameKey(f), c, xfers)
      BY <3>1, <3>2, DataLeadsIn
    <3> QED
      BY <2>3, <3>3 DEF StoredWith, Stored
  <2> QED
    BY <1>9, <2>1, <2>2, <2>3, <2>5, <2>7
<1>15. CASE RxEnd(n, i, s, cmd)
  <2> DEFINE acked(answer) == IF cmd = CMD_END THEN To(n, s, answer, <<>>) ELSE <<>>
             msg == [at |-> n, from |-> s.peer, to |-> s.local,
                     mode |-> IF s.local = ALL THEN WITHOUT_ACK ELSE s.mode,
                     data |-> s.payload]
  <2>1. cmd \in {CMD_END, CMD_END_WA} /\ Release(n, i)
    BY <1>15 DEF RxEnd
  <2>2. QuietAnswer(n, acked(CMD_ACK)) /\ QuietAnswer(n, acked(CMD_ABORT_WA))
    BY <1>5, <1>6, <1>7
  <2>3. CASE Answer(n, acked(CMD_ABORT_WA)) /\ UNCHANGED got
    BY <1>4, <1>8, <2>1, <2>2, <2>3
  <2>4. CASE Answer(n, acked(CMD_ACK)) /\ got' = Append(got, msg)
    <3>1. s = sess[n][i]
      BY <2>1 DEF CMD_START, CMD_START_WA, CMD_END, CMD_END_WA
    <3>2. PICK k \in DOMAIN xfers : /\ xfers[k].from = s.peer /\ xfers[k].to = s.local
                                    /\ xfers[k].mode = s.mode /\ xfers[k].data = s.payload
      BY <2>1, <3>1, EndDelivers
    <3>3. s.local = ALL => s.mode = WITHOUT_ACK
      BY <3>2 DEF OnTheWay, TransfersContinue, Broadcasts
    <3>4. /\ msg.from = s.peer /\ msg.to = s.local /\ msg.mode = s.mode /\ msg.data = s.payload
      BY <3>3
    <3> HIDE DEF msg
    <3>5. got \in Seq(Message)
      BY <1>1 DEF HistoryOK
    <3>6. \A g \in DOMAIN got' : got'[g] = msg \/ (g \in DOMAIN got /\ got'[g] = got[g])
      BY <2>4, <3>5, AppendedMessage
    <3>7. DeliveredIntact'
      <4> SUFFICES ASSUME NEW g \in DOMAIN got'
                   PROVE  \E l \in DOMAIN xfers :
                            /\ xfers[l].from = got'[g].from /\ xfers[l].to = got'[g].to
                            /\ xfers[l].mode = got'[g].mode /\ xfers[l].data = got'[g].data
        BY <1>1 DEF DeliveredIntact
      <4>1. CASE got'[g] = msg
        BY <3>2, <3>4, <4>1
      <4>2. CASE g \in DOMAIN got /\ got'[g] = got[g]
        BY <4>2 DEF OnTheWay, TransfersContinue, DeliveredIntact
      <4> QED
        BY <3>6, <4>1, <4>2
    <3> HIDE DEF acked
    <3> QED
      BY <1>8, <2>1, <2>2, <2>4, <3>7
  <2>5. s.payload \notin Rejected
    BY DEF Reliable
  <2> QED
    BY <1>15, <2>3, <2>4, <2>5 DEF RxEnd
<1> QED
  BY <1>10, <1>11, <1>12, <1>13, <1>14, <1>15 DEF HandleRxFrame

\* add_frame, whatever the first frame of the queue is.
LEMMA AddFrameContinues ==
  ASSUME Reliable, OnTheWay, NEW n \in Nodes, AddFrame(n)
  PROVE  TransfersContinue'
<1> DEFINE f == Head(rx[n])
           from == CanIdFrom(f.id)
           cmd == CanIdCommand(f.id)
<1>1. rx[n] # <<>> /\ TableOK /\ HistoryOK
  BY DEF AddFrame, AddForeign, AddToSession, AddOpening, AddUnknown, OnTheWay
<1>2. f = Head(rx[n])
  OBVIOUS
<1> HIDE DEF f
<1>3. CASE AddForeign(n) \/ AddUnknown(n)
  BY <1>3, UnheardContinues
<1>4. CASE AddToSession(n)
  <2> DEFINE M == Matching(n, FrameKey(f))
             i == FirstOf(M)
             s == sess[n][i]
  <2>1. /\ Accepted(n, f) /\ M # {}
        /\ \/ IsTx(s) /\ HandleTxFrame(n, i, s, cmd)
           \/ ~ IsTx(s) /\ HandleRxFrame(n, i, s, cmd, f.data)
    BY <1>4 DEF AddToSession, f
  <2>2. i \in Slots /\ Busy(s) /\ Key(s) = FrameKey(f)
    <3>1. M \in SUBSET Slots
      BY DEF Matching
    <3>2. i \in M
      BY <2>1, <3>1, FirstSlot
    <3> QED
      BY <3>2 DEF Matching
  <2> HIDE DEF i
  <2>3. SlotOK(n, s) /\ \A j \in Slots \ {i} : Busy(sess[n][j]) => Key(sess[n][j]) # FrameKey(f)
    BY <1>1, <2>2 DEF TableOK, UniqueKeys
  <2>4. CASE IsTx(s)
    <3>1. HandleTxFrame(n, i, s, cmd)
      BY <2>1, <2>4
    <3> HIDE DEF s, cmd
    <3> QED
      BY <1>1, <1>2, <2>2, <2>4, <3>1, TxCallContinues DEF s, cmd
  <2>5. CASE ~ IsTx(s)
    <3>1. HandleRxFrame(n, i, s, cmd, f.data) /\ s.state = "RX"
      BY <2>1, <2>2, <2>5 DEF IsTx, Busy
    <3> HIDE DEF s, cmd
    <3>2. s = sess[n][i] \/ cmd \in {CMD_START, CMD_START_WA}
      BY DEF s
    <3> QED
      BY <1>1, <1>2, <2>1, <2>2, <2>3, <3>1, <3>2, RxCallContinues DEF cmd
  <2> QED
    BY <2>4, <2>5
<1>5. CASE AddOpening(n)
  <2> DEFINE i == FirstOf(FreeFor(n, from))
             s == OpenedSession(f)
  <2>1. /\ Accepted(n, f) /\ Matching(n, FrameKey(f)) = {}
        /\ cmd \in {CMD_START, CMD_START_WA} /\ FreeFor(n, from) # {}
        /\ HandleRxFrame(n, i, s, cmd, f.data)
    BY <1>5 DEF AddOpening, f
  <2>2. i \in Slots
    <3>1. FreeFor(n, from) \in SUBSET Slots
      BY DEF FreeFor
    <3> QED
      BY <2>1, <3>1, FirstSlot
  <2>3. /\ s.state = "RX" /\ s.peer = from /\ s.local = CanIdTo(f.id) /\ s.sid = CanIdSession(f.id)
        /\ s.payload = <<>> /\ s.cap = 0 /\ s.offset = 0
    BY DEF OpenedSession, FreeSession
  <2>4. f.id \in Nat /\ f \in HonestFrame /\ CanIdTo(f.id) \in {n, ALL}
    BY <1>1, <1>2, <2>1, TakenFrame
  <2>5. s \in Session
    <3>1. now \in Nat
      BY <1>1, SizesAssumption DEF HistoryOK
    <3> QED
      BY <2>4, <3>1, OpenedType
  <2> HIDE DEF s
  <2>6. CanIdSession(f.id) % 2 = InitiatorBit(CanIdFrom(f.id), CanIdTo(f.id))
    BY <2>1, <2>4 DEF HonestFrame
  <2>7. SlotOK(n, s)
    <3>1. Len(<<>>) = 0 /\ MaxMessageSize[n] >= 0
      BY SizesAssumption
    <3> QED
      BY <2>3, <2>4, <2>5, <2>6, <3>1 DEF SlotOK, BufferOK, ChunkOK, RoleOK, IsTx
  <2>8. Key(s) = FrameKey(f)
    BY <2>3 DEF Key, FrameKey
  <2>9. \A j \in Slots \ {i} : Busy(sess[n][j]) => Key(sess[n][j]) # FrameKey(f)
    BY <2>1 DEF Matching
  <2> HIDE DEF i, cmd
  <2> QED
    BY <1>1, <1>2, <2>1, <2>2, <2>3, <2>7, <2>8, <2>9, RxCallContinues DEF cmd
<1> QED
  BY <1>3, <1>4, <1>5 DEF AddFrame

\* A step without frames: slots stay alike or go.
LEMMA SilentStep ==
  ASSUME OnTheWay, UNCHANGED <<rx, got>>, Extends(xfers, xfers'), Broadcasts(xfers'), DeliveredIntact',
         \A m \in Nodes, j \in Slots : Alike(sess[m][j], sess'[m][j]) \/ sess'[m][j] = FreeSession
  PROVE  TransfersContinue'
<1>1. ExchangesContinue /\ AllCarry /\ NoNacks
  BY DEF OnTheWay, TransfersContinue
<1>2. ASSUME NEW m \in Nodes, NEW x, NEW a, Received(sess[m], x, a, xfers)
      PROVE  Received(sess'[m], x, a, xfers)
  <2> SUFFICES ASSUME NEW j \in Slots, sess'[m][j].state = "RX", Key(sess'[m][j]) = x
               PROVE  Stored(sess'[m][j], x, a, xfers)
    BY DEF Received
  <2> DEFINE s == sess[m][j]
             t == sess'[m][j]
  <2>1. Alike(s, t)
    BY FreeCarries
  <2>2. s.state = "RX" /\ Key(s) = x
    BY <2>1, AlikeSlots DEF Alike
  <2>3. Stored(s, x, a, xfers)
    BY <1>2, <2>2 DEF Received
  <2> HIDE DEF s, t
  <2>4. Stored(t, x, a, xfers)
    BY <2>1, <2>3, AlikeSlots
  <2> QED
    BY <2>4 DEF t
<1>3. ASSUME NEW m \in Nodes, NEW x, NEW a, Emitted(sess[m], x, a)
      PROVE  Emitted(sess'[m], x, a)
  <2> SUFFICES ASSUME NEW j \in Slots, Sending(sess'[m][j]), SlotExchange(sess'[m][j]) = x
               PROVE  a.xfer = sess'[m][j].xfer /\ a.offset = SentUpTo(sess'[m][j])
    BY DEF Emitted
  <2> DEFINE s == sess[m][j]
             t == sess'[m][j]
  <2>1. Alike(s, t)
    BY FreeCarries
  <2>2. Sending(s) /\ SlotExchange(s) = x /\ SentUpTo(t) = SentUpTo(s) /\ t.xfer = s.xfer
    BY <2>1, AlikeSlots DEF Alike
  <2>3. a.xfer = s.xfer /\ a.offset = SentUpTo(s)
    BY <1>3, <2>2 DEF Emitted
  <2> QED
    BY <2>2, <2>3
<1>4. ExchangesContinue'
  <2> SUFFICES ASSUME NEW m \in Nodes, NEW x \in ExchangesTo(m)
               PROVE  Continues(rx'[m], sess'[m], sess'[x[1]], x, m, xfers')
    BY DEF ExchangesContinue
  <2>1. Continues(rx[m], sess[m], sess[x[1]], x, m, xfers) /\ rx' = rx /\ x[1] \in Nodes
    BY <1>1, ExchangeOf DEF ExchangesContinue
  <2>2. Continues(rx[m], sess'[m], sess'[x[1]], x, m, xfers')
    <3>1. \A a \in Point : Received(sess[m], x, a, xfers) => Received(sess'[m], x, a, xfers)
      BY <1>2
    <3>2. \A a \in Point : Emitted(sess[x[1]], x, a) => Emitted(sess'[x[1]], x, a)
      BY <1>3, <2>1
    <3> QED
      BY <2>1, <3>1, <3>2, ContinuesStill
  <2> QED
    BY <2>1, <2>2
<1>5. AllCarry'
  <2> SUFFICES ASSUME NEW m \in Nodes, NEW j \in Slots PROVE Carries(m, sess'[m][j], xfers')
    BY DEF AllCarry
  <2>1. \A s : Carries(m, s, xfers) => Carries(m, s, xfers')
    BY DEF Carries, Extends
  <2>2. Carries(m, sess[m][j], xfers)
    BY <1>1 DEF AllCarry
  <2>3. CASE Alike(sess[m][j], sess'[m][j])
    BY <2>1, <2>2, <2>3, AlikeSlots
  <2>4. CASE sess'[m][j] = FreeSession
    BY <2>4, FreeCarries
  <2> QED
    BY <2>3, <2>4
<1>6. NoNacks'
  BY <1>1 DEF NoNacks
<1> QED
  BY <1>4, <1>5, <1>6 DEF TransfersContinue

\* A timeout takes a slot away and sends nothing.
LEMMA TimeoutContinues ==
  ASSUME OnTheWay, NEW n \in Nodes, ProcessTimeout(n)
  PROVE  TransfersContinue'
<1> DEFINE i == FirstOf(Late(n))
           s == sess[n][i]
<1>1. TableOK /\ HistoryOK /\ TransfersContinue
  BY DEF OnTheWay
<1>2. /\ Late(n) # {} /\ Release(n, i) /\ UNCHANGED <<rx, now, got>>
      /\ IF s.state = "RX" THEN UNCHANGED xfers ELSE EndTransfer(s, "TX_TIMEOUT")
  BY DEF ProcessTimeout
<1>3. i \in Slots /\ TimedOut(n, s)
  <2>1. Late(n) \in SUBSET Slots
    BY DEF Late
  <2>2. i \in Late(n)
    BY <1>2, <2>1, FirstSlot
  <2> QED
    BY <2>2 DEF Late
<1> HIDE DEF i
<1>4. \A m \in Nodes, j \in Slots :
        Alike(sess[m][j], sess'[m][j]) \/ sess'[m][j] = FreeSession
  BY <1>1, <1>2, <1>3 DEF Release, SetSlot, TableOK, Alike
<1>5. SameTransfers(xfers, xfers')
  <2>1. CASE s.state = "RX"
    BY <1>2, <2>1 DEF SameTransfers
  <2>2. CASE s.state # "RX"
    <3>1. IsTx(s) /\ Carries(n, s, xfers)
      BY <1>1, <1>3, <2>2 DEF IsTx, Timed, TimedOut, TransfersContinue, AllCarry
    <3>2. s.xfer \in DOMAIN xfers /\ EndTransfer(s, "TX_TIMEOUT")
      BY <1>2, <2>2, <3>1 DEF Carries
    <3> QED
      BY <1>1, <3>2, EndedTransfers
  <2> QED
    BY <2>1, <2>2
<1> QED
  BY <1>1, <1>2, <1>4, <1>5, SameHistory, SilentStep

\* Time goes on, whatever is under way.
LEMMA TickContinues ==
  ASSUME OnTheWay, Tick
  PROVE  TransfersContinue'
<1>1. TableOK /\ TransfersContinue /\ UNCHANGED <<rx, xfers, got>>
  BY DEF OnTheWay, Tick
<1>2. \A m \in Nodes, j \in Slots : Alike(sess[m][j], sess'[m][j])
  <2> SUFFICES ASSUME NEW m \in Nodes, NEW j \in Slots PROVE Alike(sess[m][j], sess'[m][j])
    OBVIOUS
  <2>1. sess[m][j] \in Session
    BY <1>1 DEF TableOK
  <2>2. sess'[m][j] = IF Timed(sess[m][j]) THEN [sess[m][j] EXCEPT !.age = @ + 1] ELSE sess[m][j]
    BY DEF Tick
  <2> QED
    BY <2>1, <2>2 DEF Session, Alike
<1>3. SameTransfers(xfers, xfers')
  BY <1>1 DEF SameTransfers
<1> QED
  BY <1>1, <1>2, <1>3, SameHistory, SilentStep

\* A node that restarts forgets its sessions; what is under way does not change.
LEMMA RestartContinues ==
  ASSUME OnTheWay, NEW n \in Nodes, Restart(n)
  PROVE  TransfersContinue'
<1>1. TableOK /\ HistoryOK /\ TransfersContinue /\ UNCHANGED <<rx, got>>
  BY DEF OnTheWay, Restart
<1>2. \A m \in Nodes, j \in Slots : Alike(sess[m][j], sess'[m][j]) \/ sess'[m][j] = FreeSession
  BY <1>1 DEF Restart, TableOK, Alike
<1>3. Extends(xfers, xfers') /\ DOMAIN xfers' = DOMAIN xfers
  <2>1. DOMAIN xfers' = DOMAIN xfers
    BY DEF Restart
  <2>2. ASSUME NEW k \in DOMAIN xfers
        PROVE  /\ xfers'[k].from = xfers[k].from /\ xfers'[k].to = xfers[k].to
               /\ xfers'[k].mode = xfers[k].mode /\ xfers'[k].data = xfers[k].data
    <3>1. xfers[k] \in Transfer
      BY <1>1, TransferTypes
    <3>2. xfers'[k] = xfers[k] \/ xfers'[k] = [xfers[k] EXCEPT !.out = "RESTARTED"]
      BY DEF Restart
    <3> QED
      BY <3>1, <3>2 DEF Transfer
  <2> QED
    BY <2>1, <2>2 DEF Extends
<1>4. Broadcasts(xfers') /\ DeliveredIntact'
  BY <1>1, <1>3 DEF TransfersContinue, Broadcasts, DeliveredIntact, Extends
<1> QED
  BY <1>1, <1>2, <1>3, <1>4, SilentStep

\* process sends the next chunk of an unacknowledged transfer, or END_WA.
LEMMA UnackedContinues ==
  ASSUME OnTheWay, NEW n \in Nodes, ProcessUnacked(n)
  PROVE  TransfersContinue'
<1> DEFINE i == FirstOf(Unacked(n))
           s == sess[n][i]
           y == <<n, s.peer, s.sid>>
<1>1. TableOK /\ HistoryOK /\ TransfersContinue /\ got' = got
  BY DEF OnTheWay, ProcessUnacked
<1>2. \/ /\ s.offset < Len(s.payload)
         /\ SetSlot(n, i, [s EXCEPT !.offset = @ + Len(NextChunk(s))])
         /\ Emit(n, To(n, s, CMD_DATA_WA, NextChunk(s)))
         /\ UNCHANGED xfers
      \/ /\ s.offset >= Len(s.payload)
         /\ Release(n, i)
         /\ Emit(n, To(n, s, CMD_END_WA, <<>>))
         /\ EndTransfer(s, "TX_FINISHED")
  BY DEF ProcessUnacked
<1>3. i \in Slots /\ s.state = "TX_WITHOUT_ACK"
  <2>1. Unacked(n) # {} /\ Unacked(n) \in SUBSET Slots
    BY DEF ProcessUnacked, Unacked
  <2>2. i \in Unacked(n)
    BY <2>1, FirstSlot
  <2> QED
    BY <2>2 DEF Unacked
<1> HIDE DEF i
<1>4. /\ SlotOK(n, s) /\ s \in Session /\ Carries(n, s, xfers) /\ IsTx(s) /\ Sending(s)
      /\ s.local = n /\ s.peer # n /\ s.mode = WITHOUT_ACK /\ SentUpTo(s) = s.offset
      /\ s.xfer \in DOMAIN xfers
  <2>1. SlotOK(n, s) /\ Carries(n, s, xfers) /\ IsTx(s) /\ Sending(s) /\ SentUpTo(s) = s.offset
    BY <1>1, <1>3 DEF TableOK, TransfersContinue, AllCarry, IsTx, Sending, SentUpTo
  <2> QED
    BY <1>3, <2>1 DEF SlotOK, RoleOK, Carries
<1>5. /\ s.offset \in Nat /\ Len(s.payload) \in Nat /\ s.offset <= Len(s.payload)
      /\ s.peer \in 0 .. DEVICE_ID_MAX /\ s.sid \in 0 .. SESSION_ID_MAX /\ s.xfer \in Nat
  <2>1. /\ s.offset \in Nat /\ s.payload \in Seq(Nat) /\ s.peer \in 0 .. DEVICE_ID_MAX
        /\ s.sid \in 0 .. SESSION_ID_MAX /\ s.xfer \in Nat
    BY <1>4 DEF Session
  <2> QED
    BY <1>4, <2>1, LenProperties DEF SlotOK, BufferOK
<1>6. SlotExchange(s) = y /\ Key(s) = <<s.peer, n, s.sid>>
  BY <1>4 DEF SlotExchange, Key
<1>7. ASSUME NEW j \in Slots \ {i}, Sending(sess[n][j]) PROVE SlotExchange(sess[n][j]) # y
  <2>1. Busy(s) /\ Busy(sess[n][j]) /\ IsTx(sess[n][j])
    BY <1>4, <1>7 DEF Busy, IsTx, Sending
  <2>2. Key(sess[n][j]) # Key(s)
    BY <1>1, <1>3, <2>1 DEF TableOK, UniqueKeys
  <2> QED
    BY <1>6, <2>1, <2>2 DEF SlotExchange, Key
<1>8. ASSUME NEW t, SetSlot(n, i, t), t.state # "RX", Carries(n, t, xfers'),
             Sending(t) => SlotExchange(t) = y, SameTransfers(xfers, xfers'),
             NEW F, Emit(n, <<F>>), CanIdFrom(F.id) = n, CanIdCommand(F.id) # CMD_NACK,
             FrameKey(F) = y,
             \A m \in Nodes \ {n} : y \in ExchangesTo(m) =>
               \A a \in Point : a.xfer = s.xfer /\ a.offset = s.offset =>
                 \E c \in Point : /\ Leads(F, y, m, a, c, xfers)
                                  /\ Sending(t) => c.xfer = t.xfer /\ c.offset = SentUpTo(t)
      PROVE  TransfersContinue'
  <2>1. \A j \in Slots : sess'[n][j] = IF j = i THEN t ELSE sess[n][j]
    BY <1>1, <1>8 DEF SetSlot, TableOK
  <2>2. Remains(n)
    <3>1. \A j \in Slots : sess'[n][j].state = "RX" => Alike(sess[n][j], sess'[n][j])
      BY <1>8, <2>1 DEF Alike
    <3> QED
      BY <3>1, RemainsAlike
  <2>3. Extends(xfers, xfers') /\ Broadcasts(xfers') /\ DeliveredIntact'
    BY <1>1, <1>8, SameHistory
  <2>4. \A m \in Nodes \ {n} : y \in ExchangesTo(m) =>
          \A a \in Point : Emitted(sess[n], y, a) =>
            \E c \in Point : /\ Leads(F, y, m, a, c, xfers')
                             /\ Sending(t) => c.xfer = t.xfer /\ c.offset = SentUpTo(t)
    <3>1. \A a : Emitted(sess[n], y, a) => a.xfer = s.xfer /\ a.offset = s.offset
      BY <1>3, <1>4, <1>6 DEF Emitted
    <3>2. \A m, a, c : Leads(F, y, m, a, c, xfers) => Leads(F, y, m, a, c, xfers')
      <4> HIDE DEF y
      <4> QED
        BY <2>3, ExtendsLeads
    <3> QED
      BY <1>8, <3>1, <3>2
  <2>5. Sending(sess[n][i]) => SlotExchange(sess[n][i]) = y
    BY <1>6
  <2> HIDE DEF y
  <2>6. GoesOn(n, <<F>>)
    BY <1>1, <1>3, <1>7, <1>8, <2>4, <2>5, GoesFurther
  <2> DEFINE out == <<F>>
  <2>7. /\ out = <<>> \/ \E g : /\ out = <<g>> /\ CanIdFrom(g.id) = n
                                /\ CanIdCommand(g.id) # CMD_NACK
        /\ GoesOn(n, out) /\ Emit(n, out)
    BY <1>8, <2>6
  <2> HIDE DEF out
  <2>8. sess' = sess \/ \E j \in Slots : \E u : SetSlot(n, j, u) /\ Carries(n, u, xfers')
    BY <1>3, <1>8
  <2> QED
    BY <2>2, <2>3, <2>7, <2>8, CallKeeps
<1>9. \A cmd \in Commands : \A data :
        LET F == MakeFrame(n, s.peer, s.sid, cmd, data)
        IN  /\ CanIdFrom(F.id) = n /\ CanIdCommand(F.id) = cmd
            /\ FrameKey(F) = y
  BY <1>5, FrameFields DEF FrameKey
<1>10. CASE /\ s.offset < Len(s.payload)
            /\ SetSlot(n, i, [s EXCEPT !.offset = @ + Len(NextChunk(s))])
            /\ Emit(n, To(n, s, CMD_DATA_WA, NextChunk(s)))
            /\ UNCHANGED xfers
  <2> DEFINE d == NextChunk(s)
             t == [s EXCEPT !.offset = s.offset + Len(d)]
             F == MakeFrame(n, s.peer, s.sid, CMD_DATA_WA, d)
  <2>1. SetSlot(n, i, t) /\ Emit(n, <<F>>) /\ SameTransfers(xfers, xfers')
    BY <1>10 DEF To, SameTransfers
  <2>2. /\ t.state = s.state /\ t.offset = s.offset + Len(d)
        /\ t.peer = s.peer /\ t.local = s.local /\ t.sid = s.sid /\ t.xfer = s.xfer
        /\ t.mode = s.mode /\ t.payload = s.payload
    BY <1>4 DEF Session
  <2>3. Len(d) \in Nat
    BY <1>4, <1>10, NextChunkProperties
  <2>4. CMD_DATA_WA \in Commands /\ CMD_DATA_WA # CMD_NACK
    BY DEF CMD_DATA_WA, CMD_NACK, Commands, CMD_START, CMD_ABORT_WA
  <2>5. CanIdFrom(F.id) = n /\ CanIdCommand(F.id) # CMD_NACK /\ FrameKey(F) = y
    BY <1>9, <2>4
  <2> HIDE DEF t
  <2>6. /\ SlotExchange(t) = y /\ SentUpTo(t) = s.offset + Len(d) /\ Carries(n, t, xfers')
        /\ t.state # "RX"
    BY <1>3, <1>4, <1>6, <1>10, <2>2 DEF SlotExchange, IsTx, SentUpTo, Carries
  <2>7. F = MakeFrame(n, s.peer, s.sid, CMD_DATA_WA, NextChunk(s)) /\ y = <<n, s.peer, s.sid>>
    OBVIOUS
  <2> HIDE DEF F
  <2>8. ASSUME NEW m \in Nodes \ {n}, y \in ExchangesTo(m), NEW a \in Point,
               a.xfer = s.xfer, a.offset = s.offset
        PROVE  \E c \in Point : /\ Leads(F, y, m, a, c, xfers)
                                /\ Sending(t) => c.xfer = t.xfer /\ c.offset = SentUpTo(t)
    <3> DEFINE c == [xfer |-> s.xfer, offset |-> s.offset + Len(d)]
    <3>1. c \in Point /\ c.xfer = s.xfer /\ c.offset = s.offset + Len(d)
      <4>1. s.offset + Len(d) \in Nat
        BY <1>5, <2>3
      <4> QED
        BY <1>5, <4>1 DEF Point
    <3> HIDE DEF c, y, d
    <3>2. CMD_DATA_WA \in {CMD_DATA, CMD_DATA_WA} /\ c.offset = s.offset + Len(NextChunk(s))
      BY <3>1 DEF d
    <3> HIDE DEF s
    <3>3. Leads(F, y, m, a, c, xfers)
      BY <1>4, <1>10, <2>7, <2>8, <3>1, <3>2, DataSent
    <3> QED
      BY <2>2, <2>6, <3>1, <3>3
  <2> HIDE DEF y
  <2> QED
    BY <1>8, <2>1, <2>5, <2>6, <2>8
<1>11. CASE /\ s.offset >= Len(s.payload)
            /\ Release(n, i)
            /\ Emit(n, To(n, s, CMD_END_WA, <<>>))
            /\ EndTransfer(s, "TX_FINISHED")
  <2> DEFINE t == FreeSession
             F == MakeFrame(n, s.peer, s.sid, CMD_END_WA, <<>>)
  <2>1. /\ SetSlot(n, i, t) /\ Emit(n, <<F>>) /\ Carries(n, t, xfers')
        /\ t.state # "RX" /\ ~ Sending(t)
    BY <1>11, FreeCarries DEF To, Release
  <2>2. SameTransfers(xfers, xfers')
    BY <1>1, <1>4, <1>11, EndedTransfers
  <2>3. s.offset = Len(s.payload)
    BY <1>5, <1>11
  <2>4. CMD_END_WA \in Commands /\ CMD_END_WA # CMD_NACK
    BY DEF CMD_END_WA, CMD_NACK, Commands, CMD_START, CMD_ABORT_WA
  <2>5. CanIdFrom(F.id) = n /\ CanIdCommand(F.id) # CMD_NACK /\ FrameKey(F) = y
    BY <1>9, <2>4
  <2>6. F = MakeFrame(n, s.peer, s.sid, CMD_END_WA, <<>>) /\ y = <<n, s.peer, s.sid>>
    OBVIOUS
  <2> HIDE DEF t, F
  <2>7. ASSUME NEW m \in Nodes \ {n}, y \in ExchangesTo(m), NEW a \in Point,
               a.xfer = s.xfer, a.offset = s.offset
        PROVE  \E c \in Point : /\ Leads(F, y, m, a, c, xfers)
                                /\ Sending(t) => c.xfer = t.xfer /\ c.offset = SentUpTo(t)
    <3>1. a.offset = Len(s.payload) /\ CMD_END_WA \in {CMD_END, CMD_END_WA}
      BY <2>3, <2>7
    <3> HIDE DEF y, s
    <3>2. Leads(F, y, m, a, a, xfers)
      BY <1>4, <2>6, <2>7, <3>1, EndSent
    <3> QED
      BY <2>1, <2>7, <3>2
  <2> HIDE DEF y
  <2> QED
    BY <1>8, <2>1, <2>2, <2>5, <2>7
<1> QED
  BY <1>2, <1>10, <1>11

\* What start_send does: the slot, written from i to t, and START or START_WA.
Begins(n, i, peer, t) ==
  /\ ~ Busy(sess[n][i]) /\ SetSlot(n, i, t)
  /\ t.mode \in {WITH_ACK, WITHOUT_ACK} /\ (peer = ALL => t.mode = WITHOUT_ACK)
  /\ t.state = IF t.mode = WITH_ACK THEN "TX_WAIT_START_ACK" ELSE "TX_WITHOUT_ACK"
  /\ t.peer = peer /\ t.local = n /\ t.offset = 0 /\ t.xfer = Len(xfers) + 1
  /\ t.sid \div 2 \notin ReservedIds(n, peer)
  /\ Emit(n, <<MakeFrame(n, t.peer, t.sid,
                         IF t.mode = WITH_ACK THEN CMD_START ELSE CMD_START_WA, <<>>)>>)
  /\ xfers' = Append(xfers, [from |-> n, to |-> t.peer, mode |-> t.mode,
                             data |-> t.payload, out |-> "OPEN"])

LEMMA StartBegins ==
  ASSUME TableOK, NEW n \in Nodes, NEW peer \in Destinations, NEW mode \in Modes,
         StartSend(n, peer, mode)
  PROVE  \E i \in Slots : \E t : Begins(n, i, peer, t)
<1> DEFINE data == Payloads[Len(xfers) + 1]
           unique == FirstOf(UnreservedIds(n, peer))
           sid == SessionId(n, peer, unique)
           i == FirstOf(FreeFor(n, peer))
           kind == IF peer = ALL THEN WITHOUT_ACK ELSE mode
           s == [FreeSession EXCEPT
                   !.state = IF kind = WITH_ACK THEN "TX_WAIT_START_ACK" ELSE "TX_WITHOUT_ACK",
                   !.mode = kind, !.peer = peer, !.local = n,
                   !.sid = sid, !.payload = data, !.cap = Len(data), !.last = now,
                   !.xfer = Len(xfers) + 1]
<1>1. /\ FreeFor(n, peer) # {} /\ UnreservedIds(n, peer) # {}
      /\ SetSlot(n, i, s)
      /\ Emit(n, To(n, s, IF kind = WITH_ACK THEN CMD_START ELSE CMD_START_WA, <<>>))
      /\ xfers' = Append(xfers, [from |-> n, to |-> peer, mode |-> kind,
                                 data |-> data, out |-> "OPEN"])
  BY DEF StartSend
<1>2. unique \in UnreservedIds(n, peer) /\ unique \in 0 .. 7
  <2>1. UnreservedIds(n, peer) \in SUBSET Nat
    BY SizesAssumption DEF UnreservedIds
  <2>2. unique \in UnreservedIds(n, peer)
    BY <1>1, <2>1, FirstOfMember
  <2> QED
    BY <2>2, SizesAssumption DEF UnreservedIds
<1>3. sid \div 2 = unique
  <2> HIDE DEF unique
  <2>1. InitiatorBit(n, peer) \in {0, 1}
    BY DEF InitiatorBit
  <2> QED
    BY <1>2, <2>1 DEF SessionId
<1>4. i \in Slots /\ ~ Busy(sess[n][i])
  <2>1. FreeFor(n, peer) \in SUBSET Slots
    BY DEF FreeFor
  <2>2. i \in FreeFor(n, peer)
    BY <1>1, <2>1, FirstSlot
  <2> QED
    BY <2>2 DEF FreeFor
<1>5. kind \in {WITH_ACK, WITHOUT_ACK} /\ (peer = ALL => kind = WITHOUT_ACK)
  BY TrafficAssumption
<1> HIDE DEF sid, i, data, kind
<1>6. /\ s.state = IF kind = WITH_ACK THEN "TX_WAIT_START_ACK" ELSE "TX_WITHOUT_ACK"
      /\ s.mode = kind /\ s.peer = peer /\ s.local = n
      /\ s.sid = sid /\ s.offset = 0 /\ s.xfer = Len(xfers) + 1 /\ s.payload = data
  BY DEF FreeSession
<1>7. sid \div 2 \notin ReservedIds(n, peer)
  BY <1>2, <1>3 DEF UnreservedIds
<1> HIDE DEF s
<1>8. To(n, s, IF kind = WITH_ACK THEN CMD_START ELSE CMD_START_WA, <<>>)
        = <<MakeFrame(n, s.peer, s.sid,
                      IF s.mode = WITH_ACK THEN CMD_START ELSE CMD_START_WA, <<>>)>>
  BY <1>6 DEF To
<1>9. xfers' = Append(xfers, [from |-> n, to |-> s.peer, mode |-> s.mode,
                              data |-> s.payload, out |-> "OPEN"])
  BY <1>1, <1>6
<1>10. Begins(n, i, peer, s)
  BY <1>1, <1>4, <1>5, <1>6, <1>7, <1>8, <1>9 DEF Begins
<1> QED
  BY <1>4, <1>10

\* One transfer more.
LEMMA LongerHistory ==
  ASSUME HistoryOK, TransfersContinue, got' = got, NEW y, xfers' = Append(xfers, y),
         y.to = ALL => y.mode = WITHOUT_ACK
  PROVE  /\ Extends(xfers, xfers') /\ Broadcasts(xfers') /\ DeliveredIntact'
         /\ Len(xfers) + 1 \in DOMAIN xfers' /\ xfers'[Len(xfers) + 1] = y
<1> DEFINE e == Len(xfers) + 1
<1>1. xfers \in Seq(Transfer) /\ Len(xfers) \in Nat /\ DOMAIN xfers = 1 .. Len(xfers)
  BY LenProperties DEF HistoryOK
<1>2. /\ DOMAIN xfers' = DOMAIN xfers \union {e} /\ xfers'[e] = y
      /\ \A k \in DOMAIN xfers : xfers'[k] = xfers[k]
  BY <1>1
<1> HIDE DEF e
<1>3. Extends(xfers, xfers')
  BY <1>2 DEF Extends
<1>4. Broadcasts(xfers')
  BY <1>2 DEF TransfersContinue, Broadcasts
<1>5. DeliveredIntact'
  BY <1>2 DEF TransfersContinue, DeliveredIntact
<1> QED
  BY <1>2, <1>3, <1>4, <1>5 DEF e

\* A new transfer: START is behind everything that is left of older ones.
LEMMA StartContinues ==
  ASSUME OnTheWay, NEW n \in Nodes, NEW peer \in Destinations, NEW mode \in Modes,
         StartSend(n, peer, mode)
  PROVE  TransfersContinue'
<1>1. TableOK /\ BusOK /\ HistoryOK /\ TransfersContinue /\ got' = got /\ peer # n
  BY DEF OnTheWay, StartSend
<1>2. PICK i \in Slots : \E t : Begins(n, i, peer, t)
  BY <1>1, StartBegins
<1>3. PICK t : Begins(n, i, peer, t)
  BY <1>2
<1> DEFINE kind == IF t.mode = WITH_ACK THEN CMD_START ELSE CMD_START_WA
           F == MakeFrame(n, t.peer, t.sid, kind, <<>>)
           y == <<n, t.peer, t.sid>>
           z == [from |-> n, to |-> t.peer, mode |-> t.mode, data |-> t.payload, out |-> "OPEN"]
<1>4. /\ ~ Busy(sess[n][i]) /\ SetSlot(n, i, t) /\ Emit(n, <<F>>) /\ xfers' = Append(xfers, z)
      /\ t.mode \in {WITH_ACK, WITHOUT_ACK} /\ (t.peer = ALL => t.mode = WITHOUT_ACK)
      /\ t.state = IF t.mode = WITH_ACK THEN "TX_WAIT_START_ACK" ELSE "TX_WITHOUT_ACK"
      /\ t.peer = peer /\ t.local = n /\ t.offset = 0 /\ t.xfer = Len(xfers) + 1
      /\ t.sid \div 2 \notin ReservedIds(n, peer)
  BY <1>3 DEF Begins
<1>5. t \in Session
  <2>1. TableOK'
    BY <1>1, StartSendStep
  <2>2. sess'[n][i] = t
    BY <1>1, <1>4 DEF SetSlot, TableOK
  <2> QED
    BY <2>1, <2>2 DEF TableOK
<1>6. /\ Extends(xfers, xfers') /\ Broadcasts(xfers') /\ DeliveredIntact'
      /\ t.xfer \in DOMAIN xfers' /\ xfers'[t.xfer] = z
  <2>1. z.to = ALL => z.mode = WITHOUT_ACK
    BY <1>4
  <2> HIDE DEF z
  <2> QED
    BY <1>1, <1>4, <2>1, LongerHistory
<1>7. /\ IsTx(t) /\ Sending(t) /\ t.state # "RX" /\ SlotExchange(t) = y /\ SentUpTo(t) = 0
      /\ Carries(n, t, xfers')
  <2>1. /\ z.from = n /\ z.to = t.peer /\ z.mode = t.mode /\ z.data = t.payload
    OBVIOUS
  <2>2. IsTx(t) /\ Sending(t) /\ t.state # "RX" /\ SlotExchange(t) = y /\ SentUpTo(t) = 0
    BY <1>4 DEF IsTx, Sending, SlotExchange, SentUpTo
  <2> HIDE DEF z
  <2> QED
    BY <1>4, <1>6, <2>1, <2>2 DEF Carries, WITH_ACK, WITHOUT_ACK
<1>8. \A j \in Slots \ {i} : Sending(sess[n][j]) => SlotExchange(sess[n][j]) # y
  <2> SUFFICES ASSUME NEW j \in Slots \ {i}, Sending(sess[n][j]), SlotExchange(sess[n][j]) = y
               PROVE  FALSE
    OBVIOUS
  <2>1. IsTx(sess[n][j])
    BY DEF IsTx, Sending
  <2>2. sess[n][j].peer = peer /\ sess[n][j].sid = t.sid
    BY <1>4, <2>1 DEF SlotExchange
  <2>3. sess[n][j].sid \div 2 \in ReservedIds(n, peer)
    BY <2>1, <2>2 DEF ReservedIds
  <2> QED
    BY <1>4, <2>2, <2>3
<1>9. ~ Sending(sess[n][i])
  BY <1>4 DEF Busy, Sending
<1>10. t.peer \in 0 .. DEVICE_ID_MAX /\ t.sid \in 0 .. SESSION_ID_MAX /\ t.xfer \in Nat
  BY <1>5 DEF Session
<1>11. CanIdFrom(F.id) = n /\ CanIdCommand(F.id) # CMD_NACK /\ FrameKey(F) = y
  <2>1. kind \in Commands /\ kind # CMD_NACK
    BY DEF Commands, CMD_START, CMD_START_WA, CMD_NACK, CMD_ABORT_WA
  <2> HIDE DEF kind
  <2>2. /\ CanIdFrom(F.id) = n /\ CanIdTo(F.id) = t.peer /\ CanIdSession(F.id) = t.sid
        /\ CanIdCommand(F.id) = kind
    BY <1>10, <2>1, FrameFields
  <2> QED
    BY <2>1, <2>2 DEF FrameKey
<1>12. \A j \in Slots : sess'[n][j] = IF j = i THEN t ELSE sess[n][j]
  BY <1>1, <1>4 DEF SetSlot, TableOK
<1>13. Remains(n)
  <2>1. \A j \in Slots : sess'[n][j].state = "RX" => Alike(sess[n][j], sess'[n][j])
    BY <1>7, <1>12 DEF Alike
  <2> QED
    BY <2>1, RemainsAlike
<1>14. F = MakeFrame(n, t.peer, t.sid, kind, <<>>) /\ y = <<n, t.peer, t.sid>>
       /\ kind = IF t.mode = WITH_ACK THEN CMD_START ELSE CMD_START_WA
  OBVIOUS
<1> HIDE DEF F, y, z, kind
<1>15. \A m \in Nodes \ {n} : y \in ExchangesTo(m) =>
         \A a \in Point : Emitted(sess[n], y, a) =>
           \E c \in Point : /\ Leads(F, y, m, a, c, xfers')
                            /\ Sending(t) => c.xfer = t.xfer /\ c.offset = SentUpTo(t)
  <2> SUFFICES ASSUME NEW m \in Nodes \ {n}, y \in ExchangesTo(m), NEW a \in Point
               PROVE  \E c \in Point : /\ Leads(F, y, m, a, c, xfers')
                                       /\ Sending(t) => c.xfer = t.xfer /\ c.offset = SentUpTo(t)
    OBVIOUS
  <2> DEFINE c == [xfer |-> t.xfer, offset |-> 0]
  <2>1. c \in Point /\ c.xfer = t.xfer /\ c.offset = 0
    BY <1>10 DEF Point
  <2> HIDE DEF c
  <2>2. Leads(F, y, m, a, c, xfers')
    BY <1>5, <1>7, <1>14, <2>1, StartSent
  <2> QED
    BY <1>7, <2>1, <2>2
<1>16. GoesOn(n, <<F>>)
  BY <1>1, <1>4, <1>7, <1>8, <1>9, <1>11, <1>15, GoesFurther
<1> DEFINE out == <<F>>
<1>17. /\ out = <<>> \/ \E g : /\ out = <<g>> /\ CanIdFrom(g.id) = n
                               /\ CanIdCommand(g.id) # CMD_NACK
       /\ GoesOn(n, out) /\ Emit(n, out)
  BY <1>4, <1>11, <1>16
<1> HIDE DEF out
<1>18. sess' = sess \/ \E j \in Slots : \E u : SetSlot(n, j, u) /\ Carries(n, u, xfers')
  BY <1>4, <1>7
<1> QED
  BY <1>6, <1>13, <1>17, <1>18, CallKeeps

\* At first nothing is on its way, and nothing was sent or received.
LEMMA InitOnTheWay == Init => TransfersContinue
<1> SUFFICES ASSUME Init PROVE TransfersContinue
  OBVIOUS
<1>1. \A n \in Nodes : rx[n] = <<>> /\ \A i \in Slots : sess[n][i] = FreeSession
  BY DEF Init
<1>2. ExchangesContinue
  <2> SUFFICES ASSUME NEW m \in Nodes, NEW x \in ExchangesTo(m)
               PROVE  Continues(rx[m], sess[m], sess[x[1]], x, m, xfers)
    BY DEF ExchangesContinue
  <2> DEFINE p == [xfer |-> 0, offset |-> 0]
             b == [k \in 0 .. 0 |-> p]
  <2>1. p \in Point
    BY DEF Point
  <2> HIDE DEF p
  <2>2. b \in [0 .. 0 -> Point] /\ b[0] = p
    BY <2>1
  <2> HIDE DEF b
  <2>3. rx[m] = <<>> /\ Len(<<>>) = 0 /\ x[1] \in Nodes
    BY <1>1, ExchangeOf
  <2>4. Way(b, <<>>, x, m, xfers)
    BY <2>2, <2>3 DEF Way
  <2>5. AllLead(<<>>, x, m, p, p, xfers)
    BY <2>2, <2>3, <2>4 DEF AllLead
  <2>6. Received(sess[m], x, p, xfers) /\ Emitted(sess[x[1]], x, p)
    BY <1>1, <2>3, FreeCarries DEF Received, Emitted
  <2> QED
    BY <2>1, <2>3, <2>5, <2>6 DEF Continues
<1>3. AllCarry
  BY <1>1, FreeCarries DEF AllCarry
<1>4. NoNacks /\ Broadcasts(xfers) /\ DeliveredIntact
  BY <1>1 DEF Init, NoNacks, Broadcasts, DeliveredIntact
<1> QED
  BY <1>2, <1>3, <1>4 DEF TransfersContinue

\* Every step of a bus that delivers everything, however late.
LEMMA NextContinues ==
  ASSUME Reliable, SessionInvariant, TransfersContinue, [Next]_vars
  PROVE  TransfersContinue'
<1>1. OnTheWay
  BY InvariantParts DEF OnTheWay
<1>2. ASSUME NEW n \in Nodes, NEW peer \in Destinations, NEW mode \in Modes,
             StartSend(n, peer, mode)
      PROVE  TransfersContinue'
  BY <1>1, <1>2, StartContinues
<1>3. ASSUME NEW n \in Nodes, AddFrame(n) PROVE TransfersContinue'
  BY <1>1, <1>3, AddFrameContinues
<1>4. ASSUME NEW n \in Nodes, Process(n) PROVE TransfersContinue'
  BY <1>1, <1>4, TimeoutContinues, UnackedContinues DEF Process
<1>5. ASSUME NEW n \in Nodes, Lose(n) \/ Duplicate(n) \/ Intrude(n) PROVE FALSE
  BY <1>5 DEF Reliable, Lose, Duplicate, Intrude, Mishap
<1>6. ASSUME NEW n \in Nodes, Restart(n) PROVE TransfersContinue'
  BY <1>1, <1>6, RestartContinues
<1>7. ASSUME Tick PROVE TransfersContinue'
  BY <1>1, <1>7, TickContinues
<1>8. ASSUME UNCHANGED vars PROVE TransfersContinue'
  <2>1. UNCHANGED <<rx, sess, xfers, got>> /\ TransfersContinue
    BY <1>8 DEF vars
  <2>2. \A m \in Nodes, j \in Slots : Alike(sess[m][j], sess'[m][j])
    BY <2>1 DEF Alike
  <2>3. SameTransfers(xfers, xfers')
    BY <2>1 DEF SameTransfers
  <2> QED
    BY <1>1, <2>1, <2>2, <2>3, SameHistory, SilentStep
<1> QED
  BY <1>2, <1>3, <1>4, <1>5, <1>6, <1>7, <1>8 DEF Next

(***************************************************************************)
(* On a bus that delivers every frame, however late, and adds none, every  *)
(* message that is handed over is one that its sender started to send to   *)
(* this address: also when transfers time out and their identifiers are    *)
(* used again while their frames are still on the way, when nodes restart, *)
(* and for broadcasts.                                                     *)
(***************************************************************************)
THEOREM LateDeliveriesAreIntact == Reliable => (Spec => []DeliveredIntact)
<1> SUFFICES ASSUME Reliable PROVE Spec => []DeliveredIntact
  OBVIOUS
<1>1. Init => TransfersContinue
  BY InitOnTheWay
<1>2. SessionInvariant /\ TransfersContinue /\ [Next]_vars => TransfersContinue'
  BY NextContinues
<1>3. TransfersContinue => DeliveredIntact
  BY DEF TransfersContinue
<1> QED
  BY <1>1, <1>2, <1>3, SessionTablesInOrder, PTL DEF Spec
=============================================================================
