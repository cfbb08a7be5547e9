-------------------------- MODULE ProtoplexerProofs --------------------------
(***************************************************************************)
(* Theorems about the ProtoPlexer protocol and, in the second half, about  *)
(* its queues, for every size of table and rings, every checksum, every    *)
(* traffic and every mishap.  The receiver: the types and the order of its *)
(* reassemblies, the delivery of every message that arrives whole, and the *)
(* stream of messages of every pair.  The queues: both rings are queues,   *)
(* the message that rx_event was given stays where it is, every message    *)
(* not dropped on its way is handed over, and from send to rx_event the    *)
(* messages of a pair are a lossy stream where nothing is repeated.        *)
(***************************************************************************)
EXTENDS ProtoplexerQueue, DataProofs

-----------------------------------------------------------------------------
(* Operators the model is built from.                                      *)

\* Identifiers are natural numbers, and so are their fields.
LEMMA CanIdIsNat ==
  ASSUME NEW from \in Nat, NEW to \in Nat, NEW first \in BOOLEAN
  PROVE  CanIdCreate(from, to, first) \in Nat
  BY SMT DEF CanIdCreate

LEMMA CanIdRanges ==
  ASSUME NEW id \in Nat
  PROVE  CanIdFrom(id) \in 0 .. ADDRESS_MAX /\ CanIdTo(id) \in 0 .. ADDRESS_MAX
<1>1. id \div 4096 \in Nat
  BY SMT
<1>2. \A x \in Nat : x % 4096 \in 0 .. 4095
  BY SMT
<1>3. QED
  BY <1>1, <1>2, SMT DEF CanIdFrom, CanIdTo, ADDRESS_MAX

LEMMA AddressIsNat == 0 .. ADDRESS_MAX \subseteq Nat
BY DEF ADDRESS_MAX

LEMMA SignatureIsNat ==
  ASSUME NEW id \in Nat
  PROVE  Signature(id) \in Nat
<1>1. CanIdFrom(id) \in Nat /\ CanIdTo(id) \in Nat
  BY CanIdRanges, AddressIsNat
<1>2. QED
  BY <1>1 DEF Signature

\* A part of a sequence of naturals is one.
LEMMA SubSeqOfNat ==
  ASSUME NEW data \in Seq(Nat), NEW a \in Nat \ {0}, NEW b \in Int, b <= Len(data)
  PROVE  SubSeq(data, a, b) \in Seq(Nat)
<1>1. Len(data) \in Nat
  BY LenProperties
<1>2. \A k \in a .. b : data[k] \in Nat
  <2> SUFFICES ASSUME NEW k \in a .. b PROVE data[k] \in Nat
    OBVIOUS
  <2>1. k \in 1 .. Len(data)
    BY <1>1
  <2>2. QED
    BY <2>1, ElementOfSeq
<1>3. QED
  BY <1>2, SubSeqProperties

\* The bytes of a chunk are bytes of the message.
LEMMA BodyType ==
  ASSUME NEW data \in Seq(Nat), NEW size \in HEADER_SIZE .. MESSAGE_MAXLEN, NEW k \in Nat
  PROVE  Body(data, size, k) \in Seq(Nat)
<1> DEFINE begin == k * size - HEADER_SIZE
           end == (k + 1) * size - HEADER_SIZE
           a == (IF begin < 0 THEN 0 ELSE begin) + 1
           b == IF end < Len(data) THEN end ELSE Len(data)
<1>1. Len(data) \in Nat
  BY LenProperties
<1>2. begin \in Int /\ end \in Int
  <2>1. size \in Int /\ k \in Int /\ k + 1 \in Int
    BY DEF HEADER_SIZE, MESSAGE_MAXLEN
  <2>2. k * size \in Int /\ (k + 1) * size \in Int
    BY <2>1
  <2>3. QED
    BY <2>2 DEF HEADER_SIZE
<1>3. Body(data, size, k) = SubSeq(data, a, b)
  BY DEF Body
<1> HIDE DEF begin, end
<1>4. a \in Nat \ {0} /\ b \in Int /\ b <= Len(data)
  BY <1>1, <1>2
<1> HIDE DEF a, b
<1>5. QED
  BY <1>3, <1>4, SubSeqOfNat

\* A message is cut into a sequence of chunks.
LEMMA BuildChunksType ==
  ASSUME NEW p \in Pairs, NEW m \in Contents, NEW num \in Nat
  PROVE  BuildChunks(p, m, ChunkLength, num) \in Seq(Chunk)
<1>1. /\ m \in Message /\ m.id \in Nat /\ m.data \in Seq(Nat)
      /\ Len(m.data) \in Nat /\ Checksum(m.data) \in Nat
  BY TrafficAssumption, LenProperties DEF Message
<1>2. ChunksCount(Len(m.data), ChunkLength) \in Nat
  <2>1. \A x \in Nat : x \div 6 \in Nat /\ x \div 7 \in Nat /\ x \div 8 \in Nat
    BY SMT
  <2>2. ChunkLength \in {6, 7, 8}
    BY SenderAssumption DEF HEADER_SIZE, MESSAGE_MAXLEN
  <2>3. ChunkLength \in Nat /\ HEADER_SIZE + Len(m.data) + ChunkLength - 1 \in Nat
    BY <1>1, <2>2 DEF HEADER_SIZE
  <2> DEFINE total == HEADER_SIZE + Len(m.data) + ChunkLength - 1
  <2>4. ChunksCount(Len(m.data), ChunkLength) = total \div ChunkLength
    BY SenderAssumption DEF ChunksCount
  <2> HIDE DEF total
  <2>5. QED
    BY <2>1, <2>2, <2>3, <2>4 DEF total
<1>3. ASSUME NEW k \in 1 .. ChunksCount(Len(m.data), ChunkLength)
      PROVE  BuildChunk(p, m, ChunkLength, k - 1, num) \in Chunk
  <2>1. k - 1 \in Nat
    BY <1>2
  <2>2. Body(m.data, ChunkLength, k - 1) \in Seq(Nat)
    BY <1>1, <2>1, BodyType, SenderAssumption
  <2>3. p[1] \in Nat /\ p[2] \in Nat
    <3>1. p \in (0 .. ADDRESS_MAX) \X (0 .. ADDRESS_MAX)
      BY SenderAssumption
    <3>2. p[1] \in 0 .. ADDRESS_MAX /\ p[2] \in 0 .. ADDRESS_MAX
      BY <3>1
    <3>3. QED
      BY <3>2, AddressIsNat
  <2> DEFINE first == (k - 1 = 0)
             id == CanIdCreate(p[1], p[2], first)
  <2>4. first \in BOOLEAN /\ id \in Nat
    <3>1. first \in BOOLEAN
      OBVIOUS
    <3> HIDE DEF first
    <3>2. QED
      BY <2>3, <3>1, CanIdIsNat
  <2> DEFINE head == IF first
                     THEN [id |-> m.id, length |-> Len(m.data), crc |-> Checksum(m.data)]
                     ELSE NoHeader
  <2>5. head \in Header
    BY <1>1 DEF Header, NoHeader, ERROR_ID
  <2>6. BuildChunk(p, m, ChunkLength, k - 1, num)
          = [id |-> id, headed |-> first, head |-> head,
             body |-> Body(m.data, ChunkLength, k - 1), num |-> num]
    BY DEF BuildChunk
  <2> HIDE DEF head, first, id
  <2>7. QED
    BY <2>2, <2>4, <2>5, <2>6 DEF Chunk
<1>4. QED
  BY <1>2, <1>3 DEF BuildChunks

-----------------------------------------------------------------------------
(* The parts of the invariant, for any table t and any view v.             *)

\* What holds of a reassembly in use.
HeldOK(b) ==
  /\ b.id # ERROR_ID
  /\ b.sig = b.to + b.from * 4096
  /\ AddressValid(b.from) /\ AddressValid(b.to)
  /\ Len(b.payload) <= b.length
  /\ Fits(b.length)

TableOK(t, v) ==
  /\ t \in [Channels -> Buffer]
  /\ v \in 0 .. MaxChannels
  /\ \A c, d \in Channels : t[c].in_use /\ t[d].in_use /\ t[c].sig = t[d].sig => c = d
  /\ \A c \in Channels : t[c].in_use => HeldOK(t[c]) /\ (Complete(t[c]) <=> v = c)
  /\ \A c \in Channels : ~ t[c].in_use => t[c] = FreeBuffer /\ v # c

HistoryOK ==
  /\ wire \in [Pairs -> Seq(Chunk)]
  /\ sent \in [Pairs -> Seq(Message)]
  /\ got \in [Pairs -> Seq([id : Nat, data : Seq(Nat), num : Nat])]
  /\ mishaps \in 0 .. MaxMishaps

LEMMA InvariantParts == ReassemblyInvariant <=> TableOK(rx, view) /\ HistoryOK
BY DEF ReassemblyInvariant, TypeOK, TableInOrder, TableOK, HistoryOK, HeldOK

LEMMA InvariantPartsNext ==
  TableOK(rx', view') /\ HistoryOK' => ReassemblyInvariant'
BY DEF ReassemblyInvariant, TypeOK, TableInOrder, TableOK, HistoryOK, HeldOK

LEMMA FreeBufferType == FreeBuffer \in Buffer /\ ~ FreeBuffer.in_use
BY DEF FreeBuffer, Buffer, ERROR_ID

LEMMA NoView == 0 \in 0 .. MaxChannels /\ 0 \notin Channels
BY ReceiverAssumption DEF Channels

\* Releasing the view leaves a table without one.
LEMMA ReleasedOK ==
  ASSUME TableOK(rx, view)
  PROVE  TableOK(Released, 0)
<1>1. Released \in [Channels -> Buffer]
  BY FreeBufferType DEF TableOK, Released
<1>2. \A c \in Channels : Released[c] = IF c = view THEN FreeBuffer ELSE rx[c]
  BY DEF Released
<1>3. \A c \in Channels : Released[c].in_use => c # view /\ Released[c] = rx[c]
  BY <1>2, FreeBufferType
<1>4. \A c, d \in Channels :
        Released[c].in_use /\ Released[d].in_use /\ Released[c].sig = Released[d].sig => c = d
  BY <1>3 DEF TableOK
<1>5. \A c \in Channels : Released[c].in_use =>
        HeldOK(Released[c]) /\ (Complete(Released[c]) <=> 0 = c)
  BY <1>3, NoView DEF TableOK
<1>6. \A c \in Channels : ~ Released[c].in_use => Released[c] = FreeBuffer /\ 0 # c
  BY <1>2, NoView DEF TableOK
<1>7. QED
  BY <1>1, <1>4, <1>5, <1>6, NoView DEF TableOK

\* So does giving up a reassembly.
LEMMA GivenUpOK ==
  ASSUME NEW t, TableOK(t, 0), NEW c \in Channels
  PROVE  TableOK([t EXCEPT ![c] = FreeBuffer], 0)
<1> DEFINE u == [t EXCEPT ![c] = FreeBuffer]
<1>1. u \in [Channels -> Buffer] /\ \A d \in Channels : u[d] = IF d = c THEN FreeBuffer ELSE t[d]
  BY FreeBufferType DEF TableOK
<1> HIDE DEF u
<1>2. \A d \in Channels : u[d].in_use => u[d] = t[d] /\ t[d].in_use
  BY <1>1, FreeBufferType
<1>3. \A d, e \in Channels : u[d].in_use /\ u[e].in_use /\ u[d].sig = u[e].sig => d = e
  BY <1>2 DEF TableOK
<1>4. \A d \in Channels : u[d].in_use => HeldOK(u[d]) /\ (Complete(u[d]) <=> 0 = d)
  BY <1>2 DEF TableOK
<1>5. \A d \in Channels : ~ u[d].in_use => u[d] = FreeBuffer /\ 0 # d
  BY <1>1, NoView DEF TableOK
<1>6. TableOK(u, 0)
  BY <1>1, <1>3, <1>4, <1>5, NoView DEF TableOK
<1>7. QED
  BY <1>6 DEF u

\* Storing a reassembly where no other one has its signature; it is the view
\* exactly if it is complete.
LEMMA StoredOK ==
  ASSUME NEW t, TableOK(t, 0), NEW c \in Channels, NEW b \in Buffer, b.in_use, HeldOK(b),
         \A d \in Channels : t[d].in_use /\ t[d].sig = b.sig => d = c,
         NEW v \in {0, c}, Complete(b) <=> v = c
  PROVE  TableOK([t EXCEPT ![c] = b], v)
<1> DEFINE u == [t EXCEPT ![c] = b]
<1>1. u \in [Channels -> Buffer] /\ \A d \in Channels : u[d] = IF d = c THEN b ELSE t[d]
  BY DEF TableOK
<1>2. v \in 0 .. MaxChannels /\ \A d \in Channels : d # c => v # d
  BY NoView DEF Channels
<1> HIDE DEF u
<1>3. \A d, e \in Channels : u[d].in_use /\ u[e].in_use /\ u[d].sig = u[e].sig => d = e
  BY <1>1 DEF TableOK
<1>4. \A d \in Channels : u[d].in_use => HeldOK(u[d]) /\ (Complete(u[d]) <=> v = d)
  BY <1>1, <1>2, NoView DEF TableOK
<1>5. \A d \in Channels : ~ u[d].in_use => u[d] = FreeBuffer /\ v # d
  BY <1>1, <1>2 DEF TableOK
<1>6. TableOK(u, v)
  BY <1>1, <1>2, <1>3, <1>4, <1>5 DEF TableOK
<1>7. QED
  BY <1>6 DEF u

\* The reassembly for a signature is one of the table, and no other one in use
\* has that signature.
LEMMA ChosenOK ==
  ASSUME TableOK(Released, 0), NEW sig, Available(sig) # {}
  PROVE  /\ Chosen(sig) \in Channels
         /\ \A d \in Channels : Released[d].in_use /\ Released[d].sig = sig => d = Chosen(sig)
         /\ Holding(sig) # {} =>
              Released[Chosen(sig)].in_use /\ Released[Chosen(sig)].sig = sig
         /\ Released[Chosen(sig)].in_use => Released[Chosen(sig)].sig = sig
<1>1. Available(sig) \in SUBSET Channels /\ Available(sig) \in SUBSET Nat
  BY DEF Available, Holding, Vacant, Channels
<1>2. Chosen(sig) \in Available(sig)
  BY <1>1, FirstOfMember DEF Chosen
<1>3. CASE Holding(sig) # {}
  <2>1. Chosen(sig) \in Holding(sig)
    BY <1>2, <1>3 DEF Available
  <2>2. QED
    BY <1>1, <1>2, <2>1 DEF Holding, TableOK
<1>4. CASE Holding(sig) = {}
  BY <1>1, <1>2, <1>4 DEF Holding, Available, Vacant
<1>5. QED
  BY <1>3, <1>4

\* A reassembly that takes a chunk stays in order.
LEMMA FilledOK ==
  ASSUME TableOK(Released, 0), NEW ch \in Chunk, Available(Signature(ch.id)) # {},
         ~ Refused(ch)
  PROVE  LET b == Filled(Found(Signature(ch.id)), ch)
         IN  b \in Buffer /\ b.in_use /\ HeldOK(b) /\ b.sig = Signature(ch.id)
<1> DEFINE sig == Signature(ch.id)
           old == Found(sig)
           b == Filled(old, ch)
<1>1. /\ ch.id \in Nat /\ ch.head \in Header /\ ch.body \in Seq(Nat) /\ ch.num \in Nat
      /\ ch.head.id \in Nat /\ ch.head.length \in Nat /\ ch.head.crc \in Nat
  BY DEF Chunk, Header
<1>2. CanIdFrom(ch.id) \in Nat /\ CanIdTo(ch.id) \in Nat /\ sig \in Nat
  BY <1>1, CanIdRanges, AddressIsNat, SignatureIsNat
<1>3. CASE CanIdIsFirst(ch.id)
  <2>1. ~ FirstRefused(ch)
    BY <1>3 DEF Refused
  <2>2. b = [in_use |-> TRUE, sig |-> sig, id |-> ch.head.id,
             from |-> CanIdFrom(ch.id), to |-> CanIdTo(ch.id),
             length |-> ch.head.length, crc |-> ch.head.crc,
             payload |-> ch.body, num |-> ch.num]
    BY <1>3 DEF Filled
  <2>3. sig = CanIdTo(ch.id) + CanIdFrom(ch.id) * 4096
    BY DEF Signature
  <2> HIDE DEF b, sig
  <2>4. b \in Buffer /\ b.in_use /\ b.sig = sig
    BY <1>1, <1>2, <2>2 DEF Buffer
  <2>5. Len(ch.body) <= ch.head.length
    <3>1. Len(ch.body) \in Nat /\ ~ (Len(ch.body) > ch.head.length)
      BY <1>1, <2>1, LenProperties DEF FirstRefused
    <3>2. QED
      BY <1>1, <3>1
  <2>6. HeldOK(b)
    BY <2>1, <2>2, <2>3, <2>5 DEF HeldOK, FirstRefused
  <2>7. QED
    BY <2>4, <2>6 DEF b, sig
<1>4. CASE ~ CanIdIsFirst(ch.id)
  <2>1. ~ DataRefused(old, ch) /\ b = [old EXCEPT !.payload = @ \o ch.body]
    BY <1>4 DEF Refused, Filled
  <2>2. Holding(sig) # {}
    BY <2>1 DEF Found, NewBuffer, FreeBuffer, DataRefused
  <2>3. old = Released[Chosen(sig)] /\ Chosen(sig) \in Channels /\ old.in_use /\ old.sig = sig
    BY <2>2, ChosenOK DEF Found
  <2> HIDE DEF b, old, sig
  <2>4. old \in Buffer /\ HeldOK(old)
    BY <2>3 DEF TableOK
  <2>5. /\ old.payload \in Seq(Nat) /\ old.length \in Nat
        /\ old.payload \o ch.body \in Seq(Nat)
        /\ Len(old.payload \o ch.body) = Len(old.payload) + Len(ch.body)
        /\ Len(old.payload) \in Nat /\ Len(ch.body) \in Nat
    BY <1>1, <2>4, ConcatProperties, LenProperties DEF Buffer
  <2> DEFINE longer == old.payload \o ch.body
  <2>6. b = [old EXCEPT !.payload = longer]
    BY <2>1
  <2>7. longer \in Seq(Nat) /\ Len(longer) <= old.length
    <3>1. ~ (Len(old.payload) + Len(ch.body) > old.length)
      BY <2>1 DEF DataRefused
    <3>2. longer \in Seq(Nat) /\ Len(longer) = Len(old.payload) + Len(ch.body)
      BY <2>5
    <3>3. \A x, y, z \in Nat : ~ (x + y > z) => x + y <= z
      OBVIOUS
    <3>4. Len(old.payload) \in Nat /\ Len(ch.body) \in Nat /\ old.length \in Nat
      BY <2>5
    <3>5. Len(old.payload) + Len(ch.body) <= old.length
      BY <3>1, <3>3, <3>4, Zenon
    <3>6. QED
      BY <3>2, <3>5
  <2> HIDE DEF longer
  <2>8. b \in Buffer /\ b.in_use /\ b.sig = sig
    BY <2>3, <2>4, <2>6, <2>7 DEF Buffer
  <2>9. /\ b.id = old.id /\ b.to = old.to /\ b.from = old.from /\ b.length = old.length
        /\ b.sig = old.sig /\ b.payload = longer
    BY <2>4, <2>6 DEF Buffer
  <2>10. HeldOK(b)
    BY <2>4, <2>7, <2>9 DEF HeldOK
  <2>11. QED
    BY <2>8, <2>10 DEF b, old, sig
<1>5. QED
  BY <1>3, <1>4

-----------------------------------------------------------------------------
(* Every step keeps the invariant.                                         *)

\* A step that leaves the receiver alone.
LEMMA WireStep ==
  ASSUME TableOK(rx, view), UNCHANGED <<rx, view>>
  PROVE  TableOK(rx', view')
OBVIOUS

LEMMA SendStep ==
  ASSUME TableOK(rx, view), HistoryOK, NEW p \in Pairs, Send(p)
  PROVE  TableOK(rx', view') /\ HistoryOK'
<1>1. PICK m \in Contents :
        /\ sent' = [sent EXCEPT ![p] = Append(@, m)]
        /\ wire' = [wire EXCEPT ![p] = @ \o BuildChunks(p, m, ChunkLength, Len(sent[p]) + 1)]
  BY DEF Send
<1> DEFINE chunks == BuildChunks(p, m, ChunkLength, Len(sent[p]) + 1)
<1>2. m \in Message /\ sent[p] \in Seq(Message) /\ wire[p] \in Seq(Chunk)
  BY TrafficAssumption DEF HistoryOK
<1>3. chunks \in Seq(Chunk)
  <2>1. Len(sent[p]) + 1 \in Nat
    BY <1>2, LenProperties
  <2>2. QED
    BY <2>1, BuildChunksType
<1>4. Append(sent[p], m) \in Seq(Message)
  BY <1>2, AppendProperties
<1> HIDE DEF chunks
<1>5. wire[p] \o chunks \in Seq(Chunk)
  BY <1>2, <1>3, ConcatProperties
<1>6. wire' = [wire EXCEPT ![p] = wire[p] \o chunks] /\ sent' = [sent EXCEPT ![p] = Append(sent[p], m)]
  BY <1>1 DEF chunks
<1>7. HistoryOK'
  BY <1>4, <1>5, <1>6 DEF HistoryOK, Send
<1>8. QED
  BY <1>7 DEF Send

LEMMA WireMishapStep ==
  ASSUME TableOK(rx, view), HistoryOK, NEW p \in Pairs,
         Lose(p) \/ Duplicate(p) \/ Intrude(p)
  PROVE  TableOK(rx', view') /\ HistoryOK'
<1>1. UNCHANGED <<rx, view, sent, got>> /\ mishaps' \in 0 .. MaxMishaps
  BY MishapsAssumption DEF Lose, Duplicate, Intrude, Mishap, HistoryOK
<1>2. wire[p] \in Seq(Chunk)
  BY DEF HistoryOK
<1>3. wire' \in [Pairs -> Seq(Chunk)]
  <2>1. CASE Lose(p)
    <3>1. Tail(wire[p]) \in Seq(Chunk)
      BY <1>2, <2>1, HeadTailProperties DEF Lose
    <3>2. QED
      BY <2>1, <3>1 DEF Lose, HistoryOK
  <2>2. CASE Duplicate(p)
    <3>1. <<Head(wire[p])>> \in Seq(Chunk)
      BY <1>2, <2>2, HeadTailProperties DEF Duplicate
    <3>2. <<Head(wire[p])>> \o wire[p] \in Seq(Chunk)
      BY <1>2, <3>1, ConcatProperties
    <3>3. QED
      BY <2>2, <3>2 DEF Duplicate, HistoryOK
  <2>3. CASE Intrude(p)
    <3>1. PICK ch \in Noise : wire' = [wire EXCEPT ![p] = <<ch>> \o @]
      BY <2>3 DEF Intrude
    <3>2. <<ch>> \in Seq(Chunk)
      BY TrafficAssumption
    <3>3. <<ch>> \o wire[p] \in Seq(Chunk)
      BY <1>2, <3>2, ConcatProperties
    <3>4. QED
      BY <3>1, <3>3 DEF HistoryOK
  <2>4. QED
    BY <2>1, <2>2, <2>3
<1>4. HistoryOK'
  BY <1>1, <1>3 DEF HistoryOK
<1>5. QED
  BY <1>1, <1>4, WireStep

\* A message handed over has the right type.
LEMMA HandOverStep ==
  ASSUME HistoryOK, NEW b \in Buffer, HandOver(b)
  PROVE  got' \in [Pairs -> Seq([id : Nat, data : Seq(Nat), num : Nat])]
<1> DEFINE entry == [id |-> b.id, data |-> b.payload, num |-> b.num]
           Entry == [id : Nat, data : Seq(Nat), num : Nat]
           q == <<b.from, b.to>>
<1>1. entry \in Entry
  BY DEF Buffer
<1>2. got \in [Pairs -> Seq(Entry)] /\ got' = [got EXCEPT ![q] = Append(@, entry)]
  BY DEF HistoryOK, HandOver
<1> HIDE DEF entry, Entry, q
<1>3. q \in Pairs => Append(got[q], entry) \in Seq(Entry)
  BY <1>1, <1>2, AppendProperties
<1>4. got' \in [Pairs -> Seq(Entry)]
  BY <1>2, <1>3
<1>5. QED
  BY <1>4 DEF Entry

LEMMA AddChunkStep ==
  ASSUME TableOK(rx, view), HistoryOK, NEW p \in Pairs, AddChunk(p)
  PROVE  TableOK(rx', view') /\ HistoryOK'
<1> DEFINE ch == Head(wire[p])
           sig == Signature(ch.id)
           c == Chosen(sig)
           b == Filled(Found(sig), ch)
<1>1. /\ wire[p] \in Seq(Chunk) /\ wire[p] # <<>>
      /\ wire' = [wire EXCEPT ![p] = Tail(@)] /\ sent' = sent
  BY DEF AddChunk, HistoryOK, Taken
<1>2. ch \in Chunk /\ Tail(wire[p]) \in Seq(Chunk)
  BY <1>1, HeadTailProperties
<1>3. wire' \in [Pairs -> Seq(Chunk)]
  BY <1>1, <1>2 DEF HistoryOK
<1>4. TableOK(Released, 0)
  BY ReleasedOK
<1>5. \A kind : Mishap(kind) => mishaps' \in 0 .. MaxMishaps
  BY MishapsAssumption DEF Mishap, HistoryOK
<1>6. mishaps' = mishaps /\ got' = got => HistoryOK'
  BY <1>1, <1>3 DEF HistoryOK
<1>7. mishaps' \in 0 .. MaxMishaps /\ got' = got => HistoryOK'
  BY <1>1, <1>3 DEF HistoryOK
<1> DEFINE Unfit == AddInvalid(ch) \/ AddUnrelated(ch) \/ AddWithoutChannel(p, ch)
           Fit == /\ Available(sig) # {}
                  /\ AddRefused(p, ch, c) \/ AddStored(ch, c, b) \/ AddCompleted(p, ch, c, b)
<1>8. Unfit \/ Fit
  BY DEF AddChunk
<1>9. CASE Unfit
  <2>1. CASE AddInvalid(ch)
    BY <1>6, <2>1 DEF AddInvalid
  <2>2. CASE AddUnrelated(ch)
    BY <1>4, <1>6, <2>2 DEF AddUnrelated
  <2>3. CASE AddWithoutChannel(p, ch)
    BY <1>4, <1>6, <2>3 DEF AddWithoutChannel
  <2>4. QED
    BY <1>9, <2>1, <2>2, <2>3
<1>10. CASE Fit
  <2>1. /\ c \in Channels
        /\ \A d \in Channels : Released[d].in_use /\ Released[d].sig = sig => d = c
    BY <1>4, <1>10, ChosenOK
  <2>2. ~ Refused(ch) => b \in Buffer /\ b.in_use /\ HeldOK(b) /\ b.sig = sig
    BY <1>2, <1>4, <1>10, FilledOK
  <2> HIDE DEF c, b, ch
  <2>3. CASE AddRefused(p, ch, c)
    <3>1. rx' = [Released EXCEPT ![c] = FreeBuffer] /\ view' = 0 /\ got' = got
      BY <2>3 DEF AddRefused
    <3>2. TableOK(rx', view')
      BY <1>4, <2>1, <3>1, GivenUpOK
    <3>3. HistoryOK'
      BY <1>5, <1>6, <1>7, <2>3, <3>1 DEF AddRefused
    <3>4. QED
      BY <3>2, <3>3
  <2>4. CASE AddStored(ch, c, b)
    <3>1. /\ rx' = [Released EXCEPT ![c] = b] /\ view' = 0 /\ ~ Complete(b)
          /\ got' = got /\ mishaps' = mishaps /\ ~ Refused(ch)
      BY <2>4 DEF AddStored
    <3>2. TableOK([Released EXCEPT ![c] = b], 0)
      <4>1. 0 \in {0, c} /\ (Complete(b) <=> 0 = c)
        BY <2>1, <3>1, NoView
      <4>2. \A d \in Channels : Released[d].in_use /\ Released[d].sig = b.sig => d = c
        BY <2>1, <2>2, <3>1
      <4>3. QED
        BY <1>4, <2>1, <2>2, <3>1, <4>1, <4>2, StoredOK
    <3>3. QED
      BY <1>6, <3>1, <3>2
  <2>5. CASE AddCompleted(p, ch, c, b)
    <3>1. ~ Refused(ch) /\ Complete(b) /\ b \in Buffer
      BY <2>2, <2>5 DEF AddCompleted
    <3>2. got' \in [Pairs -> Seq([id : Nat, data : Seq(Nat), num : Nat])]
      <4>1. HandOver(b) \/ got' = got
        BY <2>5 DEF AddCompleted
      <4>2. QED
        BY <3>1, <4>1, HandOverStep DEF HistoryOK
    <3>3. mishaps' \in 0 .. MaxMishaps
      BY <1>5, <2>5 DEF AddCompleted, HistoryOK
    <3>4. HistoryOK'
      BY <1>1, <1>3, <3>2, <3>3 DEF HistoryOK
    <3>5. \/ rx' = [Released EXCEPT ![c] = FreeBuffer] /\ view' = 0
          \/ rx' = [Released EXCEPT ![c] = b] /\ view' = c
      BY <2>5 DEF AddCompleted
    <3>6. TableOK([Released EXCEPT ![c] = b], c)
      <4>1. c \in {0, c} /\ (Complete(b) <=> c = c)
        BY <3>1
      <4>2. \A d \in Channels : Released[d].in_use /\ Released[d].sig = b.sig => d = c
        BY <2>1, <2>2, <3>1
      <4>3. QED
        BY <1>4, <2>1, <2>2, <3>1, <4>1, <4>2, StoredOK
    <3>7. TableOK([Released EXCEPT ![c] = FreeBuffer], 0)
      BY <1>4, <2>1, GivenUpOK
    <3>8. QED
      BY <3>4, <3>5, <3>6, <3>7
  <2>6. QED
    BY <1>10, <2>3, <2>4, <2>5
<1>11. QED
  BY <1>8, <1>9, <1>10

LEMMA EmptyTableOK == TableOK([c \in Channels |-> FreeBuffer], 0)
BY FreeBufferType, NoView DEF TableOK

LEMMA RestartStep ==
  ASSUME TableOK(rx, view), HistoryOK, Restart
  PROVE  TableOK(rx', view') /\ HistoryOK'
<1>1. TableOK(rx', view')
  BY EmptyTableOK DEF Restart
<1>2. HistoryOK'
  BY MishapsAssumption DEF Restart, Mishap, HistoryOK
<1>3. QED
  BY <1>1, <1>2

LEMMA InitInvariant == Init => ReassemblyInvariant
<1> SUFFICES ASSUME Init PROVE TableOK(rx, view) /\ HistoryOK
  BY InvariantParts
<1>1. TableOK(rx, view)
  BY EmptyTableOK DEF Init
<1>2. HistoryOK
  BY MishapsAssumption, EmptySeq DEF Init, HistoryOK
<1>3. QED
  BY <1>1, <1>2

LEMMA NextInvariant == ReassemblyInvariant /\ [Next]_vars => ReassemblyInvariant'
<1> SUFFICES ASSUME ReassemblyInvariant, [Next]_vars
             PROVE  TableOK(rx', view') /\ HistoryOK'
  BY InvariantPartsNext
<1>1. TableOK(rx, view) /\ HistoryOK
  BY InvariantParts
<1>2. ASSUME NEW p \in Pairs, Send(p) PROVE TableOK(rx', view') /\ HistoryOK'
  BY <1>1, <1>2, SendStep
<1>3. ASSUME NEW p \in Pairs, Lose(p) \/ Duplicate(p) \/ Intrude(p)
      PROVE  TableOK(rx', view') /\ HistoryOK'
  BY <1>1, <1>3, WireMishapStep
<1>4. ASSUME NEW p \in Pairs, AddChunk(p) PROVE TableOK(rx', view') /\ HistoryOK'
  BY <1>1, <1>4, AddChunkStep
<1>5. CASE Restart
  BY <1>1, <1>5, RestartStep
<1>6. CASE UNCHANGED vars
  BY <1>1, <1>6 DEF vars, HistoryOK
<1>7. QED
  BY <1>2, <1>3, <1>4, <1>5, <1>6 DEF Next

-----------------------------------------------------------------------------
(* The chunks of one message.                                              *)

LEMMA ContentsType ==
  ASSUME NEW m \in Contents
  PROVE  /\ m \in Message /\ m.id \in Nat /\ m.data \in Seq(Nat)
         /\ Len(m.data) \in Nat /\ Checksum(m.data) \in Nat
BY TrafficAssumption, LenProperties DEF Message

LEMMA PairType ==
  ASSUME NEW p \in Pairs
  PROVE  /\ p[1] \in 0 .. ADDRESS_MAX /\ p[2] \in 0 .. ADDRESS_MAX
         /\ p[1] \in Nat /\ p[2] \in Nat /\ p = <<p[1], p[2]>>
<1>1. p \in (0 .. ADDRESS_MAX) \X (0 .. ADDRESS_MAX)
  BY SenderAssumption
<1>2. QED
  BY <1>1, AddressIsNat

\* The last chunk is the first one that reaches the end of the data.
LEMMA CountBounds ==
  ASSUME NEW m \in Contents
  PROVE  /\ Count(m) \in Nat \ {0}
         /\ \A j \in 1 .. Count(m) - 1 : j * ChunkLength - HEADER_SIZE < Len(m.data)
         /\ Count(m) * ChunkLength - HEADER_SIZE >= Len(m.data)
<1> DEFINE n == Len(m.data)
           c == Count(m)
<1>1. n \in Nat
  BY ContentsType
<1>2. ChunkLength \in {6, 7, 8}
  BY SenderAssumption DEF HEADER_SIZE, MESSAGE_MAXLEN
<1>3. c = (n + (ChunkLength + 5)) \div ChunkLength
  <2>1. c = (HEADER_SIZE + n + ChunkLength - 1) \div ChunkLength
    BY SenderAssumption DEF Count, ChunksCount
  <2>2. HEADER_SIZE + n + ChunkLength - 1 = n + (ChunkLength + 5)
    <3> HIDE DEF n
    <3>1. ChunkLength \in Nat
      BY <1>2
    <3>2. QED
      BY <1>1, <3>1 DEF HEADER_SIZE
  <2>3. QED
    BY <2>1, <2>2
<1> HIDE DEF n, c
<1>4. /\ c \in Nat /\ c * ChunkLength <= n + (ChunkLength + 5)
      /\ c * ChunkLength > n + 5
  <2>1. CASE ChunkLength = 6
    BY <1>1, <1>3, <2>1, SMT
  <2>2. CASE ChunkLength = 7
    BY <1>1, <1>3, <2>2, SMT
  <2>3. CASE ChunkLength = 8
    BY <1>1, <1>3, <2>3, SMT
  <2>4. QED
    BY <1>2, <2>1, <2>2, <2>3
<1>5. /\ c \in Nat \ {0}
      /\ \A j \in 1 .. c - 1 : j * ChunkLength - 6 < n
      /\ c * ChunkLength - 6 >= n
  <2>1. CASE ChunkLength = 6
    BY <1>1, <1>4, <2>1
  <2>2. CASE ChunkLength = 7
    BY <1>1, <1>4, <2>2
  <2>3. CASE ChunkLength = 8
    BY <1>1, <1>4, <2>3
  <2>4. QED
    BY <1>2, <2>1, <2>2, <2>3
<1>6. QED
  BY <1>5 DEF n, c, HEADER_SIZE

LEMMA DataEnds ==
  ASSUME NEW m \in Contents, NEW j \in 1 .. Count(m)
  PROVE  /\ DataEnd(m, j) \in 0 .. Len(m.data)
         /\ DataEnd(m, j) = Len(m.data) <=> j = Count(m)
<1>1. Len(m.data) \in Nat /\ Count(m) \in Nat /\ j \in Nat
  BY ContentsType, CountBounds
<1>2. ChunkLength \in {6, 7, 8}
  BY SenderAssumption DEF HEADER_SIZE, MESSAGE_MAXLEN
<1> DEFINE end == j * ChunkLength - HEADER_SIZE
<1>3. end \in Nat
  BY <1>1, <1>2 DEF HEADER_SIZE
<1>4. DataEnd(m, j) = IF end < Len(m.data) THEN end ELSE Len(m.data)
  BY DEF DataEnd
<1>5. j # Count(m) => end < Len(m.data)
  <2>1. j # Count(m) => j \in 1 .. Count(m) - 1
    BY <1>1
  <2>2. QED
    BY <2>1, CountBounds
<1>6. j = Count(m) => end >= Len(m.data)
  BY CountBounds
<1> HIDE DEF end
<1>7. QED
  BY <1>1, <1>3, <1>4, <1>5, <1>6

\* Each chunk brings the data that follows what the chunks before it brought.
LEMMA BodyJoins ==
  ASSUME NEW m \in Contents
  PROVE  /\ Body(m.data, ChunkLength, 0) = SubSeq(m.data, 1, DataEnd(m, 1))
         /\ \A j \in 1 .. Count(m) - 1 :
              SubSeq(m.data, 1, DataEnd(m, j)) \o Body(m.data, ChunkLength, j)
                = SubSeq(m.data, 1, DataEnd(m, j + 1))
<1>1. Len(m.data) \in Nat /\ Count(m) \in Nat \ {0} /\ m.data \in Seq(Nat)
  BY ContentsType, CountBounds
<1>2. ChunkLength \in {6, 7, 8}
  BY SenderAssumption DEF HEADER_SIZE, MESSAGE_MAXLEN
<1>3. Body(m.data, ChunkLength, 0) = SubSeq(m.data, 1, DataEnd(m, 1))
  <2>1. /\ 0 * ChunkLength - HEADER_SIZE < 0 /\ 0 + 1 = 1
    BY <1>2 DEF HEADER_SIZE
  <2>2. Body(m.data, ChunkLength, 0) = SubSeq(m.data, 0 + 1, DataEnd(m, 0 + 1))
    BY <2>1, Zenon DEF Body, DataEnd
  <2>3. QED
    BY <2>1, <2>2
<1>4. ASSUME NEW j \in 1 .. Count(m) - 1
      PROVE  SubSeq(m.data, 1, DataEnd(m, j)) \o Body(m.data, ChunkLength, j)
               = SubSeq(m.data, 1, DataEnd(m, j + 1))
  <2> DEFINE x == DataEnd(m, j)
             y == DataEnd(m, j + 1)
             begin == j * ChunkLength - HEADER_SIZE
  <2>1. x \in 0 .. Len(m.data) /\ y \in 0 .. Len(m.data) /\ j \in Nat
    BY <1>1, DataEnds
  <2>2. begin \in Nat /\ begin < Len(m.data)
    <3>1. begin \in Nat
      BY <1>2, <2>1 DEF HEADER_SIZE
    <3>2. QED
      BY <3>1, CountBounds
  <2>3. x = begin
    BY <2>2 DEF DataEnd
  <2>4. Body(m.data, ChunkLength, j) = SubSeq(m.data, x + 1, y)
    <3>1. ~ (begin < 0)
      BY <2>2
    <3>2. QED
      BY <2>3, <3>1 DEF Body, DataEnd
  <2>5. x <= y
    <3>1. (j + 1) * ChunkLength - HEADER_SIZE = begin + ChunkLength
      BY <1>2, <2>1 DEF HEADER_SIZE
    <3>2. y = IF begin + ChunkLength < Len(m.data) THEN begin + ChunkLength ELSE Len(m.data)
      BY <3>1 DEF DataEnd
    <3> HIDE DEF begin, x, y
    <3>3. QED
      BY <1>1, <1>2, <2>2, <2>3, <3>2
  <2> HIDE DEF x, y
  <2>6. 1 \in 1 .. Len(m.data) + 1 /\ x \in 1 - 1 .. Len(m.data) /\ y \in x .. Len(m.data)
    BY <1>1, <2>1, <2>5
  <2>7. SubSeq(m.data, 1, x) \o SubSeq(m.data, x + 1, y) = SubSeq(m.data, 1, y)
    BY <1>1, <2>6, ConcatAdjacentSubSeq
  <2>8. QED
    BY <2>4, <2>7 DEF x, y
<1>5. QED
  BY <1>3, <1>4

\* A part of the data from its beginning.
LEMMA DataPart ==
  ASSUME NEW m \in Contents, NEW x \in 0 .. Len(m.data)
  PROVE  /\ SubSeq(m.data, 1, x) \in Seq(Nat) /\ Len(SubSeq(m.data, 1, x)) = x
         /\ x = Len(m.data) => SubSeq(m.data, 1, x) = m.data
<1>1. m.data \in Seq(Nat) /\ Len(m.data) \in Nat /\ x \in Nat
  BY ContentsType
<1>2. \A i \in 1 .. x : m.data[i] \in Nat
  <2> SUFFICES ASSUME NEW i \in 1 .. x PROVE m.data[i] \in Nat
    OBVIOUS
  <2>1. i \in 1 .. Len(m.data)
    BY <1>1
  <2>2. QED
    BY <1>1, <2>1, ElementOfSeq
<1>3. SubSeq(m.data, 1, x) \in Seq(Nat) /\ Len(SubSeq(m.data, 1, x)) = x
  <2>1. /\ SubSeq(m.data, 1, x) \in Seq(Nat)
        /\ Len(SubSeq(m.data, 1, x)) = IF 1 <= x THEN (x - 1) + 1 ELSE 0
    BY <1>1, <1>2, SubSeqProperties
  <2>2. QED
    BY <1>1, <2>1
<1>4. x = Len(m.data) => SubSeq(m.data, 1, x) = m.data
  BY <1>1, SubSeqFull
<1>5. QED
  BY <1>3, <1>4

\* What a chunk carries.
LEMMA ChunkContent ==
  ASSUME NEW p \in Pairs, NEW m \in Contents, NEW j \in 0 .. Count(m) - 1, NEW k,
         NEW ch, ch = BuildChunk(p, m, ChunkLength, j, k)
  PROVE  ch.num = k /\ ch.body = Body(m.data, ChunkLength, j)
BY DEF BuildChunk

\* A chunk knows its pair, and whether it is a first one.
LEMMA ChunkIdentity ==
  ASSUME NEW p \in Pairs, NEW m \in Contents, NEW j \in 0 .. Count(m) - 1, NEW k,
         NEW ch, ch = BuildChunk(p, m, ChunkLength, j, k)
  PROVE  /\ CanIdFrom(ch.id) = p[1] /\ CanIdTo(ch.id) = p[2] /\ PairOf(ch) = p
         /\ Signature(ch.id) = p[2] + p[1] * 4096
         /\ CanIdIsFirst(ch.id) <=> j = 0
<1>1. p[1] \in 0 .. 4095 /\ p[2] \in 0 .. 4095 /\ p = <<p[1], p[2]>>
  BY PairType, SMTT(30) DEF ADDRESS_MAX
<1>2. ch.id = CanIdCreate(p[1], p[2], j = 0)
  BY DEF BuildChunk
<1>3. CanIdFrom(ch.id) = p[1] /\ CanIdTo(ch.id) = p[2] /\ (CanIdIsFirst(ch.id) <=> j = 0)
  <2> DEFINE a == p[1]
             b == p[2]
  <2>1. a \in 0 .. 4095 /\ b \in 0 .. 4095
    BY <1>1, SMTT(30)
  <2>2. a % 4096 = a /\ b % 4096 = b
    <3> HIDE DEF a, b
    <3>1. a \in Int /\ b \in Int /\ 0 <= a /\ a < 4096 /\ 0 <= b /\ b < 4096
      BY <2>1
    <3>2. QED
      BY <3>1, SMT
  <2>3. CASE j = 0
    <3>1. ch.id = 16777216 + a * 4096 + b
      BY <1>2, <2>2, <2>3 DEF CanIdCreate
    <3> HIDE DEF a, b
    <3>2. ch.id \div 4096 = 4096 + a /\ ch.id % 4096 = b /\ ch.id \div 16777216 = 1
      BY <2>1, <3>1, SMT
    <3>3. (4096 + a) % 4096 = a /\ 1 % 2 = 1
      BY <2>1, SMT
    <3>4. QED
      BY <2>3, <3>2, <3>3 DEF CanIdFrom, CanIdTo, CanIdIsFirst, a, b
  <2>4. CASE j # 0
    <3>1. ch.id = a * 4096 + b
      <4>1. ch.id = 0 + a * 4096 + b
        BY <1>2, <2>2, <2>4 DEF CanIdCreate
      <4> HIDE DEF a, b
      <4>2. QED
        BY <2>1, <4>1
    <3> HIDE DEF a, b
    <3>2. ch.id \div 4096 = a /\ ch.id % 4096 = b /\ ch.id \div 16777216 = 0
      BY <2>1, <3>1, SMT
    <3>3. a % 4096 = a /\ 0 % 2 = 0
      BY <2>1, SMT
    <3>4. QED
      BY <2>4, <3>2, <3>3 DEF CanIdFrom, CanIdTo, CanIdIsFirst, a, b
  <2>5. QED
    BY <2>3, <2>4
<1>4. PairOf(ch) = p /\ Signature(ch.id) = p[2] + p[1] * 4096
  BY <1>1, <1>3 DEF PairOf, Signature
<1>5. QED
  BY <1>3, <1>4

\* A chunk fits into a frame.
LEMMA ChunkFits ==
  ASSUME NEW p \in Pairs, NEW m \in Contents, NEW j \in 0 .. Count(m) - 1, NEW k,
         NEW ch, ch = BuildChunk(p, m, ChunkLength, j, k)
  PROVE  ChunkLen(ch) \in Nat /\ ChunkLen(ch) <= MESSAGE_MAXLEN
<1>1. Len(m.data) \in Nat /\ Count(m) \in Nat \ {0} /\ j \in Nat
  BY ContentsType, CountBounds
<1>2. ChunkLength \in {6, 7, 8}
  BY SenderAssumption DEF HEADER_SIZE, MESSAGE_MAXLEN
<1>3. CASE j = 0
  <2>1. 1 \in 1 .. Count(m)
    BY <1>1
  <2>2. ch.body = SubSeq(m.data, 1, DataEnd(m, 1)) /\ DataEnd(m, 1) \in 0 .. Len(m.data)
    BY ChunkContent, <1>3, <2>1, BodyJoins, DataEnds
  <2>3. Len(ch.body) = DataEnd(m, 1)
    BY <2>2, DataPart
  <2>4. DataEnd(m, 1) <= ChunkLength - 6
    BY <1>1, <1>2 DEF DataEnd, HEADER_SIZE
  <2>5. QED
    <3>1. ch.headed = TRUE
      BY <1>3 DEF BuildChunk
    <3>2. ChunkLen(ch) = DataEnd(m, 1) + 6
      BY <2>3, <3>1 DEF ChunkLen, HEADER_SIZE
    <3>3. DataEnd(m, 1) \in Nat
      BY <1>1, <2>2
    <3>4. QED
      BY <1>2, <2>4, <3>2, <3>3 DEF MESSAGE_MAXLEN
<1>4. CASE j # 0
  <2>1. j \in 1 .. Count(m) - 1 /\ j \in 1 .. Count(m) /\ j + 1 \in 1 .. Count(m)
    BY <1>1, <1>4
  <2>2. /\ DataEnd(m, j) \in 0 .. Len(m.data) /\ DataEnd(m, j + 1) \in 0 .. Len(m.data)
        /\ SubSeq(m.data, 1, DataEnd(m, j)) \o ch.body = SubSeq(m.data, 1, DataEnd(m, j + 1))
    <3>1. DataEnd(m, j) \in 0 .. Len(m.data) /\ DataEnd(m, j + 1) \in 0 .. Len(m.data)
      BY <2>1, DataEnds
    <3>2. SubSeq(m.data, 1, DataEnd(m, j)) \o Body(m.data, ChunkLength, j)
            = SubSeq(m.data, 1, DataEnd(m, j + 1))
      BY <2>1, BodyJoins
    <3>3. ch.body = Body(m.data, ChunkLength, j)
      BY ChunkContent
    <3>4. QED
      BY <3>1, <3>2, <3>3
  <2>3. ch.body \in Seq(Nat)
    <3>1. m.data \in Seq(Nat) /\ ch.body = Body(m.data, ChunkLength, j)
      BY ChunkContent, ContentsType
    <3>2. QED
      BY <1>1, <3>1, BodyType, SenderAssumption
  <2>4. DataEnd(m, j) + Len(ch.body) = DataEnd(m, j + 1)
    <3> DEFINE s == SubSeq(m.data, 1, DataEnd(m, j))
               t == SubSeq(m.data, 1, DataEnd(m, j + 1))
    <3>1. s \in Seq(Nat) /\ Len(s) = DataEnd(m, j) /\ Len(t) = DataEnd(m, j + 1)
      BY <2>2, DataPart
    <3>2. s \o ch.body = t
      BY <2>2
    <3> HIDE DEF s, t
    <3>3. Len(s \o ch.body) = Len(s) + Len(ch.body)
      BY <2>3, <3>1, ConcatProperties
    <3>4. QED
      BY <3>1, <3>2, <3>3
  <2>5. DataEnd(m, j + 1) <= DataEnd(m, j) + ChunkLength
    BY <1>1, <1>2 DEF DataEnd, HEADER_SIZE
  <2>6. Len(ch.body) \in Nat
    BY <2>3, LenProperties
  <2>7. QED
    <3>1. ChunkLen(ch) = Len(ch.body) + 0
      <4>1. ch.headed = FALSE
        BY <1>4 DEF BuildChunk
      <4>2. QED
        BY <4>1 DEF ChunkLen
    <3> DEFINE x == DataEnd(m, j)
               y == DataEnd(m, j + 1)
    <3>2. x \in Nat /\ x + Len(ch.body) = y /\ y <= x + ChunkLength
      BY <1>1, <2>2, <2>4, <2>5
    <3> HIDE DEF x, y
    <3>3. QED
      BY <1>2, <2>6, <3>1, <3>2 DEF MESSAGE_MAXLEN
<1>5. QED
  BY <1>3, <1>4

LEMMA BuiltBelongs ==
  ASSUME NEW p \in Pairs, NEW m \in Contents, NEW j \in 0 .. Count(m) - 1, NEW k
  PROVE  Belongs(BuildChunk(p, m, ChunkLength, j, k), p, k)
<1>1. PICK ch : ch = BuildChunk(p, m, ChunkLength, j, k)
  OBVIOUS
<1>2. PairOf(ch) = p /\ ch.num = k
  BY <1>1, ChunkIdentity, ChunkContent
<1>3. QED
  BY <1>1, <1>2 DEF Belongs

\* While chunks are missing, one is on its way.
LEMMA FollowsHasChunk ==
  ASSUME NEW w \in Seq(Chunk), NEW p, NEW m, NEW k, NEW a \in Nat, NEW j \in Nat, NEW e \in Nat,
         j < e, Follows(w, p, m, k, a, j, e)
  PROVE  a + 1 \in DOMAIN w /\ Belongs(w[a + 1], p, k)
<1> DEFINE n == e - j
<1>1. n \in Nat \ {0} /\ Len(w) \in Nat /\ DOMAIN w = 1 .. Len(w)
  BY LenProperties
<1>2. /\ a + n <= Len(w)
      /\ \A q \in DOMAIN w : Belongs(w[q], p, k) <=> q \in a + 1 .. a + n
  BY Zenon DEF Follows
<1> HIDE DEF n
<1>3. a + 1 \in a + 1 .. a + n /\ a + 1 \in DOMAIN w
  BY <1>1, <1>2
<1>4. QED
  BY <1>2, <1>3

\* Chunks of other messages join at the end or get in front, or leave.
LEMMA FollowsMore ==
  ASSUME NEW w \in Seq(Chunk), NEW p, NEW m, NEW k, NEW a \in Nat, NEW j \in Nat, NEW e \in Nat,
         j <= e, Follows(w, p, m, k, a, j, e),
         NEW v \in Seq(Chunk), \A q \in DOMAIN v : ~ Belongs(v[q], p, k)
  PROVE  Follows(w \o v, p, m, k, a, j, e)
<1> DEFINE n == e - j
           wv == w \o v
<1>1. n \in Nat /\ Len(w) \in Nat /\ Len(v) \in Nat
      /\ DOMAIN w = 1 .. Len(w) /\ DOMAIN v = 1 .. Len(v)
  BY LenProperties
<1>2. /\ a + n <= Len(w)
      /\ \A q \in DOMAIN w : Belongs(w[q], p, k) <=> q \in a + 1 .. a + n
      /\ \A i \in 1 .. n : w[a + i] = BuildChunk(p, m, ChunkLength, j + i - 1, k)
  BY Zenon DEF Follows
<1>3. /\ wv \in Seq(Chunk) /\ Len(wv) = Len(w) + Len(v) /\ DOMAIN wv = 1 .. Len(w) + Len(v)
      /\ \A i \in 1 .. Len(w) + Len(v) : wv[i] = IF i <= Len(w) THEN w[i] ELSE v[i - Len(w)]
  BY ConcatProperties, LenProperties
<1> HIDE DEF n, wv
<1>4. ASSUME NEW q \in DOMAIN wv PROVE Belongs(wv[q], p, k) <=> q \in a + 1 .. a + n
  <2>1. CASE q <= Len(w)
    <3>1. q \in DOMAIN w /\ wv[q] = w[q]
      BY <1>1, <1>3, <2>1
    <3>2. QED
      BY <1>2, <3>1
  <2>2. CASE q > Len(w)
    <3>1. q - Len(w) \in DOMAIN v /\ wv[q] = v[q - Len(w)] /\ q \notin a + 1 .. a + n
      BY <1>1, <1>2, <1>3, <2>2
    <3>2. QED
      BY <3>1
  <2>3. QED
    BY <1>1, <1>3, <2>1, <2>2
<1>5. ASSUME NEW i \in 1 .. n PROVE wv[a + i] = w[a + i]
  BY <1>1, <1>2, <1>3
<1>6. a + n <= Len(wv)
  BY <1>1, <1>2, <1>3
<1>7. \A i \in 1 .. n : wv[a + i] = BuildChunk(p, m, ChunkLength, j + i - 1, k)
  BY <1>2, <1>5
<1>8. QED
  BY <1>4, <1>6, <1>7, Zenon DEF Follows, n, wv

LEMMA FollowsOneMore ==
  ASSUME NEW w \in Seq(Chunk), NEW p, NEW m, NEW k, NEW a \in Nat, NEW j \in Nat, NEW e \in Nat,
         j <= e, Follows(w, p, m, k, a, j, e), NEW ch \in Chunk, ~ Belongs(ch, p, k)
  PROVE  Follows(<<ch>> \o w, p, m, k, a + 1, j, e)
<1> DEFINE n == e - j
           u == <<ch>> \o w
           b == a + 1
<1>1. n \in Nat /\ Len(w) \in Nat /\ DOMAIN w = 1 .. Len(w)
  BY LenProperties
<1>2. /\ a + n <= Len(w)
      /\ \A q \in DOMAIN w : Belongs(w[q], p, k) <=> q \in a + 1 .. a + n
      /\ \A i \in 1 .. n : w[a + i] = BuildChunk(p, m, ChunkLength, j + i - 1, k)
  BY Zenon DEF Follows
<1>3. Len(u) = 1 + Len(w) /\ DOMAIN u = 1 .. 1 + Len(w) /\ u[1] = ch
      /\ \A i \in 2 .. 1 + Len(w) : u[i] = w[i - 1]
  BY <1>1
<1>4. b \in Nat /\ b = a + 1
  OBVIOUS
<1> HIDE DEF n, u, b
<1>5. ASSUME NEW q \in DOMAIN u PROVE Belongs(u[q], p, k) <=> q \in b + 1 .. b + n
  <2>1. CASE q = 1
    <3>1. q \notin b + 1 .. b + n /\ u[q] = ch
      BY <1>1, <1>3, <1>4, <2>1
    <3>2. QED
      BY <3>1
  <2>2. CASE q # 1
    <3>1. q - 1 \in DOMAIN w /\ u[q] = w[q - 1] /\ q \in Nat
      BY <1>1, <1>3, <2>2
    <3>2. Belongs(u[q], p, k) <=> q - 1 \in a + 1 .. a + n
      BY <1>2, <3>1
    <3>3. q - 1 \in a + 1 .. a + n <=> q \in b + 1 .. b + n
      BY <1>1, <1>4, <3>1
    <3>4. QED
      BY <3>2, <3>3
  <2>3. QED
    BY <2>1, <2>2
<1>6. ASSUME NEW i \in 1 .. n PROVE u[b + i] = w[a + i]
  <2> DEFINE x == b + i
  <2>1. x \in 2 .. 1 + Len(w) /\ x - 1 = a + i
    BY <1>1, <1>2, <1>4
  <2> HIDE DEF x
  <2>2. u[x] = w[a + i]
    BY <1>3, <2>1
  <2>3. QED
    BY <2>2 DEF x
<1>7. b + n <= Len(u)
  BY <1>1, <1>2, <1>3, <1>4
<1>8. \A i \in 1 .. n : u[b + i] = BuildChunk(p, m, ChunkLength, j + i - 1, k)
  BY <1>2, <1>6
<1>9. Follows(u, p, m, k, b, j, e)
  BY <1>5, <1>7, <1>8, Zenon DEF Follows, n
<1>10. QED
  BY <1>9 DEF b, u

LEMMA FollowsOthersLess ==
  ASSUME NEW w \in Seq(Chunk), w # <<>>, NEW p, NEW m, NEW k, NEW a \in Nat,
         NEW j \in Nat, NEW e \in Nat, j < e,
         Follows(w, p, m, k, a, j, e), ~ Belongs(Head(w), p, k)
  PROVE  a - 1 \in Nat /\ Follows(Tail(w), p, m, k, a - 1, j, e)
<1> DEFINE n == e - j
           u == Tail(w)
           b == a - 1
<1>1. n \in Nat \ {0} /\ Len(w) \in Nat /\ DOMAIN w = 1 .. Len(w)
  BY LenProperties
<1>2. /\ a + n <= Len(w)
      /\ \A q \in DOMAIN w : Belongs(w[q], p, k) <=> q \in a + 1 .. a + n
      /\ \A i \in 1 .. n : w[a + i] = BuildChunk(p, m, ChunkLength, j + i - 1, k)
  BY Zenon DEF Follows
<1> HIDE DEF n
<1>3. a # 0
  <2>1. SUFFICES ASSUME a = 0 PROVE FALSE
    OBVIOUS
  <2>2. 1 \in DOMAIN w /\ 1 \in a + 1 .. a + n
    BY <1>1, <1>2, <2>1
  <2>3. QED
    BY <1>2, <2>2
<1>4. Len(u) = Len(w) - 1 /\ DOMAIN u = 1 .. Len(w) - 1
      /\ \A i \in 1 .. Len(w) - 1 : u[i] = w[i + 1]
  BY <1>1, <1>2
<1>5. b \in Nat /\ b + 1 = a
  BY <1>3
<1> HIDE DEF u, b
<1>6. ASSUME NEW q \in DOMAIN u PROVE Belongs(u[q], p, k) <=> q \in b + 1 .. b + n
  <2>1. q + 1 \in DOMAIN w /\ u[q] = w[q + 1] /\ q \in Nat
    BY <1>1, <1>4
  <2>2. Belongs(u[q], p, k) <=> q + 1 \in a + 1 .. a + n
    BY <1>2, <2>1
  <2>3. q + 1 \in a + 1 .. a + n <=> q \in b + 1 .. b + n
    BY <1>1, <1>5, <2>1
  <2>4. QED
    BY <2>2, <2>3
<1>7. ASSUME NEW i \in 1 .. n PROVE u[b + i] = w[a + i]
  <2>1. b + i \in 1 .. Len(w) - 1 /\ b + i + 1 = a + i
    BY <1>1, <1>2, <1>5
  <2>2. QED
    BY <1>4, <2>1
<1>8. b + n <= Len(u)
  BY <1>1, <1>2, <1>4, <1>5
<1>9. \A i \in 1 .. n : u[b + i] = BuildChunk(p, m, ChunkLength, j + i - 1, k)
  BY <1>2, <1>7
<1>10. Follows(u, p, m, k, b, j, e)
  BY <1>6, <1>8, <1>9, Zenon DEF Follows, n
<1>11. QED
  BY <1>5, <1>10 DEF b, u

\* The next chunk of the message arrives.
LEMMA FollowsNext ==
  ASSUME NEW w \in Seq(Chunk), NEW p, NEW m, NEW k, NEW j \in Nat, NEW e \in Nat, j < e,
         Follows(w, p, m, k, 0, j, e)
  PROVE  /\ w # <<>>
         /\ Head(w) = BuildChunk(p, m, ChunkLength, j, k)
         /\ Follows(Tail(w), p, m, k, 0, j + 1, e)
<1> DEFINE n == e - j
           r == e - (j + 1)
           u == Tail(w)
<1>1. /\ n \in Nat \ {0} /\ r \in Nat /\ r + 1 = n /\ Len(w) \in Nat /\ DOMAIN w = 1 .. Len(w)
  BY LenProperties
<1>2. /\ 0 + n <= Len(w)
      /\ \A q \in DOMAIN w : Belongs(w[q], p, k) <=> q \in 0 + 1 .. 0 + n
      /\ \A i \in 1 .. n : w[0 + i] = BuildChunk(p, m, ChunkLength, j + i - 1, k)
  BY Zenon DEF Follows
<1> HIDE DEF n, r
<1>3. w # <<>> /\ Len(u) = Len(w) - 1 /\ DOMAIN u = 1 .. Len(w) - 1
      /\ \A i \in 1 .. Len(w) - 1 : u[i] = w[i + 1]
  BY <1>1, <1>2
<1>4. Head(w) = BuildChunk(p, m, ChunkLength, j, k)
  <2>1. 1 \in 1 .. n /\ 0 + 1 = 1 /\ j + 1 - 1 = j
    BY <1>1
  <2>2. w[1] = BuildChunk(p, m, ChunkLength, j, k)
    BY <1>2, <2>1
  <2>3. QED
    BY <1>3, <2>2
<1> HIDE DEF u
<1>5. ASSUME NEW q \in DOMAIN u PROVE Belongs(u[q], p, k) <=> q \in 0 + 1 .. 0 + r
  <2>1. q + 1 \in DOMAIN w /\ u[q] = w[q + 1] /\ q \in Nat /\ q >= 1
    BY <1>1, <1>3
  <2>2. Belongs(u[q], p, k) <=> q + 1 \in 0 + 1 .. 0 + n
    BY <1>2, <2>1
  <2>3. q + 1 \in 0 + 1 .. 0 + n <=> q \in 0 + 1 .. 0 + r
    BY <1>1, <2>1
  <2>4. QED
    BY <2>2, <2>3
<1>6. ASSUME NEW i \in 1 .. r
      PROVE  u[0 + i] = BuildChunk(p, m, ChunkLength, (j + 1) + i - 1, k)
  <2>1. /\ i \in 1 .. Len(w) - 1 /\ i + 1 \in 1 .. n /\ 0 + i = i /\ 0 + (i + 1) = i + 1
        /\ j + (i + 1) - 1 = (j + 1) + i - 1
    BY <1>1, <1>2
  <2>2. u[i] = w[i + 1] /\ w[i + 1] = BuildChunk(p, m, ChunkLength, j + (i + 1) - 1, k)
    BY <1>2, <1>3, <2>1
  <2>3. QED
    BY <2>1, <2>2
<1>7. 0 + r <= Len(u)
  BY <1>1, <1>2, <1>3
<1>8. Follows(u, p, m, k, 0, j + 1, e)
  BY <1>5, <1>6, <1>7, Zenon DEF Follows, r
<1>9. QED
  BY <1>3, <1>4, <1>8 DEF u

\* When all of it has arrived nothing of the message is on its way.
LEMMA FollowsEnd ==
  ASSUME NEW w \in Seq(Chunk), NEW p, NEW m, NEW k, NEW a \in Nat, NEW e \in Nat,
         Follows(w, p, m, k, a, e, e)
  PROVE  \A q \in DOMAIN w : ~ Belongs(w[q], p, k)
<1>1. \A q \in DOMAIN w : Belongs(w[q], p, k) <=> q \in a + 1 .. a + (e - e)
  BY Zenon DEF Follows
<1>2. a + 1 .. a + (e - e) = {}
  OBVIOUS
<1>3. QED
  BY <1>1, <1>2

\* The chunk that arrives is one of this message only if nothing is before it.
LEMMA FollowsFirst ==
  ASSUME NEW w \in Seq(Chunk), w # <<>>, NEW p, NEW m, NEW k, NEW a \in Nat,
         NEW j \in Nat, NEW e \in Nat,
         Follows(w, p, m, k, a, j, e), Belongs(Head(w), p, k)
  PROVE  a = 0 /\ j < e
<1>1. 1 \in DOMAIN w /\ Belongs(w[1], p, k)
  OBVIOUS
<1> DEFINE n == e - j
<1>2. n \in Int
  OBVIOUS
<1>3. \A q \in DOMAIN w : Belongs(w[q], p, k) <=> q \in a + 1 .. a + n
  BY Zenon DEF Follows
<1> HIDE DEF n
<1>4. 1 \in a + 1 .. a + n
  BY <1>1, <1>3
<1>5. a = 0 /\ n >= 1
  BY <1>2, <1>4
<1>6. QED
  BY <1>5 DEF n

\* A message that is sent comes behind everything else.
LEMMA FollowsSend ==
  ASSUME NEW w \in Seq(Chunk), NEW p \in Pairs, NEW m \in Contents, NEW k \in Nat,
         \A q \in DOMAIN w : ~ Belongs(w[q], p, k)
  PROVE  Follows(w \o BuildChunks(p, m, ChunkLength, k), p, m, k, Len(w), 0, Count(m))
<1> DEFINE n == Count(m)
           v == BuildChunks(p, m, ChunkLength, k)
           wv == w \o v
           a == Len(w)
<1>1. n \in Nat /\ a \in Nat /\ DOMAIN w = 1 .. a
  BY CountBounds, LenProperties
<1>2. v \in Seq(Chunk) /\ v = [i \in 1 .. n |-> BuildChunk(p, m, ChunkLength, i - 1, k)]
  BY BuildChunksType DEF BuildChunks, Count
<1>3. Len(v) = n /\ \A i \in 1 .. n : v[i] = BuildChunk(p, m, ChunkLength, i - 1, k)
  <2>1. DOMAIN v = 1 .. n
    BY <1>2, Zenon
  <2>2. Len(v) \in Nat /\ DOMAIN v = 1 .. Len(v)
    BY <1>2, LenProperties
  <2> HIDE DEF v, n
  <2>3. Len(v) = n
    BY <1>1, <2>1, <2>2
  <2>4. QED
    BY <1>2, <2>3
<1>4. /\ wv \in Seq(Chunk) /\ Len(wv) = a + n /\ DOMAIN wv = 1 .. a + n
      /\ \A i \in 1 .. a + n : wv[i] = IF i <= a THEN w[i] ELSE v[i - a]
  <2> HIDE DEF v
  <2>1. /\ wv \in Seq(Chunk) /\ Len(wv) = Len(w) + Len(v)
        /\ \A i \in 1 .. Len(w) + Len(v) :
             wv[i] = IF i <= Len(w) THEN w[i] ELSE v[i - Len(w)]
    BY <1>2, ConcatProperties
  <2>2. DOMAIN wv = 1 .. Len(wv)
    BY <2>1, LenProperties
  <2> HIDE DEF wv
  <2>3. QED
    BY <1>3, <2>1, <2>2
<1>5. \A i \in 1 .. n : Belongs(BuildChunk(p, m, ChunkLength, i - 1, k), p, k)
  <2>1. \A i \in 1 .. n : i - 1 \in 0 .. Count(m) - 1
    BY <1>1
  <2>2. QED
    BY <2>1, BuiltBelongs
<1> HIDE DEF v, n, wv, a
<1>6. ASSUME NEW q \in DOMAIN wv PROVE Belongs(wv[q], p, k) <=> q \in a + 1 .. a + n
  <2>1. CASE q <= a
    <3>1. q \in DOMAIN w /\ wv[q] = w[q] /\ q \notin a + 1 .. a + n
      BY <1>1, <1>4, <2>1
    <3>2. QED
      BY <3>1
  <2>2. CASE ~ (q <= a)
    <3>1. q - a \in 1 .. n /\ wv[q] = v[q - a] /\ q \in a + 1 .. a + n
      BY <1>1, <1>4, <2>2
    <3>2. QED
      BY <1>3, <1>5, <3>1
  <2>3. QED
    BY <2>1, <2>2
<1>7. ASSUME NEW i \in 1 .. n
      PROVE  wv[a + i] = BuildChunk(p, m, ChunkLength, 0 + i - 1, k)
  <2> DEFINE x == a + i
  <2>1. x \in 1 .. a + n /\ ~ (x <= a) /\ x - a = i /\ 0 + i - 1 = i - 1
    BY <1>1
  <2> HIDE DEF x
  <2>2. wv[x] = v[i]
    BY <1>4, <2>1
  <2>3. v[i] = BuildChunk(p, m, ChunkLength, 0 + i - 1, k)
    BY <1>3, <2>1
  <2>4. QED
    BY <2>2, <2>3 DEF x
<1>8. a + (n - 0) <= Len(wv) /\ n - 0 = n
  BY <1>1, <1>4
<1>9. Follows(wv, p, m, k, a, 0, n)
  <2>1. /\ a + (n - 0) <= Len(wv)
        /\ \A q \in DOMAIN wv : Belongs(wv[q], p, k) <=> q \in a + 1 .. a + (n - 0)
        /\ \A i \in 1 .. n - 0 : wv[a + i] = BuildChunk(p, m, ChunkLength, 0 + i - 1, k)
    BY <1>6, <1>7, <1>8
  <2>2. QED
    BY <2>1, Zenon DEF Follows
<1>10. QED
  BY <1>9 DEF wv, v, a, n

\* What is on its way, collected or delivered of a message stays so when another
\* message's chunk leaves the wire ...
Following(w, t, g, p, m, k) ==
  Coming(w, p, m, k) \/ Arriving(w, t, p, m, k) \/ HandedOver(w, g, p, m, k)

Extends(h, g) == \A i \in DOMAIN g : i \in DOMAIN h /\ h[i] = g[i]

LEMMA FollowingLess ==
  ASSUME NEW w \in Seq(Chunk), w # <<>>, NEW t, NEW u, NEW g, NEW h, Extends(h, g),
         NEW p, NEW m \in Contents, NEW k,
         Following(w, t, g, p, m, k), ~ Belongs(Head(w), p, k)
  PROVE  Following(Tail(w), u, h, p, m, k)
<1> DEFINE e == Count(m)
<1>1. e \in Nat \ {0} /\ Len(w) \in Nat \ {0} /\ Len(Tail(w)) = Len(w) - 1
  BY CountBounds, LenProperties, HeadTailProperties
<1>2. CASE Coming(w, p, m, k)
  <2>1. PICK a \in 0 .. Len(w) : Follows(w, p, m, k, a, 0, e)
    BY <1>2 DEF Coming
  <2> HIDE DEF e
  <2>2. a \in Nat /\ 0 \in Nat /\ 0 < e
    BY <1>1
  <2>3. a - 1 \in Nat /\ Follows(Tail(w), p, m, k, a - 1, 0, e)
    BY <1>1, <2>1, <2>2, FollowsOthersLess
  <2>4. a - 1 \in 0 .. Len(Tail(w))
    BY <1>1, <2>3
  <2>5. QED
    BY <2>3, <2>4 DEF Following, Coming, e
<1>3. CASE Arriving(w, t, p, m, k)
  <2>1. PICK j \in 1 .. e - 1 : Follows(w, p, m, k, 0, j, e)
    BY <1>3 DEF Arriving
  <2> HIDE DEF e
  <2>2. j \in Nat /\ 0 \in Nat /\ j < e
    BY <1>1
  <2>3. 0 - 1 \in Nat
    BY <1>1, <2>1, <2>2, FollowsOthersLess
  <2>4. QED
    BY <2>3
<1>4. CASE HandedOver(w, g, p, m, k)
  <2>1. ASSUME NEW q \in DOMAIN Tail(w) PROVE ~ Belongs(Tail(w)[q], p, k)
    <3>1. q + 1 \in DOMAIN w /\ Tail(w)[q] = w[q + 1]
      BY <1>1, LenProperties
    <3>2. QED
      BY <1>4, <3>1 DEF HandedOver
  <2>2. QED
    BY <1>4, <2>1 DEF HandedOver, Following, Extends
<1>5. QED
  BY <1>2, <1>3, <1>4 DEF Following

\* ... or gets in front of what is still to come ...
LEMMA FollowingOneMore ==
  ASSUME NEW w \in Seq(Chunk), NEW t, NEW u, NEW g, NEW h, Extends(h, g),
         NEW p, NEW m \in Contents, NEW k,
         Following(w, t, g, p, m, k), ~ Arriving(w, t, p, m, k),
         NEW ch \in Chunk, ~ Belongs(ch, p, k)
  PROVE  Following(<<ch>> \o w, u, h, p, m, k)
<1> DEFINE e == Count(m)
           v == <<ch>> \o w
<1>1. /\ e \in Nat \ {0} /\ Len(w) \in Nat /\ Len(v) = Len(w) + 1
      /\ DOMAIN v = 1 .. Len(w) + 1 /\ v[1] = ch
      /\ \A q \in 2 .. Len(w) + 1 : v[q] = w[q - 1]
  BY CountBounds, LenProperties
<1>2. CASE Coming(w, p, m, k)
  <2>1. PICK a \in 0 .. Len(w) : Follows(w, p, m, k, a, 0, e)
    BY <1>2 DEF Coming
  <2> HIDE DEF e
  <2>2. a \in Nat /\ 0 \in Nat /\ 0 <= e
    BY <1>1
  <2>3. Follows(v, p, m, k, a + 1, 0, e)
    BY <1>1, <2>1, <2>2, FollowsOneMore
  <2>4. a + 1 \in 0 .. Len(v)
    BY <1>1, <2>2
  <2>5. QED
    BY <2>3, <2>4 DEF Following, Coming, e
<1>3. CASE HandedOver(w, g, p, m, k)
  <2> HIDE DEF v
  <2>1. ASSUME NEW q \in DOMAIN v PROVE ~ Belongs(v[q], p, k)
    <3>1. CASE q = 1
      BY <1>1, <3>1
    <3>2. CASE q # 1
      <4>1. q - 1 \in DOMAIN w /\ v[q] = w[q - 1]
        BY <1>1, <3>2, LenProperties
      <4>2. QED
        BY <1>3, <4>1 DEF HandedOver
    <3>3. QED
      BY <3>1, <3>2
  <2>2. Following(v, u, h, p, m, k)
    BY <1>3, <2>1 DEF HandedOver, Following, Extends
  <2>3. QED
    BY <2>2 DEF v
<1>4. QED
  BY <1>2, <1>3 DEF Following

\* ... or joins at the end.
LEMMA FollowingMore ==
  ASSUME NEW w \in Seq(Chunk), NEW t, NEW g, NEW p, NEW m \in Contents, NEW k,
         Following(w, t, g, p, m, k),
         NEW v \in Seq(Chunk), \A q \in DOMAIN v : ~ Belongs(v[q], p, k)
  PROVE  Following(w \o v, t, g, p, m, k)
<1> DEFINE e == Count(m)
           wv == w \o v
<1>1. /\ e \in Nat \ {0} /\ Len(w) \in Nat /\ Len(v) \in Nat
      /\ DOMAIN w = 1 .. Len(w) /\ DOMAIN v = 1 .. Len(v)
  BY CountBounds, LenProperties
<1>2. /\ Len(wv) = Len(w) + Len(v) /\ DOMAIN wv = 1 .. Len(w) + Len(v)
      /\ \A i \in 1 .. Len(w) + Len(v) : wv[i] = IF i <= Len(w) THEN w[i] ELSE v[i - Len(w)]
  BY ConcatProperties, LenProperties
<1>3. CASE Coming(w, p, m, k)
  <2>1. PICK a \in 0 .. Len(w) : Follows(w, p, m, k, a, 0, e)
    BY <1>3 DEF Coming
  <2> HIDE DEF e
  <2>2. a \in Nat /\ 0 \in Nat /\ 0 <= e /\ e \in Nat
    BY <1>1
  <2>3. Follows(wv, p, m, k, a, 0, e)
    BY <2>1, <2>2, FollowsMore
  <2>4. a \in 0 .. Len(wv)
    <3> HIDE DEF wv
    <3>1. QED
      BY <1>1, <1>2, <2>2
  <2>5. QED
    BY <2>3, <2>4 DEF Following, Coming, e
<1>4. CASE Arriving(w, t, p, m, k)
  <2>1. PICK j \in 1 .. e - 1 : /\ Follows(w, p, m, k, 0, j, e)
                               /\ \E c \in Channels : t[c] = Collected(p, m, k, j)
    BY <1>4 DEF Arriving
  <2> HIDE DEF e
  <2>2. j \in Nat /\ 0 \in Nat /\ j <= e /\ e \in Nat
    BY <1>1
  <2>3. Follows(wv, p, m, k, 0, j, e)
    BY <2>1, <2>2, FollowsMore
  <2>4. QED
    BY <2>1, <2>3 DEF Following, Arriving, e
<1>5. CASE HandedOver(w, g, p, m, k)
  <2> HIDE DEF wv
  <2>1. ASSUME NEW q \in DOMAIN wv PROVE ~ Belongs(wv[q], p, k)
    <3>1. CASE q <= Len(w)
      <4>1. q \in DOMAIN w /\ wv[q] = w[q]
        BY <1>1, <1>2, <3>1
      <4>2. QED
        BY <1>5, <4>1 DEF HandedOver
    <3>2. CASE ~ (q <= Len(w))
      <4>1. q - Len(w) \in DOMAIN v /\ wv[q] = v[q - Len(w)]
        BY <1>1, <1>2, <3>2
      <4>2. QED
        BY <4>1
    <3>3. QED
      BY <3>1, <3>2
  <2>2. QED
    BY <1>5, <2>1 DEF HandedOver, Following, wv
<1>6. QED
  BY <1>3, <1>4, <1>5 DEF Following

\* A reassembly is complete with the last chunk, and not before.
LEMMA CollectedComplete ==
  ASSUME NEW p \in Pairs, NEW m \in Contents, NEW k, NEW j \in 1 .. Count(m),
         NEW b, b = Collected(p, m, k, j)
  PROVE  /\ Complete(b) <=> j = Count(m)
         /\ Len(b.payload) = DataEnd(m, j)
         /\ j = Count(m) => b.payload = m.data
<1>1. /\ b.payload = SubSeq(m.data, 1, DataEnd(m, j)) /\ b.length = Len(m.data)
      /\ b.crc = Checksum(m.data)
  BY DEF Collected
<1>2. DataEnd(m, j) \in 0 .. Len(m.data) /\ (DataEnd(m, j) = Len(m.data) <=> j = Count(m))
  BY DataEnds
<1>3. Len(b.payload) = DataEnd(m, j)
  BY <1>1, <1>2, DataPart
<1>4. j = Count(m) => b.payload = m.data
  <2>1. DataEnd(m, j) = Len(m.data) => SubSeq(m.data, 1, DataEnd(m, j)) = m.data
    BY <1>2, DataPart
  <2>2. QED
    BY <1>1, <1>2, <2>1
<1>5. QED
  BY <1>1, <1>2, <1>3, <1>4 DEF Complete

\* The chunk that follows fits the reassembly that holds the ones before it.
LEMMA CollectedNext ==
  ASSUME NEW p \in Pairs, NEW m \in Contents, NEW k, NEW j \in 1 .. Count(m) - 1,
         NEW ch, ch = BuildChunk(p, m, ChunkLength, j, k), Acceptable(p, m),
         NEW b, b = Collected(p, m, k, j)
  PROVE  ~ DataRefused(b, ch) /\ Filled(b, ch) = Collected(p, m, k, j + 1)
<1>1. Count(m) \in Nat /\ j \in Nat /\ j \in 1 .. Count(m) /\ j + 1 \in 1 .. Count(m)
      /\ j \in 0 .. Count(m) - 1 /\ j # 0
  BY CountBounds
<1>2. ch.body = Body(m.data, ChunkLength, j) /\ ~ CanIdIsFirst(ch.id)
  <2>1. CanIdIsFirst(ch.id) <=> j = 0
    BY <1>1, ChunkIdentity
  <2>2. QED
    BY <1>1, <2>1, ChunkContent
<1>3. ch.body \in Seq(Nat)
  BY <1>1, <1>2, BodyType, SenderAssumption, ContentsType
<1> DEFINE s == SubSeq(m.data, 1, DataEnd(m, j))
           t == SubSeq(m.data, 1, DataEnd(m, j + 1))
<1>4. s \o ch.body = t
  BY <1>2, BodyJoins
<1>5. /\ DataEnd(m, j) \in 0 .. Len(m.data) /\ DataEnd(m, j + 1) \in 0 .. Len(m.data)
      /\ Len(m.data) \in Nat
  BY <1>1, DataEnds, ContentsType
<1>6. s \in Seq(Nat) /\ Len(s) = DataEnd(m, j) /\ Len(t) = DataEnd(m, j + 1)
  BY <1>5, DataPart
<1>7. b.payload = s /\ b.length = Len(m.data) /\ b.id = m.id
  BY DEF Collected
<1>8. m.id # ERROR_ID
  BY DEF Acceptable
<1>9. Filled(b, ch) = Collected(p, m, k, j + 1)
  <2>1. Filled(b, ch) = [b EXCEPT !.payload = b.payload \o ch.body]
    BY <1>2 DEF Filled
  <2>2. Filled(b, ch) = [b EXCEPT !.payload = t]
    BY <1>4, <1>7, <2>1
  <2> HIDE DEF t
  <2> DEFINE used == TRUE
             sig == p[2] + p[1] * 4096
             n == Len(m.data)
             crc == Checksum(m.data)
             u == SubSeq(m.data, 1, DataEnd(m, j))
  <2>3. b = [in_use |-> used, sig |-> sig, id |-> m.id, from |-> p[1], to |-> p[2],
             length |-> n, crc |-> crc, payload |-> u, num |-> k]
    BY Zenon DEF Collected
  <2> HIDE DEF used, sig, n, crc, u
  <2>4. [b EXCEPT !.payload = t]
          = [in_use |-> used, sig |-> sig, id |-> m.id, from |-> p[1], to |-> p[2],
             length |-> n, crc |-> crc, payload |-> t, num |-> k]
    BY <2>3
  <2>5. Collected(p, m, k, j + 1)
          = [in_use |-> used, sig |-> sig, id |-> m.id, from |-> p[1], to |-> p[2],
             length |-> n, crc |-> crc, payload |-> t, num |-> k]
    BY Zenon DEF Collected, used, sig, n, crc, t
  <2>6. QED
    BY <2>2, <2>4, <2>5
<1> HIDE DEF s, t
<1>10. Len(s) + Len(ch.body) = Len(t)
  BY <1>3, <1>4, <1>6, ConcatProperties
<1>11. ~ (Len(b.payload) + Len(ch.body) > b.length)
  BY <1>5, <1>6, <1>7, <1>10
<1>12. QED
  BY <1>7, <1>8, <1>9, <1>11 DEF DataRefused

\* The first chunk starts a reassembly.
LEMMA CollectedFirst ==
  ASSUME NEW p \in Pairs, NEW m \in Contents, NEW k,
         NEW ch, ch = BuildChunk(p, m, ChunkLength, 0, k), Acceptable(p, m), NEW b
  PROVE  ~ FirstRefused(ch) /\ Filled(b, ch) = Collected(p, m, k, 1)
<1>1. Count(m) \in Nat /\ 0 \in 0 .. Count(m) - 1 /\ 1 \in 1 .. Count(m)
  BY CountBounds
<1>2. /\ CanIdFrom(ch.id) = p[1] /\ CanIdTo(ch.id) = p[2]
      /\ Signature(ch.id) = p[2] + p[1] * 4096
  BY <1>1, ChunkIdentity
<1>3. ch.num = k /\ ch.body = SubSeq(m.data, 1, DataEnd(m, 1))
  BY <1>1, ChunkContent, BodyJoins
<1>4. ch.headed = TRUE
  BY DEF BuildChunk
<1>5. ch.head = [id |-> m.id, length |-> Len(m.data), crc |-> Checksum(m.data)]
  BY DEF BuildChunk
<1>6. ch.head.id = m.id /\ ch.head.length = Len(m.data) /\ ch.head.crc = Checksum(m.data)
  BY <1>5
<1>7. Filled(b, ch) = Collected(p, m, k, 1)
  <2>1. CanIdIsFirst(ch.id) <=> 0 = 0
    BY <1>1, ChunkIdentity
  <2> DEFINE used == TRUE
  <2>2. Filled(b, ch)
          = [in_use |-> used, sig |-> Signature(ch.id), id |-> ch.head.id,
             from |-> CanIdFrom(ch.id), to |-> CanIdTo(ch.id),
             length |-> ch.head.length, crc |-> ch.head.crc,
             payload |-> ch.body, num |-> ch.num]
    BY <2>1, Zenon DEF Filled
  <2> DEFINE sig == p[2] + p[1] * 4096
             n == Len(m.data)
             crc == Checksum(m.data)
             u == SubSeq(m.data, 1, DataEnd(m, 1))
  <2>3. Collected(p, m, k, 1)
          = [in_use |-> used, sig |-> sig, id |-> m.id, from |-> p[1], to |-> p[2],
             length |-> n, crc |-> crc, payload |-> u, num |-> k]
    BY Zenon DEF Collected
  <2>4. /\ Signature(ch.id) = sig /\ ch.head.id = m.id /\ ch.head.length = n
        /\ ch.head.crc = crc /\ ch.body = u /\ ch.num = k
    BY <1>2, <1>3, <1>6
  <2> HIDE DEF used, sig, n, crc, u
  <2>5. QED
    BY <1>2, <2>2, <2>3, <2>4
<1>8. ~ (Len(ch.body) > ch.head.length)
  <2>1. DataEnd(m, 1) \in 0 .. Len(m.data) /\ Len(m.data) \in Nat
    BY <1>1, DataEnds, ContentsType
  <2>2. Len(ch.body) = DataEnd(m, 1)
    BY <1>3, <2>1, DataPart
  <2>3. QED
    BY <1>6, <2>1, <2>2
<1>9. QED
  BY <1>2, <1>4, <1>6, <1>7, <1>8 DEF FirstRefused, Acceptable

\* Where chunk j of a message goes: into the reassembly that holds the chunks
\* before it, or a new one.
LEMMA ChunkIsStored ==
  ASSUME TableOK(rx, view), NEW p \in Pairs, NEW m \in Contents, NEW k,
         NEW j \in 0 .. Count(m) - 1, Acceptable(p, m),
         j = 0 \/ \E c \in Channels : rx[c] = Collected(p, m, k, j),
         NEW ch, ch = BuildChunk(p, m, ChunkLength, j, k)
  PROVE  /\ ~ Refused(ch)
         /\ Filled(Found(Signature(ch.id)), ch) = Collected(p, m, k, j + 1)
<1> DEFINE sig == Signature(ch.id)
<1>1. CanIdIsFirst(ch.id) <=> j = 0
  BY ChunkIdentity
<1>2. sig = p[2] + p[1] * 4096
  BY ChunkIdentity
<1>3. CASE j = 0
  <2>1. ch = BuildChunk(p, m, ChunkLength, 0, k)
    BY <1>3
  <2>2. ~ FirstRefused(ch) /\ Filled(Found(sig), ch) = Collected(p, m, k, 1)
    BY <2>1, CollectedFirst
  <2>3. ~ Refused(ch)
    BY <1>1, <1>3, <2>2 DEF Refused
  <2>4. j + 1 = 1
    BY <1>3
  <2>5. QED
    BY <2>2, <2>3, <2>4
<1>4. CASE j # 0
  <2>1. j \in 1 .. Count(m) - 1 /\ j \in 1 .. Count(m) /\ j # Count(m)
    BY <1>4, CountBounds
  <2>2. PICK c \in Channels : rx[c] = Collected(p, m, k, j)
    BY <1>4
  <2>3. rx[c].in_use /\ rx[c].sig = sig
    BY <1>2, <2>2 DEF Collected
  <2>4. ~ Complete(rx[c])
    BY <2>1, <2>2, CollectedComplete
  <2>5. c # view
    BY <2>3, <2>4 DEF TableOK
  <2> HIDE DEF sig
  <2>6. Released[c] = rx[c]
    BY <2>5 DEF Released
  <2>7. c \in Holding(sig)
    BY <2>3, <2>6 DEF Holding
  <2>8. Chosen(sig) = c
    <3>1. Available(sig) # {}
      BY <2>7 DEF Available
    <3>2. TableOK(Released, 0)
      BY ReleasedOK
    <3>3. QED
      BY <2>3, <2>6, <3>1, <3>2, ChosenOK
  <2>9. Found(sig) = Collected(p, m, k, j)
    BY <2>2, <2>6, <2>7, <2>8 DEF Found
  <2>10. ~ DataRefused(Found(sig), ch) /\ Filled(Found(sig), ch) = Collected(p, m, k, j + 1)
    BY <2>1, <2>9, CollectedNext
  <2>11. ~ Refused(ch)
    BY <1>1, <1>4, <2>10 DEF Refused, sig
  <2>12. QED
    BY <2>10, <2>11 DEF sig
<1>5. QED
  BY <1>3, <1>4

\* A chunk of the message is taken: it makes the reassembly longer, or with the
\* last one the message is handed over; unless the message is harmed.
LEMMA OwnChunk ==
  ASSUME TableOK(rx, view), got \in [Pairs -> Seq([id : Nat, data : Seq(Nat), num : Nat])],
         NEW p \in Pairs, NEW m \in Contents, NEW k,
         NEW j \in 0 .. Count(m) - 1, Acceptable(p, m),
         j = 0 \/ \E c \in Channels : rx[c] = Collected(p, m, k, j),
         AddChunk(p), Head(wire[p]) = BuildChunk(p, m, ChunkLength, j, k),
         <<p, k>> \notin harmed'
  PROVE  IF j + 1 = Count(m)
         THEN /\ got' = [got EXCEPT ![p] = Append(@, [id |-> m.id, data |-> m.data, num |-> k])]
              /\ view' # 0 => view' \in Channels /\ rx'[view'] = Collected(p, m, k, j + 1)
         ELSE view' = 0 /\ \E c \in Channels : rx'[c] = Collected(p, m, k, j + 1)
<1> DEFINE ch == Head(wire[p])
           sig == Signature(ch.id)
           c == Chosen(sig)
           b == Filled(Found(sig), ch)
           full == Collected(p, m, k, j + 1)
<1>1. ChunkLen(ch) \in Nat /\ ChunkLen(ch) <= MESSAGE_MAXLEN
  BY ChunkFits
<1>2. ch.num = k
  <2>1. ch = BuildChunk(p, m, ChunkLength, j, k)
    OBVIOUS
  <2> HIDE DEF ch
  <2>2. QED
    BY <2>1, ChunkContent
<1>3. Related(ch)
  <2>1. CanIdTo(ch.id) = p[2]
    BY ChunkIdentity
  <2>2. QED
    BY <2>1 DEF Related, Acceptable
<1>4. ~ Refused(ch) /\ b = full
  BY ChunkIsStored
<1>5. j + 1 \in 1 .. Count(m)
  BY CountBounds
<1>6. /\ Complete(full) <=> j + 1 = Count(m)
      /\ j + 1 = Count(m) => full.payload = m.data
  BY <1>5, CollectedComplete
<1>7. full.num = k /\ full.id = m.id /\ full.from = p[1] /\ full.to = p[2]
  BY DEF Collected
<1>8. p = <<p[1], p[2]>>
  BY PairType
<1>9. Released \in [Channels -> Buffer] /\ TableOK(Released, 0)
  BY ReleasedOK DEF TableOK
<1>10. /\ AddInvalid(ch) => ChunkLen(ch) > MESSAGE_MAXLEN
       /\ AddUnrelated(ch) => ~ Related(ch)
       /\ AddWithoutChannel(p, ch) => <<p, ch.num>> \in harmed'
       /\ AddRefused(p, ch, c) => Refused(ch) \/ <<p, ch.num>> \in harmed'
  BY DEF AddInvalid, AddUnrelated, AddWithoutChannel, AddRefused, Harm
<1>11. ~ (ChunkLen(ch) > MESSAGE_MAXLEN)
  BY <1>1 DEF MESSAGE_MAXLEN
<1>12. Available(sig) # {} /\ (AddStored(ch, c, b) \/ AddCompleted(p, ch, c, b))
  <2>1. \/ AddInvalid(ch) \/ AddUnrelated(ch) \/ AddWithoutChannel(p, ch)
        \/ /\ Available(sig) # {}
           /\ AddRefused(p, ch, c) \/ AddStored(ch, c, b) \/ AddCompleted(p, ch, c, b)
    BY DEF AddChunk
  <2>2. QED
    BY <1>2, <1>3, <1>4, <1>10, <1>11, <2>1
<1>13. c \in Channels
  BY <1>9, <1>12, ChosenOK
<1> HIDE DEF c, b, sig, full
<1>14. CASE AddStored(ch, c, b)
  <2>1. ~ Complete(b) /\ rx' = [Released EXCEPT ![c] = b] /\ view' = 0
    BY <1>14 DEF AddStored
  <2>2. rx'[c] = full
    BY <1>4, <1>9, <1>13, <2>1
  <2>3. QED
    BY <1>4, <1>6, <1>13, <2>1, <2>2 DEF full
<1>15. CASE AddCompleted(p, ch, c, b)
  <2>1. Complete(b) /\ j + 1 = Count(m)
    BY <1>4, <1>6, <1>15 DEF AddCompleted
  <2>2. HandOver(b)
    <3>1. HandOver(b) \/ <<p, b.num>> \in harmed'
      BY <1>15 DEF AddCompleted, Harm
    <3>2. QED
      BY <1>4, <1>7, <3>1
  <2>3. got' = [got EXCEPT ![p] = Append(@, [id |-> m.id, data |-> m.data, num |-> k])]
    BY <1>4, <1>6, <1>7, <1>8, <2>1, <2>2 DEF HandOver
  <2>4. view' # 0 => view' = c /\ rx' = [Released EXCEPT ![c] = b]
    BY <1>15 DEF AddCompleted
  <2>5. view' # 0 => view' \in Channels /\ rx'[view'] = full
    BY <1>4, <1>9, <1>13, <2>4
  <2>6. QED
    BY <2>1, <2>3, <2>5 DEF full
<1>16. QED
  BY <1>12, <1>14, <1>15

\* A message that is handed over goes behind the ones before it.
LEMMA HandOverExtends ==
  ASSUME got \in [Pairs -> Seq([id : Nat, data : Seq(Nat), num : Nat])], NEW p \in Pairs,
         NEW q, NEW x, got' = [got EXCEPT ![q] = Append(@, x)]
  PROVE  Extends(got'[p], got[p])
<1>1. got[p] \in Seq([id : Nat, data : Seq(Nat), num : Nat])
  OBVIOUS
<1> DEFINE g == got[p]
           h == Append(g, x)
<1>2. Len(g) \in Nat /\ DOMAIN g = 1 .. Len(g)
  BY <1>1, LenProperties
<1>3. \A i \in 1 .. Len(g) : i \in DOMAIN h /\ h[i] = g[i]
  BY <1>1, <1>2
<1>4. Extends(h, g)
  BY <1>2, <1>3 DEF Extends
<1>5. Extends(g, g)
  BY DEF Extends
<1>6. got'[p] = h \/ got'[p] = g
  OBVIOUS
<1> HIDE DEF g, h
<1>7. Extends(got'[p], g)
  BY <1>4, <1>5, <1>6
<1>8. QED
  BY <1>7 DEF g

LEMMA AddChunkExtends ==
  ASSUME got \in [Pairs -> Seq([id : Nat, data : Seq(Nat), num : Nat])],
         NEW q, AddChunk(q), NEW p \in Pairs
  PROVE  Extends(got'[p], got[p])
<1>1. got' = got \/ \E b : HandOver(b)
  BY DEF AddChunk, AddInvalid, AddUnrelated, AddWithoutChannel, AddRefused, AddStored,
         AddCompleted
<1>2. CASE got' = got
  BY <1>2 DEF Extends
<1>3. ASSUME NEW b, HandOver(b) PROVE Extends(got'[p], got[p])
  BY <1>3, HandOverExtends DEF HandOver
<1>4. QED
  BY <1>1, <1>2, <1>3

\* No step makes a harmed message unharmed.
LEMMA HarmedStays == [Next]_vars => harmed \subseteq harmed'
BY DEF Next, vars, Send, Lose, Duplicate, Intrude, AddChunk, AddInvalid, AddUnrelated,
       AddWithoutChannel, AddRefused, AddStored, AddCompleted, Restart, Harm

\* Pairs differ in their signatures.
LEMMA SignaturesDiffer ==
  ASSUME NEW p \in Pairs, NEW id \in Nat, <<CanIdFrom(id), CanIdTo(id)>> # p
  PROVE  Signature(id) # p[2] + p[1] * 4096
<1> DEFINE a == p[1]
           b == p[2]
           x == CanIdFrom(id)
           y == CanIdTo(id)
<1>1. a \in 0 .. 4095 /\ b \in 0 .. 4095 /\ p = <<a, b>>
  BY PairType, SMTT(30) DEF ADDRESS_MAX
<1>2. x \in 0 .. 4095 /\ y \in 0 .. 4095
  <2>1. CanIdFrom(id) \in 0 .. ADDRESS_MAX /\ CanIdTo(id) \in 0 .. ADDRESS_MAX
    BY CanIdRanges
  <2>2. QED
    BY <2>1 DEF ADDRESS_MAX
<1>3. a # x \/ b # y
  BY <1>1
<1>4. Signature(id) = y + x * 4096
  BY DEF Signature
<1> HIDE DEF a, b, x, y
<1>5. y + x * 4096 # b + a * 4096
  BY <1>1, <1>2, <1>3
<1>6. QED
  BY <1>4, <1>5 DEF a, b

\* Chunks of another pair leave alone what is collected of this one.
LEMMA OtherPairsChunk ==
  ASSUME TableOK(rx, view), NEW p \in Pairs, NEW m \in Contents, NEW k,
         NEW j \in 1 .. Count(m) - 1, NEW d \in Channels, rx[d] = Collected(p, m, k, j),
         NEW q, AddChunk(q), Head(wire[q]).id \in Nat, PairOf(Head(wire[q])) # p
  PROVE  rx'[d] = rx[d]
<1> DEFINE ch == Head(wire[q])
           sig == Signature(ch.id)
           c == Chosen(sig)
           b == Filled(Found(sig), ch)
<1>1. rx[d].in_use /\ rx[d].sig = p[2] + p[1] * 4096
  BY DEF Collected
<1>2. d # view
  <2>1. j \in 1 .. Count(m) /\ j # Count(m)
    BY CountBounds
  <2>2. ~ Complete(rx[d])
    BY <2>1, CollectedComplete
  <2>3. QED
    BY <1>1, <2>2 DEF TableOK
<1>3. Released \in [Channels -> Buffer] /\ TableOK(Released, 0) /\ Released[d] = rx[d]
  BY <1>2, ReleasedOK DEF TableOK, Released
<1>4. sig # rx[d].sig
  BY <1>1, SignaturesDiffer DEF PairOf
<1>5. \/ rx' = rx
      \/ rx' = Released
      \/ /\ Available(sig) # {}
         /\ rx' = [Released EXCEPT ![c] = FreeBuffer] \/ rx' = [Released EXCEPT ![c] = b]
  BY DEF AddChunk, AddInvalid, AddUnrelated, AddWithoutChannel, AddRefused, AddStored,
         AddCompleted
<1>6. Available(sig) # {} => c # d
  <2> SUFFICES ASSUME Available(sig) # {}, c = d PROVE FALSE
    OBVIOUS
  <2> HIDE DEF sig
  <2>1. Released[Chosen(sig)].in_use => Released[Chosen(sig)].sig = sig
    BY <1>3, ChosenOK
  <2>2. QED
    BY <1>1, <1>3, <1>4, <2>1
<1> HIDE DEF c, b, sig
<1>7. QED
  BY <1>3, <1>5, <1>6

-----------------------------------------------------------------------------
(* Every step keeps what follows from the messages.                        *)

SentKnown == sent \in [Pairs -> Seq(Contents)]

WireKnown ==
  \A p \in Pairs : \A q \in DOMAIN wire[p] :
    PairOf(wire[p][q]) \notin Pairs \ {p} /\ wire[p][q].num <= Len(sent[p])

MessageFollows(p, k) ==
  Acceptable(p, sent[p][k]) /\ <<p, k>> \notin harmed =>
    Following(wire[p], rx, got[p], p, sent[p][k], k)

LEMMA MessagesParts ==
  MessagesFollow <=>
    SentKnown /\ WireKnown /\ \A p \in Pairs : \A k \in DOMAIN sent[p] : MessageFollows(p, k)
BY Zenon DEF MessagesFollow, SentKnown, WireKnown, MessageFollows, Following

LEMMA MessagesPartsNext ==
  SentKnown' /\ WireKnown' /\ (\A p \in Pairs : \A k \in DOMAIN sent'[p] : MessageFollows(p, k)')
    => MessagesFollow'
BY Zenon DEF MessagesFollow, SentKnown, WireKnown, MessageFollows, Following

\* The chunks of one message carry its number.
LEMMA ChunksOfOne ==
  ASSUME NEW p \in Pairs, NEW m \in Contents, NEW num \in Nat
  PROVE  LET v == BuildChunks(p, m, ChunkLength, num)
         IN  v \in Seq(Chunk) /\ \A q \in DOMAIN v : PairOf(v[q]) = p /\ v[q].num = num
<1> DEFINE v == BuildChunks(p, m, ChunkLength, num)
<1>1. v \in Seq(Chunk)
  BY BuildChunksType
<1>2. Count(m) \in Nat
  BY CountBounds
<1>3. ASSUME NEW q \in DOMAIN v PROVE PairOf(v[q]) = p /\ v[q].num = num
  <2>1. v = [i \in 1 .. Count(m) |-> BuildChunk(p, m, ChunkLength, i - 1, num)]
    BY DEF BuildChunks, Count
  <2>2. q \in 1 .. Count(m) /\ v[q] = BuildChunk(p, m, ChunkLength, q - 1, num)
    BY <2>1
  <2>3. q - 1 \in 0 .. Count(m) - 1
    BY <1>2, <2>2
  <2>4. Belongs(v[q], p, num)
    BY <2>2, <2>3, BuiltBelongs
  <2>5. QED
    BY <2>4 DEF Belongs
<1>4. QED
  BY <1>1, <1>3

\* What was sent stays what is on the wire, of the pair it is on the wire of.
LEMMA SendKnown ==
  ASSUME HistoryOK, SentKnown, WireKnown, NEW p \in Pairs, Send(p)
  PROVE  SentKnown' /\ WireKnown'
<1>1. PICK m \in Contents :
        /\ sent' = [sent EXCEPT ![p] = Append(@, m)]
        /\ wire' = [wire EXCEPT ![p] = @ \o BuildChunks(p, m, ChunkLength, Len(sent[p]) + 1)]
  BY DEF Send
<1> DEFINE n == Len(sent[p])
           s == Append(sent[p], m)
           w == wire[p]
           v == BuildChunks(p, m, ChunkLength, n + 1)
           wv == w \o v
<1>2. sent[p] \in Seq(Contents) /\ n \in Nat /\ n + 1 \in Nat /\ w \in Seq(Chunk)
  BY LenProperties DEF SentKnown, HistoryOK
<1>3. s \in Seq(Contents) /\ Len(s) = n + 1
  BY <1>2, AppendProperties
<1>4. v \in Seq(Chunk) /\ \A q \in DOMAIN v : PairOf(v[q]) = p /\ v[q].num = n + 1
  <2> HIDE DEF n
  <2>1. QED
    BY <1>2, ChunksOfOne, SMTT(30)
<1>5. sent' = [sent EXCEPT ![p] = s] /\ wire' = [wire EXCEPT ![p] = wv]
  BY <1>1
<1>6. /\ Len(wv) = Len(w) + Len(v) /\ DOMAIN wv = 1 .. Len(w) + Len(v)
      /\ Len(w) \in Nat /\ Len(v) \in Nat /\ DOMAIN w = 1 .. Len(w) /\ DOMAIN v = 1 .. Len(v)
      /\ \A i \in 1 .. Len(w) + Len(v) : wv[i] = IF i <= Len(w) THEN w[i] ELSE v[i - Len(w)]
  <2> HIDE DEF v, w
  <2>1. QED
    BY <1>2, <1>4, ConcatProperties, LenProperties
<1>7. \A q \in DOMAIN w : /\ w[q] \in Chunk /\ w[q].num \in Nat
                         /\ PairOf(w[q]) \notin Pairs \ {p} /\ w[q].num <= n
  <2> SUFFICES ASSUME NEW q \in DOMAIN w
               PROVE  /\ w[q] \in Chunk /\ w[q].num \in Nat
                      /\ PairOf(w[q]) \notin Pairs \ {p} /\ w[q].num <= n
    OBVIOUS
  <2>1. w[q] \in Chunk
    BY <1>2, <1>6, ElementOfSeq
  <2>2. QED
    BY <2>1 DEF Chunk, WireKnown
<1> HIDE DEF n, s, w, v, wv
<1>8. ASSUME NEW q \in DOMAIN wv
      PROVE  PairOf(wv[q]) \notin Pairs \ {p} /\ wv[q].num <= n + 1
  <2>1. CASE q <= Len(w)
    <3>1. q \in DOMAIN w /\ wv[q] = w[q]
      BY <1>6, <2>1
    <3>2. w[q].num \in Nat /\ w[q].num <= n /\ PairOf(w[q]) \notin Pairs \ {p}
      BY <1>7, <3>1
    <3>3. QED
      BY <1>2, <3>1, <3>2
  <2>2. CASE ~ (q <= Len(w))
    <3>1. q - Len(w) \in DOMAIN v /\ wv[q] = v[q - Len(w)]
      BY <1>6, <2>2
    <3>2. PairOf(wv[q]) = p /\ wv[q].num = n + 1
      BY <1>4, <3>1
    <3>3. QED
      BY <1>2, <3>2
  <2>3. QED
    BY <2>1, <2>2
<1>9. SentKnown'
  BY <1>3, <1>5 DEF SentKnown
<1>10. WireKnown'
  <2> SUFFICES ASSUME NEW o \in Pairs, NEW q \in DOMAIN wire'[o]
               PROVE  PairOf(wire'[o][q]) \notin Pairs \ {o} /\ wire'[o][q].num <= Len(sent'[o])
    BY DEF WireKnown
  <2>1. CASE o = p
    <3>1. wire'[o] = wv /\ sent'[o] = s
      BY <1>5, <2>1 DEF HistoryOK, SentKnown
    <3>2. QED
      BY <1>3, <1>8, <2>1, <3>1
  <2>2. CASE o # p
    <3>1. wire'[o] = wire[o] /\ sent'[o] = sent[o]
      BY <1>5, <2>2 DEF HistoryOK, SentKnown
    <3>2. QED
      BY <3>1 DEF WireKnown
  <2>3. QED
    BY <2>1, <2>2
<1>11. QED
  BY <1>9, <1>10

\* A chunk that leaves, and one that gets in front.
LEMMA TailKnown ==
  ASSUME HistoryOK, SentKnown, WireKnown, NEW p \in Pairs, wire[p] # <<>>,
         wire' = [wire EXCEPT ![p] = Tail(@)], sent' = sent
  PROVE  SentKnown' /\ WireKnown'
<1> DEFINE w == wire[p]
           u == Tail(w)
<1>1. w \in Seq(Chunk) /\ w # <<>> /\ wire' = [wire EXCEPT ![p] = u]
  BY DEF HistoryOK
<1>2. /\ Len(w) \in Nat /\ DOMAIN w = 1 .. Len(w) /\ DOMAIN u = 1 .. Len(w) - 1
      /\ \A i \in 1 .. Len(w) - 1 : u[i] = w[i + 1]
  <2> HIDE DEF w
  <2>1. QED
    BY <1>1, LenProperties, HeadTailProperties
<1> HIDE DEF u
<1>3. WireKnown'
  <2> SUFFICES ASSUME NEW o \in Pairs, NEW q \in DOMAIN wire'[o]
               PROVE  PairOf(wire'[o][q]) \notin Pairs \ {o} /\ wire'[o][q].num <= Len(sent[o])
    BY DEF WireKnown
  <2>1. CASE o = p
    <3>1. wire'[o] = u
      BY <1>1, <2>1 DEF HistoryOK
    <3>2. q + 1 \in DOMAIN w /\ wire'[o][q] = w[q + 1]
      <4> HIDE DEF w
      <4>1. QED
        BY <1>2, <3>1
    <3>3. QED
      BY <2>1, <3>2 DEF WireKnown
  <2>2. CASE o # p
    <3>1. wire'[o] = wire[o]
      BY <1>1, <2>2 DEF HistoryOK
    <3>2. QED
      BY <3>1 DEF WireKnown
  <2>3. QED
    BY <2>1, <2>2
<1>4. QED
  BY <1>3 DEF SentKnown

LEMMA OneMoreKnown ==
  ASSUME HistoryOK, SentKnown, WireKnown, NEW p \in Pairs, NEW ch \in Chunk,
         wire' = [wire EXCEPT ![p] = <<ch>> \o @], sent' = sent,
         PairOf(ch) \notin Pairs \ {p}, ch.num <= Len(sent[p])
  PROVE  SentKnown' /\ WireKnown'
<1> DEFINE w == wire[p]
           u == <<ch>> \o w
<1>1. w \in Seq(Chunk) /\ wire' = [wire EXCEPT ![p] = u]
  BY DEF HistoryOK
<1>2. /\ Len(w) \in Nat /\ DOMAIN w = 1 .. Len(w) /\ DOMAIN u = 1 .. 1 + Len(w) /\ u[1] = ch
      /\ \A i \in 2 .. 1 + Len(w) : u[i] = w[i - 1]
  <2> HIDE DEF w
  <2>1. QED
    BY <1>1, LenProperties
<1> HIDE DEF u
<1>3. WireKnown'
  <2> SUFFICES ASSUME NEW o \in Pairs, NEW q \in DOMAIN wire'[o]
               PROVE  PairOf(wire'[o][q]) \notin Pairs \ {o} /\ wire'[o][q].num <= Len(sent[o])
    BY DEF WireKnown
  <2>1. CASE o = p
    <3>1. wire'[o] = u
      BY <1>1, <2>1 DEF HistoryOK
    <3>2. CASE q = 1
      BY <1>2, <2>1, <3>1, <3>2
    <3>3. CASE q # 1
      <4>1. q - 1 \in DOMAIN w /\ wire'[o][q] = w[q - 1]
        <5> HIDE DEF w
        <5>1. QED
          BY <1>2, <3>1, <3>3
      <4>2. QED
        BY <2>1, <4>1 DEF WireKnown
    <3>4. QED
      BY <3>2, <3>3
  <2>2. CASE o # p
    <3>1. wire'[o] = wire[o]
      BY <1>1, <2>2 DEF HistoryOK
    <3>2. QED
      BY <3>1 DEF WireKnown
  <2>3. QED
    BY <2>1, <2>2
<1>4. QED
  BY <1>3 DEF SentKnown

\* No step of any action loses sight of a message that it does not harm.  In
\* these lemmas w are the chunks of pair p on their way, oldest first, and u what
\* the step of some pair q makes of them.
LEMMA SendFollows ==
  ASSUME NEW p \in Pairs, NEW k, NEW m \in Contents, NEW w \in Seq(Chunk),
         NEW t, NEW g, Following(w, t, g, p, m, k),
         NEW q \in Pairs, NEW x \in Contents, NEW n \in Nat, q # p \/ n # k
  PROVE  Following(w \o BuildChunks(q, x, ChunkLength, n), t, g, p, m, k)
<1> DEFINE v == BuildChunks(q, x, ChunkLength, n)
<1>1. v \in Seq(Chunk) /\ \A i \in DOMAIN v : PairOf(v[i]) = q /\ v[i].num = n
  BY ChunksOfOne, SMT, ZenonT(40)
<1>2. \A i \in DOMAIN v : ~ Belongs(v[i], p, k)
  BY <1>1 DEF Belongs
<1> HIDE DEF v
<1>3. Following(w \o v, t, g, p, m, k)
  BY <1>1, <1>2, FollowingMore
<1>4. QED
  BY <1>3 DEF v

LEMMA SentFollows ==
  ASSUME HistoryOK, SentKnown, WireKnown, NEW q \in Pairs, Send(q), NEW p \in Pairs,
         NEW k \in DOMAIN sent'[p], k \notin DOMAIN sent[p]
  PROVE  Following(wire'[p], rx', got'[p], p, sent'[p][k], k)
<1>1. PICK x \in Contents :
        /\ sent' = [sent EXCEPT ![q] = Append(@, x)]
        /\ wire' = [wire EXCEPT ![q] = @ \o BuildChunks(q, x, ChunkLength, Len(sent[q]) + 1)]
  BY DEF Send
<1> DEFINE n == Len(sent[p])
           w == wire[p]
<1>2. /\ sent[p] \in Seq(Contents) /\ n \in Nat /\ DOMAIN sent[p] = 1 .. n
      /\ w \in Seq(Chunk) /\ Len(w) \in Nat /\ DOMAIN w = 1 .. Len(w)
  BY LenProperties DEF SentKnown, HistoryOK
<1>3. p = q
  BY <1>1 DEF SentKnown
<1>4. sent'[p] = Append(sent[p], x)
  BY <1>1, <1>3 DEF SentKnown
<1>5. k = n + 1 /\ sent'[p][k] = x
  <2>1. DOMAIN Append(sent[p], x) = 1 .. n + 1 /\ Append(sent[p], x)[n + 1] = x
    BY <1>2
  <2>2. k \in 1 .. n + 1 /\ k \notin 1 .. n
    BY <1>2, <1>4, <2>1
  <2> HIDE DEF n
  <2>3. k = n + 1
    BY <1>2, <2>2
  <2>4. QED
    BY <1>4, <2>1, <2>3
<1>6. wire'[p] = w \o BuildChunks(p, x, ChunkLength, k)
  BY <1>1, <1>3, <1>5 DEF HistoryOK
<1>7. ASSUME NEW i \in DOMAIN w PROVE ~ Belongs(w[i], p, k)
  <2>1. w[i] \in Chunk
    BY <1>2, ElementOfSeq
  <2>2. w[i].num \in Nat /\ w[i].num <= n
    BY <2>1 DEF WireKnown, Chunk
  <2> HIDE DEF n, w
  <2>3. w[i].num # k
    BY <1>2, <1>5, <2>2
  <2>4. QED
    BY <2>3 DEF Belongs
<1>8. k \in Nat
  BY <1>2, <1>5
<1>9. Follows(wire'[p], p, x, k, Len(w), 0, Count(x))
  <2> HIDE DEF w
  <2>1. QED
    BY <1>2, <1>6, <1>7, <1>8, FollowsSend
<1>10. Len(w) \in 0 .. Len(wire'[p])
  <2> DEFINE v == BuildChunks(p, x, ChunkLength, k)
  <2>1. v \in Seq(Chunk)
    BY <1>8, BuildChunksType
  <2> HIDE DEF v, w
  <2>2. Len(w \o v) = Len(w) + Len(v) /\ Len(v) \in Nat
    BY <1>2, <2>1, ConcatProperties, LenProperties
  <2>3. Len(w) \in 0 .. Len(w \o v)
    BY <1>2, <2>2
  <2>4. QED
    BY <1>6, <2>3 DEF v
<1>11. QED
  BY <1>5, <1>9, <1>10 DEF Following, Coming

\* A chunk that arrives, is lost or is repeated is the next one of a message
\* that is being collected: none of another message can be.
LEMMA ArrivingIsNext ==
  ASSUME NEW w \in Seq(Chunk), NEW t, NEW p, NEW m \in Contents, NEW k, Arriving(w, t, p, m, k)
  PROVE  w # <<>> /\ Belongs(Head(w), p, k)
<1> DEFINE e == Count(m)
<1>1. PICK j \in 1 .. e - 1 : Follows(w, p, m, k, 0, j, e)
  BY DEF Arriving
<1>2. e \in Nat
  BY CountBounds
<1> HIDE DEF e
<1>3. j \in Nat /\ j < e /\ 0 \in Nat
  BY <1>2
<1>4. 0 + 1 \in DOMAIN w /\ Belongs(w[0 + 1], p, k)
  BY <1>1, <1>2, <1>3, FollowsHasChunk
<1>5. 1 \in DOMAIN w /\ Belongs(w[1], p, k)
  BY <1>4
<1>6. w # <<>> /\ Head(w) = w[1]
  BY <1>5
<1>7. QED
  BY <1>5, <1>6

LEMMA MishapFollows ==
  ASSUME NEW p \in Pairs, NEW k \in Nat \ {0}, NEW m \in Contents,
         NEW w \in Seq(Chunk), NEW u, Following(w, rx, got[p], p, m, k),
         NEW q \in Pairs, Lose(q) \/ Duplicate(q), <<p, k>> \notin harmed',
         IF q = p THEN /\ w # <<>> /\ Head(w) = Head(wire[p])
                       /\ u = Tail(w) \/ u = <<Head(w)>> \o w
                  ELSE u = w
  PROVE  Following(u, rx', got'[p], p, m, k)
<1>1. /\ rx' = rx /\ got' = got
      /\ harmed' = harmed \union {<<q, Head(wire[q]).num>>}
  BY DEF Lose, Duplicate, Harm
<1>2. CASE p = q
  <2> DEFINE ch == Head(w)
  <2>1. w # <<>> /\ ch \in Chunk /\ (u = Tail(w) \/ u = <<ch>> \o w)
    BY <1>2, HeadTailProperties
  <2>2. ~ Belongs(ch, p, k)
    BY <1>1, <1>2 DEF Belongs
  <2>3. Extends(got'[p], got[p])
    BY <1>1 DEF Extends
  <2>4. ~ Arriving(w, rx, p, m, k)
    BY <2>2, ArrivingIsNext
  <2>5. CASE u = Tail(w)
    <3>1. Following(Tail(w), rx', got'[p], p, m, k)
      BY <2>1, <2>2, <2>3, FollowingLess
    <3>2. QED
      BY <2>5, <3>1
  <2>6. CASE u = <<ch>> \o w
    <3> HIDE DEF ch
    <3>1. Following(<<ch>> \o w, rx', got'[p], p, m, k)
      BY <2>1, <2>2, <2>3, <2>4, FollowingOneMore
    <3>2. QED
      BY <2>6, <3>1
  <2>7. QED
    BY <2>1, <2>5, <2>6
<1>3. CASE p # q
  BY <1>1, <1>3
<1>4. QED
  BY <1>2, <1>3

\* What a foreign chunk or a restart may cost is harmed.
LEMMA CollectedOfPair ==
  ASSUME TableOK(rx, view), NEW p \in Pairs, NEW k, NEW m \in Contents,
         NEW w, Arriving(w, rx, p, m, k)
  PROVE  \E c \in Channels : /\ rx[c].in_use /\ c # view /\ rx[c].num = k
                             /\ <<rx[c].from, rx[c].to>> = p
<1>1. PICK j \in 1 .. Count(m) - 1 : \E c \in Channels : rx[c] = Collected(p, m, k, j)
  BY DEF Arriving
<1>2. PICK c \in Channels : rx[c] = Collected(p, m, k, j)
  BY <1>1
<1>3. rx[c].in_use /\ rx[c].from = p[1] /\ rx[c].to = p[2] /\ rx[c].num = k
  BY <1>2 DEF Collected
<1>4. ~ Complete(rx[c])
  <2>1. j \in 1 .. Count(m) /\ j # Count(m)
    BY CountBounds
  <2>2. QED
    BY <1>2, <2>1, CollectedComplete
<1>5. c # view
  BY <1>3, <1>4 DEF TableOK
<1>6. <<rx[c].from, rx[c].to>> = p
  BY <1>3, PairType
<1>7. QED
  BY <1>3, <1>5, <1>6

LEMMA IntrudeFollows ==
  ASSUME TableOK(rx, view), NEW p \in Pairs, NEW k \in Nat \ {0}, NEW m \in Contents,
         NEW w \in Seq(Chunk), NEW u, Following(w, rx, got[p], p, m, k),
         NEW q \in Pairs, Intrude(q), <<p, k>> \notin harmed',
         IF q = p THEN \E ch \in Noise : u = <<ch>> \o w ELSE u = w
  PROVE  Following(u, rx', got'[p], p, m, k)
<1>1. rx' = rx /\ got' = got
  BY DEF Intrude
<1>2. CASE p = q
  <2>1. PICK ch \in Noise : u = <<ch>> \o w
    BY <1>2
  <2>2. ch \in Chunk /\ ~ Belongs(ch, p, k)
    BY TrafficAssumption DEF Belongs
  <2>3. Extends(got'[p], got[p])
    BY <1>1 DEF Extends
  <2>4. ~ Arriving(w, rx, p, m, k)
    <3> SUFFICES ASSUME Arriving(w, rx, p, m, k) PROVE FALSE
      OBVIOUS
    <3>1. PICK c \in Channels : /\ rx[c].in_use /\ c # view /\ rx[c].num = k
                                /\ <<rx[c].from, rx[c].to>> = p
      BY CollectedOfPair
    <3>2. <<p, rx[c].num>> \in harmed'
      BY <1>2, <3>1 DEF Intrude
    <3>3. QED
      BY <3>1, <3>2
  <2>5. Following(<<ch>> \o w, rx', got'[p], p, m, k)
    BY <2>2, <2>3, <2>4, FollowingOneMore
  <2>6. QED
    BY <2>1, <2>5
<1>3. CASE p # q
  BY <1>1, <1>3
<1>4. QED
  BY <1>2, <1>3

LEMMA RestartFollows ==
  ASSUME TableOK(rx, view), NEW p \in Pairs, NEW k, NEW m \in Contents,
         NEW w, Following(w, rx, got[p], p, m, k), Restart, <<p, k>> \notin harmed'
  PROVE  Following(w, rx', got'[p], p, m, k)
<1>1. got' = got
  BY DEF Restart
<1>2. ~ Arriving(w, rx, p, m, k)
  <2> SUFFICES ASSUME Arriving(w, rx, p, m, k) PROVE FALSE
    OBVIOUS
  <2>1. PICK c \in Channels : /\ rx[c].in_use /\ c # view /\ rx[c].num = k
                              /\ <<rx[c].from, rx[c].to>> = p
    BY CollectedOfPair
  <2>2. << <<rx[c].from, rx[c].to>>, rx[c].num>> \in harmed'
    BY <2>1 DEF Restart
  <2>3. QED
    BY <2>1, <2>2
<1>3. QED
  BY <1>1, <1>2 DEF Following

\* The next chunk of the message is taken ...
LEMMA OwnChunkFollows ==
  ASSUME TableOK(rx, view), HistoryOK, NEW p \in Pairs, NEW k \in Nat \ {0}, NEW m \in Contents,
         NEW w \in Seq(Chunk), w # <<>>, Head(w) = Head(wire[p]),
         Acceptable(p, m), Following(w, rx, got[p], p, m, k), <<p, k>> \notin harmed',
         AddChunk(p), Belongs(Head(w), p, k)
  PROVE  Following(Tail(w), rx', got'[p], p, m, k)
<1> DEFINE e == Count(m)
<1>1. w \in Seq(Chunk) /\ w # <<>>
  OBVIOUS
<1>2. e \in Nat \ {0}
  BY CountBounds
<1>3. PICK j \in 0 .. e - 1 :
        /\ Follows(w, p, m, k, 0, j, e)
        /\ j = 0 \/ \E c \in Channels : rx[c] = Collected(p, m, k, j)
  <2>1. CASE Coming(w, p, m, k)
    <3>1. PICK a \in 0 .. Len(w) : Follows(w, p, m, k, a, 0, e)
      BY <2>1 DEF Coming
    <3> HIDE DEF e
    <3>2. a \in Nat /\ 0 \in Nat /\ e \in Nat
      BY <1>2
    <3>3. a = 0
      BY <1>1, <3>1, <3>2, FollowsFirst
    <3>4. 0 \in 0 .. e - 1
      BY <1>2
    <3>5. QED
      BY <3>1, <3>3, <3>4
  <2>2. CASE Arriving(w, rx, p, m, k)
    <3>1. PICK j \in 1 .. e - 1 : /\ Follows(w, p, m, k, 0, j, e)
                                 /\ \E c \in Channels : rx[c] = Collected(p, m, k, j)
      BY <2>2 DEF Arriving
    <3>2. j \in 0 .. e - 1
      BY <1>2
    <3>3. QED
      BY <3>1, <3>2
  <2>3. CASE HandedOver(w, got[p], p, m, k)
    <3>1. 1 \in DOMAIN w /\ w[1] = Head(w)
      BY <1>1, LenProperties
    <3>2. QED
      BY <2>3, <3>1 DEF HandedOver
  <2>4. QED
    BY <2>1, <2>2, <2>3 DEF Following
<1> HIDE DEF e
<1>4. j \in Nat /\ j < e /\ e \in Nat
  BY <1>2
<1>5. Head(w) = BuildChunk(p, m, ChunkLength, j, k) /\ Follows(Tail(w), p, m, k, 0, j + 1, e)
  BY <1>1, <1>3, <1>4, FollowsNext
<1>6. IF j + 1 = Count(m)
      THEN /\ got' = [got EXCEPT ![p] = Append(@, [id |-> m.id, data |-> m.data, num |-> k])]
           /\ view' # 0 => view' \in Channels /\ rx'[view'] = Collected(p, m, k, j + 1)
      ELSE view' = 0 /\ \E c \in Channels : rx'[c] = Collected(p, m, k, j + 1)
  BY <1>3, <1>5, OwnChunk DEF HistoryOK, e
<1>7. CASE j + 1 = e
  <2>1. Tail(w) \in Seq(Chunk)
    BY <1>1, HeadTailProperties
  <2>2. \A q \in DOMAIN Tail(w) : ~ Belongs(Tail(w)[q], p, k)
    <3>1. Follows(Tail(w), p, m, k, 0, e, e) /\ 0 \in Nat
      BY <1>5, <1>7
    <3>2. QED
      BY <1>4, <2>1, <3>1, FollowsEnd
  <2> DEFINE entry == [id |-> m.id, data |-> m.data, num |-> k]
             Entry == [id : Nat, data : Seq(Nat), num : Nat]
  <2>3. got[p] \in Seq(Entry) /\ got'[p] = Append(got[p], entry)
    BY <1>6, <1>7 DEF HistoryOK, e
  <2> HIDE DEF Entry
  <2>4. Len(got[p]) + 1 \in DOMAIN got'[p] /\ got'[p][Len(got[p]) + 1] = entry
    BY <2>3, LenProperties
  <2>5. HandedOver(Tail(w), got'[p], p, m, k)
    BY <2>2, <2>4 DEF HandedOver
  <2>6. QED
    BY <2>5 DEF Following
<1>8. CASE j + 1 # e
  <2>1. j + 1 \in 1 .. e - 1
    BY <1>2, <1>4, <1>8
  <2>2. Arriving(Tail(w), rx', p, m, k)
    BY <1>5, <1>6, <1>8, <2>1 DEF Arriving, e
  <2>3. QED
    BY <2>2 DEF Following
<1>9. QED
  BY <1>7, <1>8

\* ... or another chunk of this pair, or one of another pair.
LEMMA AddChunkFollows ==
  ASSUME TableOK(rx, view), HistoryOK, WireKnown,
         NEW p \in Pairs, NEW k \in Nat \ {0}, NEW m \in Contents,
         NEW w \in Seq(Chunk), NEW u, Following(w, rx, got[p], p, m, k),
         Acceptable(p, m), NEW q \in Pairs, AddChunk(q), <<p, k>> \notin harmed',
         IF q = p THEN w # <<>> /\ Head(w) = Head(wire[p]) /\ u = Tail(w) ELSE u = w
  PROVE  Following(u, rx', got'[p], p, m, k)
<1>1. Extends(got'[p], got[p])
  BY AddChunkExtends DEF HistoryOK
<1>2. CASE p = q
  <2>1. w # <<>> /\ Head(w) = Head(wire[p]) /\ u = Tail(w)
    BY <1>2
  <2>2. CASE Belongs(Head(w), p, k)
    <3>1. Following(Tail(w), rx', got'[p], p, m, k)
      BY <1>2, <2>1, <2>2, OwnChunkFollows
    <3>2. QED
      BY <2>1, <3>1
  <2>3. CASE ~ Belongs(Head(w), p, k)
    <3>1. Following(Tail(w), rx', got'[p], p, m, k)
      BY <1>1, <2>1, <2>3, FollowingLess
    <3>2. QED
      BY <2>1, <3>1
  <2>4. QED
    BY <2>2, <2>3
<1>3. CASE p # q
  <2>1. u = w
    BY <1>3
  <2>2. Head(wire[q]).id \in Nat /\ PairOf(Head(wire[q])) # p
    <3> DEFINE v == wire[q]
    <3>1. v \in Seq(Chunk) /\ v # <<>>
      BY DEF AddChunk, HistoryOK
    <3>2. Head(v) \in Chunk /\ 1 \in DOMAIN v /\ Head(v) = v[1]
      BY <3>1, LenProperties, HeadTailProperties
    <3>3. PairOf(v[1]) \notin Pairs \ {q}
      BY <3>2 DEF WireKnown
    <3>4. QED
      BY <1>3, <3>2, <3>3 DEF Chunk
  <2>3. CASE Arriving(w, rx, p, m, k)
    <3>1. PICK j \in 1 .. Count(m) - 1 :
            /\ Follows(w, p, m, k, 0, j, Count(m))
            /\ \E c \in Channels : rx[c] = Collected(p, m, k, j)
      BY <2>3 DEF Arriving
    <3>2. PICK c \in Channels : rx[c] = Collected(p, m, k, j)
      BY <3>1
    <3>3. rx'[c] = Collected(p, m, k, j)
      BY <2>2, <3>2, OtherPairsChunk
    <3>4. Arriving(w, rx', p, m, k)
      BY <3>1, <3>3 DEF Arriving
    <3>5. QED
      BY <2>1, <3>4 DEF Following
  <2>4. CASE HandedOver(w, got[p], p, m, k)
    <3>1. HandedOver(w, got'[p], p, m, k)
      BY <1>1, <2>4 DEF HandedOver, Extends
    <3>2. QED
      BY <2>1, <3>1 DEF Following
  <2>5. CASE Coming(w, p, m, k)
    BY <2>1, <2>5 DEF Following
  <2>6. QED
    BY <2>3, <2>4, <2>5 DEF Following
<1>4. QED
  BY <1>2, <1>3

LEMMA NextFollows ==
  ASSUME TableOK(rx, view), HistoryOK, SentKnown, WireKnown, [Next]_vars,
         NEW p \in Pairs, NEW k \in DOMAIN sent[p], MessageFollows(p, k),
         Acceptable(p, sent[p][k]), <<p, k>> \notin harmed'
  PROVE  Following(wire'[p], rx', got'[p], p, sent[p][k], k)
<1>1. /\ sent[p] \in Seq(Contents) /\ DOMAIN sent[p] = 1 .. Len(sent[p])
      /\ Len(sent[p]) \in Nat
  BY LenProperties DEF SentKnown
<1>2. PICK m \in Contents : m = sent[p][k]
  BY <1>1, ElementOfSeq
<1>3. k \in Nat \ {0} /\ k \in 1 .. Len(sent[p])
  BY <1>1
<1>4. Following(wire[p], rx, got[p], p, m, k)
  BY <1>2, HarmedStays DEF MessageFollows
<1>5. Acceptable(p, m)
  BY <1>2
<1> DEFINE w == wire[p]
           u == wire'[p]
<1>6. w \in Seq(Chunk)
  BY DEF HistoryOK
<1>7. ASSUME NEW q \in Pairs, Send(q) PROVE Following(u, rx', got'[p], p, m, k)
  <2>1. PICK x \in Contents :
          wire' = [wire EXCEPT ![q] = @ \o BuildChunks(q, x, ChunkLength, Len(sent[q]) + 1)]
    BY <1>7 DEF Send
  <2>2. rx' = rx /\ got' = got
    BY <1>7 DEF Send
  <2> DEFINE n == Len(sent[q]) + 1
  <2>3. n \in Nat /\ (q = p => n # k)
    <3>1. Len(sent[q]) \in Nat
      BY LenProperties DEF SentKnown
    <3>2. QED
      BY <1>3, <3>1
  <2>4. u = w \/ u = w \o BuildChunks(q, x, ChunkLength, n)
    BY <2>1 DEF HistoryOK
  <2> HIDE DEF n, w, u
  <2>5. Following(w \o BuildChunks(q, x, ChunkLength, n), rx, got[p], p, m, k)
    BY <1>4, <1>6, <2>3, SendFollows DEF w
  <2>6. QED
    BY <1>4, <2>2, <2>4, <2>5 DEF w
<1>8. ASSUME NEW q \in Pairs, Lose(q) \/ Duplicate(q)
      PROVE  Following(u, rx', got'[p], p, m, k)
  <2>1. IF q = p THEN /\ w # <<>> /\ Head(w) = Head(wire[p])
                      /\ u = Tail(w) \/ u = <<Head(w)>> \o w
                 ELSE u = w
    BY <1>8 DEF Lose, Duplicate, HistoryOK
  <2> HIDE DEF u
  <2>2. QED
    BY <1>3, <1>4, <1>6, <1>8, <2>1, MishapFollows
<1>9. ASSUME NEW q \in Pairs, Intrude(q) PROVE Following(u, rx', got'[p], p, m, k)
  <2>1. IF q = p THEN \E ch \in Noise : u = <<ch>> \o w ELSE u = w
    BY <1>9 DEF Intrude, HistoryOK
  <2> HIDE DEF u
  <2>2. QED
    BY <1>3, <1>4, <1>6, <1>9, <2>1, IntrudeFollows
<1>10. ASSUME NEW q \in Pairs, AddChunk(q) PROVE Following(u, rx', got'[p], p, m, k)
  <2>1. IF q = p THEN w # <<>> /\ Head(w) = Head(wire[p]) /\ u = Tail(w) ELSE u = w
    BY <1>10 DEF AddChunk, Taken, HistoryOK
  <2> HIDE DEF u
  <2>2. QED
    BY <1>3, <1>4, <1>5, <1>6, <1>10, <2>1, AddChunkFollows
<1>11. ASSUME Restart \/ UNCHANGED vars PROVE Following(u, rx', got'[p], p, m, k)
  <2>1. CASE Restart
    <3>1. u = w
      BY <2>1 DEF Restart
    <3>2. Following(w, rx', got'[p], p, m, k)
      BY <1>3, <1>4, <2>1, RestartFollows
    <3>3. QED
      BY <3>1, <3>2
  <2>2. CASE UNCHANGED vars
    BY <1>4, <2>2 DEF vars
  <2>3. QED
    BY <1>11, <2>1, <2>2
<1>12. Following(wire'[p], rx', got'[p], p, m, k)
  <2> HIDE DEF u
  <2>1. Following(u, rx', got'[p], p, m, k)
    BY <1>7, <1>8, <1>9, <1>10, <1>11 DEF Next
  <2>2. QED
    BY <2>1 DEF u
<1>13. QED
  BY <1>2, <1>12

LEMMA NextKnown ==
  ASSUME HistoryOK, SentKnown, WireKnown, [Next]_vars
  PROVE  SentKnown' /\ WireKnown'
<1>1. ASSUME NEW p \in Pairs, Send(p) PROVE SentKnown' /\ WireKnown'
  BY <1>1, SendKnown
<1>2. ASSUME NEW p \in Pairs, Lose(p) \/ AddChunk(p) PROVE SentKnown' /\ WireKnown'
  <2>1. wire[p] # <<>> /\ wire' = [wire EXCEPT ![p] = Tail(@)] /\ sent' = sent
    BY <1>2 DEF Lose, AddChunk, Taken
  <2>2. QED
    BY <2>1, TailKnown
<1>3. ASSUME NEW p \in Pairs, Duplicate(p) PROVE SentKnown' /\ WireKnown'
  <2> DEFINE w == wire[p]
             ch == Head(w)
  <2>1. w # <<>> /\ w \in Seq(Chunk) /\ sent' = sent
        /\ wire' = [wire EXCEPT ![p] = <<ch>> \o @]
    BY <1>3 DEF Duplicate, HistoryOK
  <2>2. ch \in Chunk /\ 1 \in DOMAIN w /\ ch = w[1]
    BY <2>1, LenProperties, HeadTailProperties
  <2>3. PairOf(ch) \notin Pairs \ {p} /\ ch.num <= Len(sent[p])
    BY <2>2 DEF WireKnown
  <2> HIDE DEF ch
  <2>4. QED
    BY <2>1, <2>2, <2>3, OneMoreKnown
<1>4. ASSUME NEW p \in Pairs, Intrude(p) PROVE SentKnown' /\ WireKnown'
  <2>1. PICK ch \in Noise : PairOf(ch) \notin Pairs \ {p} /\ wire' = [wire EXCEPT ![p] = <<ch>> \o @]
    BY <1>4 DEF Intrude
  <2>2. ch \in Chunk /\ ch.num <= Len(sent[p]) /\ sent' = sent
    <3>1. ch \in Chunk /\ ch.num = 0
      BY TrafficAssumption
    <3>2. Len(sent[p]) \in Nat
      BY LenProperties DEF SentKnown
    <3>3. QED
      BY <1>4, <3>1, <3>2 DEF Intrude
  <2>3. QED
    BY <2>1, <2>2, OneMoreKnown
<1>5. CASE Restart
  BY <1>5 DEF Restart, SentKnown, WireKnown
<1>6. CASE UNCHANGED vars
  BY <1>6 DEF vars, SentKnown, WireKnown
<1>7. QED
  BY <1>1, <1>2, <1>3, <1>4, <1>5, <1>6 DEF Next

LEMMA InitMessages == Init => MessagesFollow
<1> SUFFICES ASSUME Init PROVE MessagesFollow
  OBVIOUS
<1>1. SentKnown
  BY EmptySeq DEF Init, SentKnown
<1>2. \A p \in Pairs : DOMAIN wire[p] = {} /\ DOMAIN sent[p] = {}
  BY DEF Init
<1>3. QED
  BY <1>1, <1>2, MessagesParts DEF WireKnown

LEMMA NextMessages == ReassemblyInvariant /\ MessagesFollow /\ [Next]_vars => MessagesFollow'
<1> SUFFICES ASSUME ReassemblyInvariant, MessagesFollow, [Next]_vars PROVE MessagesFollow'
  OBVIOUS
<1>1. TableOK(rx, view) /\ HistoryOK
  BY InvariantParts
<1>2. SentKnown /\ WireKnown /\ \A p \in Pairs : \A k \in DOMAIN sent[p] : MessageFollows(p, k)
  BY MessagesParts
<1>3. SentKnown' /\ WireKnown'
  BY <1>1, <1>2, NextKnown
<1>4. ASSUME NEW p \in Pairs, NEW k \in DOMAIN sent'[p] PROVE MessageFollows(p, k)'
  <2> SUFFICES ASSUME Acceptable(p, sent'[p][k]), <<p, k>> \notin harmed'
               PROVE  Following(wire'[p], rx', got'[p], p, sent'[p][k], k)
    BY DEF MessageFollows, Acceptable
  <2>1. CASE k \in DOMAIN sent[p]
    <3>1. sent'[p][k] = sent[p][k]
      <4>1. sent' = sent \/ \E q \in Pairs : \E x : sent' = [sent EXCEPT ![q] = Append(@, x)]
        BY DEF Next, vars, Send, Lose, Duplicate, Intrude, AddChunk, Restart
      <4>2. CASE sent' = sent
        BY <4>2
      <4>3. ASSUME NEW q \in Pairs, NEW x, sent' = [sent EXCEPT ![q] = Append(@, x)]
            PROVE  sent'[p][k] = sent[p][k]
        <5>1. sent[p] \in Seq(Contents) /\ k \in 1 .. Len(sent[p])
          BY <1>2, <2>1, LenProperties DEF SentKnown
        <5>2. Append(sent[p], x)[k] = sent[p][k]
          BY <5>1
        <5>3. sent'[p] = sent[p] \/ sent'[p] = Append(sent[p], x)
          BY <1>2, <4>3 DEF SentKnown
        <5>4. QED
          BY <5>2, <5>3
      <4>4. QED
        BY <4>1, <4>2, <4>3
    <3>2. MessageFollows(p, k)
      BY <1>2, <2>1
    <3>3. Following(wire'[p], rx', got'[p], p, sent[p][k], k)
      BY <1>1, <1>2, <2>1, <3>1, <3>2, NextFollows
    <3>4. QED
      BY <3>1, <3>3
  <2>2. CASE k \notin DOMAIN sent[p]
    <3>1. PICK q \in Pairs : Send(q)
      <4>1. sent' # sent
        BY <2>2
      <4>2. QED
        BY <4>1 DEF Next, vars, Lose, Duplicate, Intrude, AddChunk, Restart
    <3>2. QED
      BY <1>1, <1>2, <2>2, <3>1, SentFollows
  <2>3. QED
    BY <2>1, <2>2
<1>5. QED
  BY <1>3, <1>4, MessagesPartsNext

\* With nothing of it on its way, a message can only have been handed over.
LEMMA OnlyHandedOver ==
  ASSUME NEW w \in Seq(Chunk), NEW t, NEW g, NEW p, NEW m \in Contents, NEW k,
         \A q \in DOMAIN w : ~ Belongs(w[q], p, k), Following(w, t, g, p, m, k)
  PROVE  \E i \in DOMAIN g : g[i] = [id |-> m.id, data |-> m.data, num |-> k]
<1>1. ~ Arriving(w, t, p, m, k)
  <2> SUFFICES ASSUME Arriving(w, t, p, m, k) PROVE FALSE
    OBVIOUS
  <2>1. w # <<>> /\ Belongs(Head(w), p, k)
    BY ArrivingIsNext
  <2>2. 1 \in DOMAIN w /\ Head(w) = w[1]
    BY <2>1, LenProperties
  <2>3. QED
    BY <2>1, <2>2
<1>2. ~ Coming(w, p, m, k)
  <2> SUFFICES ASSUME Coming(w, p, m, k) PROVE FALSE
    OBVIOUS
  <2> DEFINE e == Count(m)
  <2>1. PICK a \in 0 .. Len(w) : Follows(w, p, m, k, a, 0, e)
    BY DEF Coming
  <2>2. e \in Nat \ {0}
    BY CountBounds
  <2> HIDE DEF e
  <2>3. a \in Nat /\ 0 \in Nat /\ e \in Nat /\ 0 < e
    BY <2>2
  <2>4. a + 1 \in DOMAIN w /\ Belongs(w[a + 1], p, k)
    BY <2>1, <2>3, FollowsHasChunk
  <2>5. QED
    BY <2>4
<1>3. QED
  BY <1>1, <1>2 DEF Following, HandedOver

LEMMA FollowsDelivers == ReassemblyInvariant /\ MessagesFollow => UnharmedIsDelivered
<1> SUFFICES ASSUME ReassemblyInvariant, MessagesFollow,
                    NEW p \in Pairs, NEW k \in DOMAIN sent[p],
                    Acceptable(p, sent[p][k]), <<p, k>> \notin harmed,
                    \A q \in DOMAIN wire[p] : wire[p][q].num # k
             PROVE  [id |-> sent[p][k].id, data |-> sent[p][k].data, num |-> k]
                      \in {got[p][j] : j \in DOMAIN got[p]}
  BY DEF UnharmedIsDelivered
<1> DEFINE w == wire[p]
<1>1. w \in Seq(Chunk) /\ \A q \in DOMAIN w : ~ Belongs(w[q], p, k)
  BY DEF ReassemblyInvariant, TypeOK, Belongs
<1>2. PICK m \in Contents : m = sent[p][k]
  BY MessagesParts, ElementOfSeq, LenProperties DEF SentKnown
<1>3. Following(w, rx, got[p], p, m, k)
  BY <1>2, MessagesParts DEF MessageFollows
<1> HIDE DEF w
<1>4. \E i \in DOMAIN got[p] : got[p][i] = [id |-> m.id, data |-> m.data, num |-> k]
  BY <1>1, <1>3, OnlyHandedOver
<1>5. QED
  BY <1>2, <1>4

-----------------------------------------------------------------------------
(* What is handed over was announced, in the order of sending.             *)

Owner(b) == <<b.from, b.to>>

\* The parts of MessagesRise: the wire w of a pair p that has sent s and whose
\* messages up to l have passed; a reassembly b; the table.
WireRises(w, p, s, l) ==
  /\ \A i \in DOMAIN w : w[i].body \in Seq(Bytes)
  /\ \A i \in Firsts(w) :
       /\ PairOf(w[i]) = p
       /\ Announces(w[i].head, w[i].num, s)
       /\ w[i].num > l
       /\ \A j \in Firsts(w) : i < j => w[i].num < w[j].num

HeldRises(b, w, s) ==
  /\ Owner(b) \in Pairs /\ b.payload \in Seq(Bytes)
  /\ Announces(b, b.num, s[Owner(b)])
  /\ \A i \in Firsts(w[Owner(b)]) : b.num < w[Owner(b)][i].num

TableRises(t, v, w, s, l) ==
  \A c \in Channels : t[c].in_use =>
    HeldRises(t[c], w, s) /\ (c # v => t[c].num > l[Owner(t[c])])

LEMMA RiseParts ==
  MessagesRise <=>
    /\ SentKnown /\ HandedAsAnnounced
    /\ \A p \in Pairs : WireRises(wire[p], p, sent[p], Passed[p])
    /\ TableRises(rx, view, wire, sent, Passed)
BY Zenon DEF MessagesRise, SentKnown, WireRises, TableRises, HeldRises, Owner

LEMMA RisePartsNext ==
  /\ SentKnown' /\ HandedAsAnnounced'
  /\ \A p \in Pairs : WireRises(wire'[p], p, sent'[p], Passed'[p])
  /\ TableRises(rx', view', wire', sent', Passed')
  => MessagesRise'
BY Zenon DEF MessagesRise, SentKnown, WireRises, TableRises, HeldRises, Owner

\* The bytes of a chunk are bytes of the messages.
LEMMA BodyBytes ==
  ASSUME NEW m \in Contents, NEW k \in Nat
  PROVE  Body(m.data, ChunkLength, k) \in Seq(Bytes)
<1> DEFINE d == m.data
           begin == k * ChunkLength - HEADER_SIZE
           end == (k + 1) * ChunkLength - HEADER_SIZE
           a == (IF begin < 0 THEN 0 ELSE begin) + 1
           b == IF end < Len(d) THEN end ELSE Len(d)
<1>1. d \in Seq(Nat) /\ Len(d) \in Nat
  BY ContentsType
<1>2. \A i \in DOMAIN d : d[i] \in Bytes
  BY DEF Bytes
<1>3. begin \in Int /\ end \in Int
  <2>1. ChunkLength \in Int /\ k \in Int /\ k + 1 \in Int
    BY SenderAssumption DEF HEADER_SIZE, MESSAGE_MAXLEN
  <2>2. k * ChunkLength \in Int /\ (k + 1) * ChunkLength \in Int
    BY <2>1
  <2>3. QED
    BY <2>2 DEF HEADER_SIZE
<1>4. Body(d, ChunkLength, k) = SubSeq(d, a, b)
  BY DEF Body
<1> HIDE DEF begin, end
<1>5. a \in Nat \ {0} /\ b \in Int /\ b <= Len(d)
  BY <1>1, <1>3
<1> HIDE DEF a, b, d
<1>6. \A i \in a .. b : d[i] \in Bytes
  <2> SUFFICES ASSUME NEW i \in a .. b PROVE d[i] \in Bytes
    OBVIOUS
  <2>1. i \in DOMAIN d
    BY <1>1, <1>5, LenProperties
  <2>2. QED
    BY <1>2, <2>1
<1>7. SubSeq(d, a, b) \in Seq(Bytes)
  BY <1>5, <1>6, SubSeqProperties
<1>8. QED
  BY <1>4, <1>7 DEF d

\* More messages leave the announcements of the earlier ones true.
LEMMA AnnouncesMore ==
  ASSUME NEW s \in Seq(Contents), NEW m \in Contents, NEW x, NEW k, Announces(x, k, s)
  PROVE  Announces(x, k, Append(s, m))
<1>1. k \in DOMAIN s /\ DOMAIN s = 1 .. Len(s) /\ Len(s) \in Nat
  BY LenProperties DEF Announces
<1>2. k \in DOMAIN Append(s, m) /\ Append(s, m)[k] = s[k]
  BY <1>1
<1>3. QED
  BY <1>2 DEF Announces

LEMMA FirstsOfTail ==
  ASSUME NEW w \in Seq(Chunk), w # <<>>
  PROVE  /\ \A i \in DOMAIN Tail(w) : i \in Nat /\ i + 1 \in DOMAIN w /\ Tail(w)[i] = w[i + 1]
         /\ \A i \in Firsts(Tail(w)) : i \in Nat /\ i + 1 \in Firsts(w) /\ Tail(w)[i] = w[i + 1]
         /\ 1 \in DOMAIN w /\ Head(w) = w[1]
<1>1. /\ Len(w) \in Nat \ {0} /\ DOMAIN w = 1 .. Len(w) /\ DOMAIN Tail(w) = 1 .. Len(w) - 1
      /\ \A i \in 1 .. Len(w) - 1 : Tail(w)[i] = w[i + 1]
      /\ Head(w) = w[1]
  BY LenProperties, HeadTailProperties
<1>2. \A i \in DOMAIN Tail(w) : i \in Nat /\ i + 1 \in DOMAIN w /\ Tail(w)[i] = w[i + 1]
  BY <1>1
<1>3. QED
  BY <1>1, <1>2 DEF Firsts

\* A chunk that is taken or lost leaves the rest in order.
LEMMA WireRisesTail ==
  ASSUME NEW w \in Seq(Chunk), w # <<>>, NEW p, NEW s, NEW l, WireRises(w, p, s, l)
  PROVE  WireRises(Tail(w), p, s, l)
<1>1. \A i \in DOMAIN Tail(w) : Tail(w)[i].body \in Seq(Bytes)
  BY FirstsOfTail DEF WireRises
<1>2. ASSUME NEW i \in Firsts(Tail(w))
      PROVE  /\ PairOf(Tail(w)[i]) = p
             /\ Announces(Tail(w)[i].head, Tail(w)[i].num, s)
             /\ Tail(w)[i].num > l
             /\ \A j \in Firsts(Tail(w)) : i < j => Tail(w)[i].num < Tail(w)[j].num
  <2>1. i \in Nat /\ i + 1 \in Firsts(w) /\ Tail(w)[i] = w[i + 1]
    BY FirstsOfTail
  <2>2. ASSUME NEW j \in Firsts(Tail(w)), i < j PROVE Tail(w)[i].num < Tail(w)[j].num
    <3>1. j \in Nat /\ j + 1 \in Firsts(w) /\ Tail(w)[j] = w[j + 1]
      BY FirstsOfTail
    <3>2. i + 1 < j + 1
      BY <2>1, <2>2, <3>1
    <3>3. w[i + 1].num < w[j + 1].num
      BY <2>1, <3>1, <3>2 DEF WireRises
    <3>4. QED
      BY <2>1, <3>1, <3>3
  <2>3. QED
    BY <2>1, <2>2 DEF WireRises
<1>3. QED
  BY <1>1, <1>2 DEF WireRises

\* A message brings one first chunk, which announces it.
LEMMA ChunksRise ==
  ASSUME NEW p \in Pairs, NEW m \in Contents, NEW n \in Nat, NEW s \in Seq(Contents),
         n = Len(s) + 1
  PROVE  LET v == BuildChunks(p, m, ChunkLength, n)
         IN  /\ v \in Seq(Chunk)
             /\ \A i \in DOMAIN v : v[i].body \in Seq(Bytes)
             /\ \A i \in Firsts(v) : /\ i = 1 /\ PairOf(v[i]) = p /\ v[i].num = n
                                     /\ Announces(v[i].head, n, Append(s, m))
<1> DEFINE v == BuildChunks(p, m, ChunkLength, n)
<1>1. v \in Seq(Chunk)
  BY BuildChunksType
<1>2. Count(m) \in Nat
  BY CountBounds
<1>3. v = [i \in 1 .. Count(m) |-> BuildChunk(p, m, ChunkLength, i - 1, n)]
  BY DEF BuildChunks, Count
<1>4. ASSUME NEW i \in DOMAIN v
      PROVE  v[i].body \in Seq(Bytes) /\ (CanIdIsFirst(v[i].id) <=> i = 1)
             /\ PairOf(v[i]) = p /\ v[i].num = n
             /\ (i = 1 => v[i].head = [id |-> m.id, length |-> Len(m.data), crc |-> Checksum(m.data)])
  <2>1. i \in 1 .. Count(m) /\ v[i] = BuildChunk(p, m, ChunkLength, i - 1, n)
    BY <1>3
  <2> DEFINE j == i - 1
             ch == v[i]
  <2>2. j \in 0 .. Count(m) - 1 /\ j \in Nat /\ (j = 0 <=> i = 1)
    BY <1>2, <2>1
  <2>3. ch = BuildChunk(p, m, ChunkLength, j, n)
    BY <2>1
  <2> HIDE DEF j, ch
  <2>4. ch.num = n /\ ch.body = Body(m.data, ChunkLength, j)
    BY <2>2, <2>3, ChunkContent
  <2>5. PairOf(ch) = p /\ (CanIdIsFirst(ch.id) <=> j = 0)
    BY <2>2, <2>3, ChunkIdentity
  <2>6. ch.body \in Seq(Bytes)
    BY <2>2, <2>4, BodyBytes
  <2>7. j = 0 => ch.head = [id |-> m.id, length |-> Len(m.data), crc |-> Checksum(m.data)]
    BY <2>3 DEF BuildChunk
  <2>8. QED
    BY <2>2, <2>4, <2>5, <2>6, <2>7 DEF ch
<1> HIDE DEF v
<1>5. n \in DOMAIN Append(s, m) /\ Append(s, m)[n] = m
  BY LenProperties
<1>6. ASSUME NEW i \in Firsts(v)
      PROVE  /\ i = 1 /\ PairOf(v[i]) = p /\ v[i].num = n
             /\ Announces(v[i].head, n, Append(s, m))
  <2>1. i \in DOMAIN v /\ i = 1
    BY <1>4 DEF Firsts
  <2>2. v[i].head = [id |-> m.id, length |-> Len(m.data), crc |-> Checksum(m.data)]
    BY <1>4, <2>1
  <2>3. v[i].head.id = m.id /\ v[i].head.length = Len(m.data) /\ v[i].head.crc = Checksum(m.data)
    BY <2>2
  <2>4. QED
    BY <1>4, <1>5, <2>1, <2>3 DEF Announces
<1>7. QED
  BY <1>1, <1>4, <1>6 DEF v

\* How far a pair has come.
LEMMA PassedOf ==
  ASSUME HistoryOK, HandedAsAnnounced, SentKnown, NEW p \in Pairs
  PROVE  /\ DOMAIN got[p] = 1 .. Len(got[p]) /\ Len(got[p]) \in Nat
         /\ Passed[p] \in Nat /\ Passed[p] <= Len(sent[p])
         /\ \A i \in DOMAIN got[p] : /\ got[p][i].num \in DOMAIN sent[p]
                                     /\ got[p][i].num <= Passed[p]
<1> DEFINE g == got[p]
           Entry == [id : Nat, data : Seq(Nat), num : Nat]
<1>1. g \in Seq(Entry) /\ DOMAIN g = 1 .. Len(g) /\ Len(g) \in Nat
  BY LenProperties DEF HistoryOK
<1>2. DOMAIN sent[p] = 1 .. Len(sent[p]) /\ Len(sent[p]) \in Nat
  BY LenProperties DEF SentKnown
<1>3. \A i \in DOMAIN g : /\ g[i].num \in DOMAIN sent[p]
                         /\ \A j \in DOMAIN g : i < j => g[i].num < g[j].num
  BY DEF HandedAsAnnounced, Announces
<1>4. Passed[p] = IF g = <<>> THEN 0 ELSE g[Len(g)].num
  BY DEF Passed
<1> HIDE DEF g, Entry
<1>5. CASE g = <<>>
  <2>1. DOMAIN g = {}
    BY <1>5
  <2>2. QED
    BY <1>1, <1>2, <1>4, <1>5, <2>1 DEF g
<1>6. CASE g # <<>>
  <2>1. Len(g) \in DOMAIN g
    BY <1>1, <1>6, EmptySeq
  <2>2. g[Len(g)].num \in 1 .. Len(sent[p])
    BY <1>2, <1>3, <2>1
  <2>3. ASSUME NEW i \in DOMAIN g PROVE g[i].num <= g[Len(g)].num
    <3>1. CASE i = Len(g)
      BY <1>2, <2>2, <3>1
    <3>2. CASE i # Len(g)
      <4>1. i < Len(g) /\ g[i].num \in 1 .. Len(sent[p])
        BY <1>1, <1>2, <1>3, <3>2
      <4>2. g[i].num < g[Len(g)].num
        BY <1>3, <2>1, <4>1
      <4>3. QED
        BY <1>2, <2>2, <4>1, <4>2
    <3>3. QED
      BY <3>1, <3>2
  <2>4. QED
    BY <1>1, <1>2, <1>3, <1>4, <1>6, <2>2, <2>3 DEF g
<1>7. QED
  BY <1>5, <1>6

\* The messages that were handed over stay so.
LEMMA HandedStays ==
  ASSUME SentKnown, HandedAsAnnounced, got' = got,
         sent' = sent \/ \E q \in Pairs, m \in Contents : sent' = [sent EXCEPT ![q] = Append(@, m)]
  PROVE  HandedAsAnnounced'
<1>1. ASSUME NEW p \in Pairs, NEW x, NEW k, Announces(x, k, sent[p])
      PROVE  Announces(x, k, sent'[p])
  <2>1. ASSUME NEW m \in Contents, sent'[p] = Append(sent[p], m) PROVE Announces(x, k, sent'[p])
    BY <1>1, <2>1, AnnouncesMore DEF SentKnown
  <2>2. sent'[p] = sent[p] \/ \E m \in Contents : sent'[p] = Append(sent[p], m)
    BY DEF SentKnown
  <2>3. QED
    BY <1>1, <2>1, <2>2
<1>2. QED
  BY <1>1 DEF HandedAsAnnounced

LEMMA SendRises ==
  ASSUME TableOK(rx, view), HistoryOK, MessagesRise, NEW q \in Pairs, Send(q)
  PROVE  MessagesRise' /\ Passed' = Passed
<1>1. PICK m \in Contents :
        /\ sent' = [sent EXCEPT ![q] = Append(@, m)]
        /\ wire' = [wire EXCEPT ![q] = @ \o BuildChunks(q, m, ChunkLength, Len(sent[q]) + 1)]
  BY DEF Send
<1>2. /\ SentKnown /\ HandedAsAnnounced
      /\ \A p \in Pairs : WireRises(wire[p], p, sent[p], Passed[p])
      /\ TableRises(rx, view, wire, sent, Passed)
  BY RiseParts
<1>3. /\ got' = got /\ rx' = rx /\ view' = view /\ Passed' = Passed
  BY DEF Send, Passed
<1> DEFINE s == sent[q]
           n == Len(s) + 1
           w == wire[q]
           v == BuildChunks(q, m, ChunkLength, n)
           l == Passed[q]
<1>4. /\ s \in Seq(Contents) /\ DOMAIN s = 1 .. Len(s) /\ Len(s) \in Nat /\ n \in Nat
      /\ w \in Seq(Chunk) /\ l \in Nat /\ l <= Len(s)
  BY <1>2, PassedOf, LenProperties DEF SentKnown, HistoryOK
<1>5. /\ v \in Seq(Chunk)
      /\ \A i \in DOMAIN v : v[i].body \in Seq(Bytes)
      /\ \A i \in Firsts(v) : /\ i = 1 /\ PairOf(v[i]) = q /\ v[i].num = n
                              /\ Announces(v[i].head, n, Append(s, m))
  BY <1>4, ChunksRise
<1>6. WireRises(w, q, s, l)
  BY <1>2
<1>7. sent' = [sent EXCEPT ![q] = Append(s, m)] /\ wire' = [wire EXCEPT ![q] = w \o v]
  BY <1>1
<1>8. /\ sent'[q] = Append(s, m) /\ wire'[q] = w \o v
      /\ \A p \in Pairs : p # q => sent'[p] = sent[p] /\ wire'[p] = wire[p]
  BY <1>2, <1>7 DEF SentKnown, HistoryOK
<1> HIDE DEF s, w, v, l
<1> DEFINE u == w \o v
<1>9. /\ DOMAIN u = 1 .. Len(w) + Len(v) /\ Len(w) \in Nat /\ Len(v) \in Nat
      /\ DOMAIN w = 1 .. Len(w) /\ DOMAIN v = 1 .. Len(v)
      /\ \A i \in 1 .. Len(w) + Len(v) : u[i] = IF i <= Len(w) THEN w[i] ELSE v[i - Len(w)]
  BY <1>4, <1>5, ConcatProperties, LenProperties
<1> HIDE DEF u
\* A chunk of u is one of w, or the first one is the new one.
<1>10. ASSUME NEW i \in DOMAIN u
       PROVE  \/ i \in DOMAIN w /\ i <= Len(w) /\ u[i] = w[i]
              \/ i - Len(w) \in DOMAIN v /\ i > Len(w) /\ u[i] = v[i - Len(w)]
  BY <1>9
<1>11. \A i \in DOMAIN u : u[i].body \in Seq(Bytes)
  BY <1>5, <1>6, <1>10 DEF WireRises
<1>12. ASSUME NEW i \in Firsts(u)
       PROVE  \/ i \in Firsts(w) /\ i <= Len(w) /\ u[i] = w[i] /\ u[i].num \in 1 .. Len(s)
              \/ /\ i = Len(w) + 1 /\ PairOf(u[i]) = q /\ u[i].num = n
                 /\ Announces(u[i].head, n, Append(s, m))
  <2>1. CASE i \in DOMAIN w /\ i <= Len(w) /\ u[i] = w[i]
    <3>1. i \in Firsts(w)
      BY <2>1 DEF Firsts
    <3>2. w[i].num \in DOMAIN s
      BY <1>6, <3>1 DEF WireRises, Announces
    <3>3. QED
      BY <1>4, <2>1, <3>1, <3>2
  <2>2. CASE i - Len(w) \in DOMAIN v /\ i > Len(w) /\ u[i] = v[i - Len(w)]
    <3> DEFINE j == i - Len(w)
    <3>1. j \in Firsts(v) /\ u[i] = v[j]
      BY <2>2 DEF Firsts
    <3>2. i \in Nat
      BY <1>9 DEF Firsts
    <3>3. j = 1 => i = Len(w) + 1
      BY <1>9, <3>2
    <3> HIDE DEF j
    <3>4. QED
      BY <1>5, <3>1, <3>3
  <2>3. QED
    BY <1>10, <2>1, <2>2 DEF Firsts
<1>13. \A i \in Firsts(w) : \A x, k : Announces(x, k, s) => Announces(x, k, Append(s, m))
  BY <1>4, AnnouncesMore
<1>14. WireRises(u, q, Append(s, m), l)
  <2> SUFFICES ASSUME NEW i \in Firsts(u)
               PROVE  /\ PairOf(u[i]) = q
                      /\ Announces(u[i].head, u[i].num, Append(s, m))
                      /\ u[i].num > l
                      /\ \A j \in Firsts(u) : i < j => u[i].num < u[j].num
    BY <1>11 DEF WireRises
  <2>1. CASE i \in Firsts(w) /\ i <= Len(w) /\ u[i] = w[i] /\ u[i].num \in 1 .. Len(s)
    <3>1. /\ PairOf(u[i]) = q /\ Announces(u[i].head, u[i].num, Append(s, m)) /\ u[i].num > l
      BY <1>6, <1>13, <2>1 DEF WireRises
    <3>2. ASSUME NEW j \in Firsts(u), i < j PROVE u[i].num < u[j].num
      <4>1. CASE j \in Firsts(w) /\ u[j] = w[j]
        BY <1>6, <2>1, <3>2, <4>1 DEF WireRises
      <4>2. CASE u[j].num = n
        BY <1>4, <2>1, <4>2
      <4>3. QED
        BY <1>12, <4>1, <4>2
    <3>3. QED
      BY <3>1, <3>2
  <2>2. CASE /\ i = Len(w) + 1 /\ PairOf(u[i]) = q /\ u[i].num = n
             /\ Announces(u[i].head, n, Append(s, m))
    <3>1. u[i].num > l
      BY <1>4, <2>2
    <3>2. ASSUME NEW j \in Firsts(u), i < j PROVE FALSE
      <4>1. j \in Nat /\ (j <= Len(w) \/ j = Len(w) + 1)
        BY <1>9, <1>12 DEF Firsts
      <4>2. QED
        BY <1>9, <2>2, <3>2, <4>1
    <3>3. QED
      BY <2>2, <3>1, <3>2
  <2>3. QED
    BY <1>12, <2>1, <2>2
<1>15. \A p \in Pairs : WireRises(wire'[p], p, sent'[p], Passed'[p])
  <2> SUFFICES ASSUME NEW p \in Pairs PROVE WireRises(wire'[p], p, sent'[p], Passed'[p])
    OBVIOUS
  <2>1. CASE p = q
    BY <1>3, <1>8, <1>14, <2>1 DEF l, u
  <2>2. CASE p # q
    BY <1>2, <1>3, <1>8, <2>2
  <2>3. QED
    BY <2>1, <2>2
<1>16. ASSUME NEW c \in Channels, rx[c].in_use PROVE HeldRises(rx[c], wire', sent')
  <2> DEFINE b == rx[c]
             o == Owner(b)
  <2>1. HeldRises(b, wire, sent)
    BY <1>2, <1>16 DEF TableRises
  <2>2. CASE o = q
    <3>1. Announces(b, b.num, Append(s, m)) /\ b.num \in 1 .. Len(s)
      BY <1>4, <2>1, <2>2, AnnouncesMore DEF HeldRises, Announces, s
    <3>2. \A i \in Firsts(u) : b.num < u[i].num
      <4> SUFFICES ASSUME NEW i \in Firsts(u) PROVE b.num < u[i].num
        OBVIOUS
      <4>1. CASE i \in Firsts(w) /\ u[i] = w[i]
        BY <2>1, <2>2, <4>1 DEF HeldRises, w
      <4>2. CASE u[i].num = n
        BY <1>4, <3>1, <4>2
      <4>3. QED
        BY <1>12, <4>1, <4>2
    <3>3. QED
      BY <1>8, <2>1, <2>2, <3>1, <3>2 DEF HeldRises, u
  <2>3. CASE o # q
    BY <1>8, <2>1, <2>3 DEF HeldRises
  <2>4. QED
    BY <2>2, <2>3
<1>17. TableRises(rx', view', wire', sent', Passed')
  BY <1>2, <1>3, <1>16 DEF TableRises
<1>18. sent' \in [Pairs -> Seq(Contents)]
  BY <1>2, <1>4, <1>7, AppendProperties DEF SentKnown
<1>19. HandedAsAnnounced'
  BY <1>1, <1>2, <1>3, HandedStays
<1>20. QED
  BY <1>3, <1>15, <1>17, <1>18, <1>19, RisePartsNext DEF SentKnown

\* A reassembly stays in order when chunks leave the wire.
LEMMA HeldLess ==
  ASSUME HistoryOK, NEW b, HeldRises(b, wire, sent), NEW p \in Pairs, wire[p] # <<>>,
         wire' = [wire EXCEPT ![p] = Tail(@)]
  PROVE  HeldRises(b, wire', sent)
<1> DEFINE o == Owner(b)
<1>1. o \in Pairs /\ \A i \in Firsts(wire[o]) : b.num < wire[o][i].num
  BY DEF HeldRises
<1>2. \A i \in Firsts(wire'[o]) : b.num < wire'[o][i].num
  <2>1. CASE o = p
    <3>1. wire'[o] = Tail(wire[o]) /\ wire[o] \in Seq(Chunk) /\ wire[o] # <<>>
      BY <2>1 DEF HistoryOK
    <3> DEFINE w == wire[o]
    <3> HIDE DEF w
    <3>2. \A i \in Firsts(Tail(w)) : i + 1 \in Firsts(w) /\ Tail(w)[i] = w[i + 1]
      BY <3>1, FirstsOfTail DEF w
    <3>3. QED
      BY <1>1, <3>1, <3>2 DEF w
  <2>2. CASE o # p
    <3>1. wire'[o] = wire[o]
      BY <1>1, <2>2 DEF HistoryOK
    <3>2. QED
      BY <1>1, <3>1
  <2>3. QED
    BY <2>1, <2>2
<1>3. QED
  BY <1>2 DEF HeldRises

\* A chunk that a reassembly takes leaves it in order, whatever it is behind.
LEMMA FilledRises ==
  ASSUME TableOK(rx, view), HistoryOK, MessagesRise, NEW p \in Pairs, wire[p] # <<>>,
         wire' = [wire EXCEPT ![p] = Tail(@)],
         NEW ch, ch = Head(wire[p]), Available(Signature(ch.id)) # {}, ~ Refused(ch)
  PROVE  LET b == Filled(Found(Signature(ch.id)), ch)
         IN  HeldRises(b, wire', sent) /\ b.num > Passed[Owner(b)]
<1> DEFINE sig == Signature(ch.id)
           old == Found(sig)
           b == Filled(old, ch)
           w == wire[p]
<1>1. /\ WireRises(w, p, sent[p], Passed[p])
      /\ TableRises(rx, view, wire, sent, Passed)
  BY RiseParts
<1>2. /\ w \in Seq(Chunk) /\ w # <<>> /\ 1 \in DOMAIN w /\ ch = w[1]
      /\ \A i \in Firsts(Tail(w)) : i \in Nat /\ i + 1 \in Firsts(w) /\ Tail(w)[i] = w[i + 1]
  <2>1. w \in Seq(Chunk) /\ w # <<>>
    BY DEF HistoryOK
  <2> HIDE DEF w
  <2>2. QED
    BY <2>1, FirstsOfTail DEF w
<1>3. wire'[p] = Tail(w)
  BY DEF HistoryOK
<1>4. ch.body \in Seq(Bytes)
  BY <1>1, <1>2 DEF WireRises
<1>5. CASE CanIdIsFirst(ch.id)
  <2>1. 1 \in Firsts(w)
    BY <1>2, <1>5 DEF Firsts
  <2>2. /\ PairOf(ch) = p /\ Announces(ch.head, ch.num, sent[p]) /\ ch.num > Passed[p]
        /\ \A i \in Firsts(w) : 1 < i => ch.num < w[i].num
    BY <1>1, <1>2, <2>1 DEF WireRises
  <2>3. /\ b.from = CanIdFrom(ch.id) /\ b.to = CanIdTo(ch.id) /\ b.num = ch.num
        /\ b.id = ch.head.id /\ b.length = ch.head.length /\ b.crc = ch.head.crc
        /\ b.payload = ch.body
    BY <1>5 DEF Filled
  <2> HIDE DEF b, w
  <2>4. Owner(b) = p
    BY <2>2, <2>3 DEF Owner, PairOf
  <2>5. \A i \in Firsts(Tail(w)) : ch.num < Tail(w)[i].num
    <3> SUFFICES ASSUME NEW i \in Firsts(Tail(w)) PROVE ch.num < Tail(w)[i].num
      OBVIOUS
    <3>1. i \in DOMAIN Tail(w) /\ Len(Tail(w)) \in Nat /\ DOMAIN Tail(w) = 1 .. Len(Tail(w))
      BY <1>2, HeadTailProperties, LenProperties DEF Firsts
    <3>2. 1 < i + 1
      BY <3>1
    <3>3. QED
      BY <1>2, <2>2, <3>2
  <2>6. HeldRises(b, wire', sent)
    BY <1>3, <1>4, <2>2, <2>3, <2>4, <2>5 DEF HeldRises, Announces
  <2>7. b.num > Passed[Owner(b)]
    BY <2>2, <2>3, <2>4
  <2>8. QED
    BY <2>6, <2>7 DEF b
<1>6. CASE ~ CanIdIsFirst(ch.id)
  <2> DEFINE c == Chosen(sig)
  <2>1. old.id # ERROR_ID
    BY <1>6 DEF Refused, DataRefused
  <2>2. Holding(sig) # {}
    BY <2>1 DEF Found, NewBuffer, FreeBuffer
  <2>3. c \in Channels /\ Released[c].in_use /\ old = Released[c]
    BY <2>2, ChosenOK, ReleasedOK DEF Found
  <2>4. c # view /\ old = rx[c] /\ rx[c].in_use
    BY <2>3, FreeBufferType DEF Released
  <2>5. HeldRises(old, wire, sent) /\ old.num > Passed[Owner(old)]
    BY <1>1, <2>3, <2>4 DEF TableRises
  <2>6. old \in Buffer
    BY <2>3, <2>4 DEF TableOK
  <2>7. HeldRises(old, wire', sent)
    BY <2>5, HeldLess
  <2>8. b = [old EXCEPT !.payload = @ \o ch.body]
    BY <1>6 DEF Filled
  <2> HIDE DEF old, b
  <2>9. /\ b.from = old.from /\ b.to = old.to /\ b.num = old.num /\ b.id = old.id
        /\ b.length = old.length /\ b.crc = old.crc /\ b.payload = old.payload \o ch.body
    BY <2>6, <2>8 DEF Buffer
  <2>10. Owner(b) = Owner(old)
    BY <2>9 DEF Owner
  <2>11. b.payload \in Seq(Bytes)
    BY <1>4, <2>7, <2>9, ConcatProperties DEF HeldRises
  <2>12. HeldRises(b, wire', sent) /\ b.num > Passed[Owner(b)]
    BY <2>5, <2>7, <2>9, <2>10, <2>11 DEF HeldRises, Announces
  <2>13. QED
    BY <2>12 DEF b, old
<1>7. QED
  BY <1>5, <1>6

\* A message is handed over with what its header announced.
Handed(b) ==
  /\ HandOver(b) /\ Owner(b) \in Pairs /\ Complete(b)
  /\ Announces(b, b.num, sent[Owner(b)])
  /\ b.num > Passed[Owner(b)] /\ b.payload \in Seq(Bytes)

LEMMA HandedNext ==
  ASSUME HistoryOK, SentKnown, HandedAsAnnounced, NEW b, Handed(b), sent' = sent
  PROVE  /\ HandedAsAnnounced'
         /\ \A p \in Pairs : Passed'[p] = IF p = Owner(b) THEN b.num ELSE Passed[p]
<1> DEFINE o == Owner(b)
           x == [id |-> b.id, data |-> b.payload, num |-> b.num]
           g == got[o]
           h == Append(g, x)
           Entry == [id : Nat, data : Seq(Nat), num : Nat]
<1>1. got' = [got EXCEPT ![o] = h]
  BY DEF Handed, HandOver, Owner
<1>2. /\ o \in Pairs /\ Len(b.payload) = b.length /\ Checksum(b.payload) = b.crc
      /\ Announces(b, b.num, sent[o]) /\ b.num > Passed[o]
  BY DEF Handed, Complete
<1>3. g \in Seq(Entry)
  BY <1>2 DEF HistoryOK
<1>4. /\ DOMAIN g = 1 .. Len(g) /\ Len(g) \in Nat /\ Passed[o] \in Nat
      /\ \A i \in DOMAIN g : g[i].num \in DOMAIN sent[o] /\ g[i].num <= Passed[o]
  BY <1>2, PassedOf
<1>5. b.num \in 1 .. Len(sent[o]) /\ DOMAIN sent[o] = 1 .. Len(sent[o]) /\ Len(sent[o]) \in Nat
  BY <1>2, LenProperties DEF Announces, SentKnown
<1>6. got'[o] = h /\ \A p \in Pairs : p # o => got'[p] = got[p]
  BY <1>1, <1>2 DEF HistoryOK
<1>7. x.id = b.id /\ x.data = b.payload /\ x.num = b.num
  OBVIOUS
<1> HIDE DEF o, x, g, Entry
<1>8. /\ DOMAIN h = 1 .. Len(g) + 1 /\ Len(h) = Len(g) + 1 /\ h # <<>>
      /\ h[Len(g) + 1] = x /\ \A i \in 1 .. Len(g) : h[i] = g[i]
  BY <1>3, <1>4
<1> HIDE DEF h
<1>9. ASSUME NEW p \in Pairs PROVE Passed'[p] = IF p = o THEN b.num ELSE Passed[p]
  <2>1. CASE p = o
    <3>1. Passed'[p] = h[Len(h)].num
      BY <1>6, <1>8, <2>1 DEF Passed
    <3>2. QED
      BY <1>7, <1>8, <2>1, <3>1
  <2>2. CASE p # o
    BY <1>6, <2>2 DEF Passed
  <2>3. QED
    BY <2>1, <2>2
<1>10. HandedAsAnnounced'
  <2> DEFINE A(y) == [id |-> y.id, length |-> Len(y.data), crc |-> Checksum(y.data)]
  <2> SUFFICES ASSUME NEW p \in Pairs, NEW i \in DOMAIN got'[p]
               PROVE  /\ Announces(A(got'[p][i]), got'[p][i].num, sent[p])
                      /\ \A j \in DOMAIN got'[p] : i < j => got'[p][i].num < got'[p][j].num
    BY DEF HandedAsAnnounced
  <2>1. CASE p # o
    <3>1. got'[p] = got[p]
      BY <1>6, <2>1
    <3>2. QED
      BY <3>1 DEF HandedAsAnnounced
  <2>2. CASE p = o /\ i <= Len(g)
    <3>1. i \in DOMAIN g /\ h[i] = g[i] /\ got'[p] = h
      BY <1>4, <1>6, <1>8, <2>2
    <3>2. Announces(A(g[i]), g[i].num, sent[p])
      BY <2>2, <3>1 DEF HandedAsAnnounced, g
    <3>3. ASSUME NEW j \in DOMAIN h, i < j PROVE h[i].num < h[j].num
      <4>1. CASE j = Len(g) + 1
        <5>1. h[j].num = b.num /\ h[i].num \in Nat /\ h[i].num <= Passed[o]
          BY <1>4, <1>5, <1>7, <1>8, <3>1, <4>1
        <5>2. QED
          BY <1>2, <1>4, <1>5, <5>1
      <4>2. CASE j # Len(g) + 1
        <5>1. j \in DOMAIN g /\ h[j] = g[j]
          BY <1>4, <1>8, <4>2
        <5>2. QED
          BY <2>2, <3>1, <3>3, <5>1 DEF HandedAsAnnounced, g
      <4>3. QED
        BY <4>1, <4>2
    <3> HIDE DEF A
    <3>4. QED
      BY <3>1, <3>2, <3>3
  <2>3. CASE p = o /\ ~ (i <= Len(g))
    <3>1. i = Len(g) + 1 /\ h[i] = x /\ got'[p] = h
      BY <1>4, <1>6, <1>8, <2>3
    <3>2. A(x).id = b.id /\ A(x).length = b.length /\ A(x).crc = b.crc
      BY <1>2, <1>7
    <3> HIDE DEF A
    <3>3. Announces(A(x), x.num, sent[p])
      BY <1>2, <1>7, <2>3, <3>2 DEF Announces
    <3>4. \A j \in DOMAIN h : ~ (i < j)
      BY <1>4, <1>8, <3>1
    <3>5. QED
      BY <3>1, <3>3, <3>4
  <2>4. QED
    BY <2>1, <2>2, <2>3
<1>11. QED
  BY <1>9, <1>10 DEF o

LEMMA AddChunkRises ==
  ASSUME TableOK(rx, view), HistoryOK, MessagesRise, NEW p \in Pairs, AddChunk(p)
  PROVE  MessagesRise' /\ (UNCHANGED got \/ \E b : Handed(b))
<1> DEFINE ch == Head(wire[p])
           sig == Signature(ch.id)
           c == Chosen(sig)
           b == Filled(Found(sig), ch)
           Free == [Released EXCEPT ![c] = FreeBuffer]
           Full == [Released EXCEPT ![c] = b]
<1>1. /\ SentKnown /\ HandedAsAnnounced
      /\ \A q \in Pairs : WireRises(wire[q], q, sent[q], Passed[q])
      /\ TableRises(rx, view, wire, sent, Passed)
  BY RiseParts
<1>2. wire[p] # <<>> /\ wire' = [wire EXCEPT ![p] = Tail(@)] /\ sent' = sent
  BY DEF AddChunk, Taken
<1>3. \A q \in Pairs : WireRises(wire'[q], q, sent[q], Passed[q])
  <2> SUFFICES ASSUME NEW q \in Pairs PROVE WireRises(wire'[q], q, sent[q], Passed[q])
    OBVIOUS
  <2>1. wire[q] \in Seq(Chunk)
    BY DEF HistoryOK
  <2>2. CASE q = p
    <3>1. wire'[q] = Tail(wire[q]) /\ wire[q] # <<>>
      BY <1>2, <2>2 DEF HistoryOK
    <3>2. QED
      BY <1>1, <2>1, <3>1, WireRisesTail
  <2>3. CASE q # p
    BY <1>1, <1>2, <2>3 DEF HistoryOK
  <2>4. QED
    BY <2>2, <2>3
<1>4. \A d \in Channels : rx[d].in_use => HeldRises(rx[d], wire', sent)
  BY <1>1, <1>2, HeldLess DEF TableRises
<1>5. \A d \in Channels : Released[d].in_use => d # view /\ Released[d] = rx[d] /\ rx[d].in_use
  BY FreeBufferType DEF Released
<1>6. TableOK(Released, 0) /\ Released \in [Channels -> Buffer]
  BY ReleasedOK DEF TableOK
<1>7. SentKnown'
  BY <1>1, <1>2 DEF SentKnown
\* Nothing is handed over, and no reassembly is new or one is.
<1>8. ASSUME got' = got, TableRises(rx', view', wire', sent, Passed) PROVE MessagesRise'
  <2>1. HandedAsAnnounced'
    BY <1>1, <1>2, <1>8, HandedStays
  <2>2. Passed' = Passed
    BY <1>8 DEF Passed
  <2>3. QED
    BY <1>2, <1>3, <1>7, <1>8, <2>1, <2>2, RisePartsNext
<1>9. ASSUME view' = 0, \A d \in Channels : rx'[d].in_use => rx'[d] = Released[d]
      PROVE  TableRises(rx', view', wire', sent, Passed)
  BY <1>1, <1>4, <1>5, <1>9 DEF TableRises
<1>10. CASE AddInvalid(ch)
  <2>1. TableRises(rx', view', wire', sent, Passed)
    BY <1>1, <1>4, <1>10 DEF AddInvalid, TableRises
  <2>2. QED
    BY <1>8, <1>10, <2>1 DEF AddInvalid
<1>11. CASE AddUnrelated(ch) \/ AddWithoutChannel(p, ch)
  <2>1. rx' = Released /\ view' = 0 /\ got' = got
    BY <1>11 DEF AddUnrelated, AddWithoutChannel
  <2>2. QED
    BY <1>8, <1>9, <2>1
<1>12. CASE Available(sig) # {} /\ AddRefused(p, ch, c)
  <2>1. rx' = Free /\ view' = 0 /\ got' = got
    BY <1>12 DEF AddRefused
  <2>2. \A d \in Channels : rx'[d].in_use => rx'[d] = Released[d]
    BY <1>6, <2>1, FreeBufferType
  <2>3. QED
    BY <1>8, <1>9, <2>1, <2>2
<1>13. ASSUME Available(sig) # {}, ~ Refused(ch)
       PROVE  /\ c \in Channels
              /\ \A d \in Channels : Released[d].in_use /\ Released[d].sig = sig => d = c
              /\ b \in Buffer /\ b.sig = sig /\ HeldOK(b)
              /\ HeldRises(b, wire', sent) /\ b.num > Passed[Owner(b)]
  <2>1. ch \in Chunk
    BY <1>2, HeadTailProperties DEF HistoryOK
  <2>2. /\ c \in Channels
        /\ \A d \in Channels : Released[d].in_use /\ Released[d].sig = sig => d = c
    BY <1>6, <1>13, ChosenOK
  <2>3. b \in Buffer /\ b.sig = sig /\ HeldOK(b)
    BY <1>6, <1>13, <2>1, FilledOK
  <2>4. HeldRises(b, wire', sent) /\ b.num > Passed[Owner(b)]
    BY <1>2, <1>13, FilledRises
  <2>5. QED
    BY <2>2, <2>3, <2>4
<1>14. CASE Available(sig) # {} /\ AddStored(ch, c, b)
  <2>1. rx' = Full /\ view' = 0 /\ got' = got /\ ~ Refused(ch)
    BY <1>14 DEF AddStored
  <2>2. /\ c \in Channels /\ HeldRises(b, wire', sent) /\ b.num > Passed[Owner(b)]
    BY <1>13, <1>14, <2>1
  <2> HIDE DEF b, c
  <2>3. \A d \in Channels : rx'[d] = IF d = c THEN b ELSE Released[d]
    BY <1>6, <2>1
  <2>4. TableRises(rx', view', wire', sent, Passed)
    BY <1>1, <1>4, <1>5, <2>2, <2>3 DEF TableRises
  <2>5. QED
    BY <1>8, <2>1, <2>4
<1>15. CASE Available(sig) # {} /\ AddCompleted(p, ch, c, b)
  <2>1. /\ ~ Refused(ch) /\ Complete(b)
        /\ (rx' = Free /\ view' = 0) \/ (rx' = Full /\ view' = c)
        /\ HandOver(b) \/ (rx' = Free /\ view' = 0 /\ got' = got)
    <3> HIDE DEF b, c
    <3>1. ~ Refused(ch) /\ Complete(b)
      BY <1>15 DEF AddCompleted
    <3>2. \/ /\ rx' = [Released EXCEPT ![c] = FreeBuffer]
             /\ view' = 0
             /\ HandOver(b) \/ got' = got
          \/ /\ rx' = [Released EXCEPT ![c] = b]
             /\ view' = c
             /\ HandOver(b)
      BY <1>15 DEF AddCompleted
    <3>3. CASE /\ rx' = [Released EXCEPT ![c] = FreeBuffer]
               /\ view' = 0
               /\ HandOver(b) \/ got' = got
      BY <3>1, <3>3
    <3>4. CASE /\ rx' = [Released EXCEPT ![c] = b]
               /\ view' = c
               /\ HandOver(b)
      BY <3>1, <3>4
    <3>5. QED
      BY <3>2, <3>3, <3>4
  <2>2. /\ c \in Channels /\ b.sig = sig /\ HeldOK(b)
        /\ \A d \in Channels : Released[d].in_use /\ Released[d].sig = sig => d = c
        /\ HeldRises(b, wire', sent) /\ b.num > Passed[Owner(b)]
    BY <1>13, <1>15, <2>1
  <2> HIDE DEF b, c, sig
  <2>3. \A d \in Channels : d # c => rx'[d] = Released[d]
    BY <1>6, <2>1
  <2>4. CASE rx' = Free /\ view' = 0 /\ got' = got
    <3>1. \A d \in Channels : rx'[d].in_use => rx'[d] = Released[d]
      BY <1>6, <2>4, FreeBufferType
    <3>2. QED
      BY <1>8, <1>9, <2>4, <3>1
  <2>5. CASE HandOver(b)
    <3> DEFINE o == Owner(b)
    <3>1. Handed(b)
      BY <2>1, <2>2, <2>5 DEF Handed, HeldRises
    <3>2. /\ HandedAsAnnounced'
          /\ \A q \in Pairs : Passed'[q] = IF q = o THEN b.num ELSE Passed[q]
      BY <1>1, <1>2, <3>1, HandedNext
    <3>3. ASSUME NEW q \in Pairs PROVE WireRises(wire'[q], q, sent'[q], Passed'[q])
      <4>1. CASE q = o
        <5>1. \A i \in Firsts(wire'[q]) : wire'[q][i].num > b.num
          <6>1. \A i \in Firsts(wire'[q]) : b.num < wire'[q][i].num
            BY <2>2, <4>1 DEF HeldRises
          <6>2. QED
            BY <6>1
        <5>2. QED
          BY <1>2, <1>3, <3>2, <4>1, <5>1 DEF WireRises
      <4>2. CASE q # o
        BY <1>2, <1>3, <3>2, <4>2
      <4>3. QED
        BY <4>1, <4>2
    <3>4. ASSUME NEW d \in Channels, rx'[d].in_use
          PROVE  HeldRises(rx'[d], wire', sent') /\ (d # view' => rx'[d].num > Passed'[Owner(rx'[d])])
      <4>1. CASE d # c
        <5>1. /\ rx'[d] = Released[d] /\ d # view /\ Released[d] = rx[d] /\ rx[d].in_use
              /\ Released[d].in_use
          BY <1>5, <2>3, <3>4, <4>1
        <5>2. HeldRises(rx[d], wire', sent) /\ rx[d].num > Passed[Owner(rx[d])]
          BY <1>1, <1>4, <5>1 DEF TableRises
        <5>3. Owner(rx[d]) # o /\ Owner(rx[d]) \in Pairs
          <6>1. rx[d].sig = rx[d].to + rx[d].from * 4096 /\ b.sig = b.to + b.from * 4096
            BY <2>2, <5>1 DEF TableOK, HeldOK
          <6>2. Released[d].sig # sig
            BY <2>2, <4>1, <5>1
          <6>3. QED
            BY <2>2, <5>1, <5>2, <6>1, <6>2 DEF Owner, HeldRises
        <5>4. QED
          BY <1>2, <3>2, <5>1, <5>2, <5>3
      <4>2. CASE d = c
        <5>1. rx'[c] = b /\ view' = c
          BY <1>6, <2>1, <2>2, <3>4, <4>2, FreeBufferType
        <5>2. QED
          BY <1>2, <2>2, <4>2, <5>1
      <4>3. QED
        BY <4>1, <4>2
    <3>5. TableRises(rx', view', wire', sent', Passed')
      BY <3>4 DEF TableRises
    <3>6. QED
      BY <1>7, <3>1, <3>2, <3>3, <3>5, RisePartsNext
  <2>6. QED
    BY <2>1, <2>4, <2>5
<1>16. \/ AddInvalid(ch) \/ AddUnrelated(ch) \/ AddWithoutChannel(p, ch)
       \/ /\ Available(sig) # {}
          /\ AddRefused(p, ch, c) \/ AddStored(ch, c, b) \/ AddCompleted(p, ch, c, b)
  BY DEF AddChunk
<1>17. MessagesRise'
  BY <1>10, <1>11, <1>12, <1>14, <1>15, <1>16
<1>18. QED
  BY <1>10, <1>11, <1>12, <1>14, <1>15, <1>16

LEMMA LoseRises ==
  ASSUME TableOK(rx, view), HistoryOK, MessagesRise, NEW p \in Pairs, Lose(p)
  PROVE  MessagesRise'
<1>1. /\ SentKnown /\ HandedAsAnnounced
      /\ \A q \in Pairs : WireRises(wire[q], q, sent[q], Passed[q])
      /\ TableRises(rx, view, wire, sent, Passed)
  BY RiseParts
<1>2. /\ wire[p] # <<>> /\ wire' = [wire EXCEPT ![p] = Tail(@)]
      /\ sent' = sent /\ rx' = rx /\ view' = view /\ got' = got
  BY DEF Lose
<1>3. Passed' = Passed
  BY <1>2 DEF Passed
<1>4. ASSUME NEW q \in Pairs PROVE WireRises(wire'[q], q, sent'[q], Passed'[q])
  <2>1. wire[q] \in Seq(Chunk)
    BY DEF HistoryOK
  <2>2. CASE q = p
    <3>1. wire'[q] = Tail(wire[q]) /\ wire[q] # <<>>
      BY <1>2, <2>2 DEF HistoryOK
    <3>2. WireRises(Tail(wire[q]), q, sent[q], Passed[q])
      BY <1>1, <2>1, <3>1, WireRisesTail
    <3>3. QED
      BY <1>2, <1>3, <3>1, <3>2
  <2>3. CASE q # p
    BY <1>1, <1>2, <1>3, <2>3 DEF HistoryOK
  <2>4. QED
    BY <2>2, <2>3
<1>5. \A d \in Channels : rx[d].in_use => HeldRises(rx[d], wire', sent)
  BY <1>1, <1>2, HeldLess DEF TableRises
<1>6. TableRises(rx', view', wire', sent', Passed')
  BY <1>1, <1>2, <1>3, <1>5 DEF TableRises
<1>7. HandedAsAnnounced' /\ SentKnown'
  BY <1>1, <1>2, HandedStays DEF SentKnown
<1>8. QED
  BY <1>4, <1>6, <1>7, RisePartsNext

LEMMA RestartRises ==
  ASSUME MessagesRise, Restart
  PROVE  MessagesRise'
<1>1. /\ SentKnown /\ HandedAsAnnounced
      /\ \A q \in Pairs : WireRises(wire[q], q, sent[q], Passed[q])
  BY RiseParts
<1>2. /\ rx' = [c \in Channels |-> FreeBuffer] /\ wire' = wire /\ sent' = sent /\ got' = got
  BY DEF Restart
<1>3. Passed' = Passed
  BY <1>2 DEF Passed
<1>4. TableRises(rx', view', wire', sent', Passed')
  BY <1>2, FreeBufferType DEF TableRises
<1>5. HandedAsAnnounced' /\ SentKnown'
  BY <1>1, <1>2, HandedStays DEF SentKnown
<1>6. QED
  BY <1>1, <1>2, <1>3, <1>4, <1>5, RisePartsNext

LEMMA InitRises == Init => MessagesRise
<1> SUFFICES ASSUME Init PROVE MessagesRise
  OBVIOUS
<1>1. SentKnown /\ HandedAsAnnounced
  BY EmptySeq DEF Init, SentKnown, HandedAsAnnounced
<1>2. \A p \in Pairs : WireRises(wire[p], p, sent[p], Passed[p])
  BY DEF Init, WireRises, Firsts
<1>3. TableRises(rx, view, wire, sent, Passed)
  BY FreeBufferType DEF Init, TableRises
<1>4. QED
  BY <1>1, <1>2, <1>3, RiseParts

\* Without repeats a step sends a message, hands one over, or does neither.
LEMMA NextRises ==
  ASSUME NoRepeats, ReassemblyInvariant, MessagesRise, [Next]_vars
  PROVE  /\ MessagesRise'
         /\ \/ \E p \in Pairs : Send(p)
            \/ UNCHANGED sent /\ (UNCHANGED got \/ \E b : Handed(b))
<1>1. TableOK(rx, view) /\ HistoryOK
  BY InvariantParts
<1> DEFINE Goal == /\ MessagesRise'
                   /\ \/ \E p \in Pairs : Send(p)
                      \/ UNCHANGED sent /\ (UNCHANGED got \/ \E b : Handed(b))
<1>2. ASSUME NEW p \in Pairs, Send(p) PROVE Goal
  BY <1>1, <1>2, SendRises
<1>3. ASSUME NEW p \in Pairs, Lose(p) PROVE Goal
  BY <1>1, <1>3, LoseRises DEF Lose
<1>4. ASSUME NEW p \in Pairs, Duplicate(p) \/ Intrude(p) PROVE FALSE
  BY <1>4 DEF NoRepeats, Duplicate, Intrude, Mishap
<1>5. ASSUME NEW p \in Pairs, AddChunk(p) PROVE Goal
  BY <1>1, <1>5, AddChunkRises DEF AddChunk
<1>6. CASE Restart
  BY <1>6, RestartRises DEF Restart
<1>7. CASE UNCHANGED vars
  <2>1. UNCHANGED <<wire, rx, view, sent, got>>
    BY <1>7 DEF vars
  <2>2. MessagesRise'
    BY <2>1 DEF MessagesRise, HandedAsAnnounced, Passed
  <2>3. QED
    BY <2>1, <2>2
<1>8. QED
  BY <1>2, <1>3, <1>4, <1>5, <1>6, <1>7 DEF Next

-----------------------------------------------------------------------------
(* The protocol as a lossy message stream.                                 *)

\* What is handed over is a later message of its pair than the one before.
LEMMA HandedIsSent ==
  ASSUME HistoryOK, SentKnown, HandedAsAnnounced, Telling, NEW b, Handed(b), sent' = sent
  PROVE  LossyService!Deliver(Owner(b))
<1> DEFINE o == Owner(b)
           k == b.num
           m == sent[o][k]
           x == [id |-> b.id, data |-> b.payload, num |-> b.num]
           g == got[o]
           h == Append(g, x)
           Entry == [id : Nat, data : Seq(Nat), num : Nat]
           plain == [j \in DOMAIN g |-> [id |-> g[j].id, data |-> g[j].data]]
<1>1. /\ o \in Pairs /\ Complete(b) /\ k > Passed[o] /\ b.payload \in Seq(Bytes)
      /\ k \in DOMAIN sent[o] /\ b.id = m.id /\ b.length = Len(m.data) /\ b.crc = Checksum(m.data)
  BY DEF Handed, Announces
<1>2. got' = [got EXCEPT ![o] = h]
  BY DEF Handed, HandOver, Owner
<1>3. m \in Contents /\ k \in 1 .. Len(sent[o]) /\ Len(sent[o]) \in Nat
  BY <1>1, LenProperties, ElementOfSeq DEF SentKnown
<1>4. b.payload = m.data
  <2>1. Len(b.payload) = Len(m.data) /\ Checksum(b.payload) = Checksum(m.data)
    BY <1>1 DEF Complete
  <2>2. b.payload \in [1 .. Len(m.data) -> Bytes]
    BY <1>1, <2>1, LenProperties
  <2>3. QED
    BY <1>3, <2>1, <2>2 DEF Telling
<1>5. m = [id |-> b.id, data |-> b.payload]
  <2>1. m \in Message
    BY <1>3, TrafficAssumption
  <2>2. QED
    BY <1>1, <1>4, <2>1 DEF Message
<1>6. g \in Seq(Entry) /\ Len(g) \in Nat /\ DOMAIN g = 1 .. Len(g)
  BY <1>1 DEF HistoryOK
<1>7. Passed[o] \in Nat /\ \A p \in Pairs : Passed'[p] = IF p = o THEN k ELSE Passed[p]
  BY <1>1, PassedOf, HandedNext
<1>8. x.id = b.id /\ x.data = b.payload
  OBVIOUS
<1> HIDE DEF o, k, m, x, g, Entry
<1>9. DOMAIN h = 1 .. Len(g) + 1 /\ h[Len(g) + 1] = x /\ \A j \in 1 .. Len(g) : h[j] = g[j]
  BY <1>6
<1>10. got'[o] = h /\ \A p \in Pairs : p # o => got'[p] = got[p]
  BY <1>1, <1>2 DEF HistoryOK
<1>11. [j \in DOMAIN h |-> [id |-> h[j].id, data |-> h[j].data]] = Append(plain, m)
  <2>1. Len(plain) = Len(g) /\ plain \in Seq({[id |-> g[j].id, data |-> g[j].data] : j \in DOMAIN g})
    BY <1>6
  <2>2. /\ DOMAIN Append(plain, m) = 1 .. Len(g) + 1
        /\ Append(plain, m)[Len(g) + 1] = m
        /\ \A j \in 1 .. Len(g) : Append(plain, m)[j] = plain[j]
    BY <1>6, <2>1, AppendProperties
  <2>3. QED
    BY <1>5, <1>6, <1>8, <1>9, <2>2
<1> HIDE DEF h
<1>12. Delivered' = [Delivered EXCEPT ![o] = Append(@, m)]
  <2>1. Delivered[o] = plain
    BY <1>1 DEF Delivered, g
  <2>2. Delivered'[o] = Append(plain, m)
    BY <1>1, <1>10, <1>11 DEF Delivered
  <2>3. \A p \in Pairs : p # o => Delivered'[p] = Delivered[p]
    BY <1>10 DEF Delivered
  <2>4. QED
    BY <1>1, <2>1, <2>2, <2>3 DEF Delivered
<1>13. Passed' = [Passed EXCEPT ![o] = k]
  BY <1>1, <1>7 DEF Passed
<1>14. k \in Passed[o] + 1 .. Len(sent[o])
  BY <1>1, <1>3, <1>7
<1>15. QED
  BY <1>12, <1>13, <1>14 DEF LossyService!Deliver, o, k, m

\* Without repeats every step is one of the stream, or none.
LEMMA StepIsStreamed ==
  ASSUME NoRepeats, Telling, ReassemblyInvariant, MessagesRise, [Next]_vars
  PROVE  [LossyService!Next]_(LossyService!vars)
<1>1. TableOK(rx, view) /\ HistoryOK /\ SentKnown /\ HandedAsAnnounced
  BY InvariantParts, RiseParts
<1>2. ASSUME NEW p \in Pairs, Send(p) PROVE LossyService!Send(p)
  <2>1. got' = got /\ \E m \in Contents : sent' = [sent EXCEPT ![p] = Append(@, m)]
    BY <1>2 DEF Send
  <2>2. Passed' = Passed /\ Delivered' = Delivered
    BY <2>1 DEF Passed, Delivered
  <2>3. QED
    BY <2>1, <2>2 DEF LossyService!Send
<1>3. ASSUME NEW b, Handed(b), UNCHANGED sent PROVE LossyService!Next
  BY <1>1, <1>3, HandedIsSent DEF LossyService!Next, Handed
<1>4. CASE UNCHANGED <<sent, got>>
  BY <1>4 DEF LossyService!vars, Passed, Delivered
<1>5. QED
  BY <1>2, <1>3, <1>4, NextRises DEF LossyService!Next

-----------------------------------------------------------------------------
(* The theorems.                                                           *)

\* The table of reassemblies stays in order and every variable keeps its type,
\* for any number of channels, any checksum and any chunks on the wire:
\* rx_add_chunk never writes past the announced length or the memory of a
\* reassembly, never gives a pair two of them, and leaves none behind.
THEOREM ReassembliesInOrder == Spec => []ReassemblyInvariant
BY InitInvariant, NextInvariant, PTL DEF Spec

\* A message that no mishap and no full table has touched is handed over when
\* nothing of it is on its way any more, for any table, any chunk length, any
\* checksum and any foreign chunks: rx_add_chunk does not lose a message for
\* which it has a reassembly, and what is left there of a message before never
\* spoils it.  What is left of messages of other pairs may well fill the table.
THEOREM UnharmedMessagesArrive == Spec => []UnharmedIsDelivered
<1>1. Init => ReassemblyInvariant /\ MessagesFollow
  BY InitInvariant, InitMessages
<1>2. ReassemblyInvariant /\ MessagesFollow /\ [Next]_vars
        => ReassemblyInvariant' /\ MessagesFollow'
  BY NextInvariant, NextMessages
<1>3. QED
  BY <1>1, <1>2, FollowsDelivers, PTL DEF Spec

\* Over a wire that repeats nothing and makes nothing up, whatever it loses and
\* wherever memory is short: a message is handed over under the identifier of a
\* sent one, with the length and the CRC which that one had, and the messages of
\* a pair in the order of sending, none of them twice.
THEOREM HandedOverAsAnnounced == NoRepeats => (Spec => []HandedAsAnnounced)
<1> SUFFICES ASSUME NoRepeats PROVE Spec => []HandedAsAnnounced
  OBVIOUS
<1>1. Init => ReassemblyInvariant /\ MessagesRise
  BY InitInvariant, InitRises
<1>2. ReassemblyInvariant /\ MessagesRise /\ [Next]_vars => ReassemblyInvariant' /\ MessagesRise'
  BY NextInvariant, NextRises
<1>3. MessagesRise => HandedAsAnnounced
  BY DEF MessagesRise
<1>4. QED
  BY <1>1, <1>2, <1>3, PTL DEF Spec

\* The protocol implements a lossy message stream when in addition the checksum
\* tells every message from whatever else of its length could come together.
THEOREM LossyIsStream == NoRepeats /\ Telling => (Spec => LossyStream)
<1> SUFFICES ASSUME NoRepeats, Telling PROVE Spec => LossyStream
  OBVIOUS
<1>1. Init => ReassemblyInvariant /\ MessagesRise
  BY InitInvariant, InitRises
<1>2. Init => LossyService!Init
  BY DEF Init, LossyService!Init, Passed, Delivered
<1>3. ReassemblyInvariant /\ MessagesRise /\ [Next]_vars
        => ReassemblyInvariant' /\ MessagesRise' /\ [LossyService!Next]_(LossyService!vars)
  BY NextInvariant, NextRises, StepIsStreamed
<1>4. QED
  BY <1>1, <1>2, <1>3, PTL DEF Spec, LossyStream, LossyService!Spec

(***************************************************************************)
(* The queued plexer.                                                      *)
(***************************************************************************)

-----------------------------------------------------------------------------
(* The parts of the invariant.                                             *)

SendersOK ==
  /\ outbox \in [Senders -> Rings(OutboxSize, Chunk)]
  /\ attempts \in [Senders -> 0 .. SendAttempts]
  /\ queued \in [Senders -> Seq(Chunk)]
  /\ left \in [Senders -> Seq(Chunk)]
  /\ OutboxKeepsOrder

InboxOK ==
  /\ inbox \in Rings(InboxSize, InboxMessage)
  /\ busy \in BOOLEAN
  /\ kept \in Seq(InboxMessage)
  /\ handed \in Seq(InboxMessage)
  /\ InboxKeepsOrder
  /\ EventMessageStays

LEMMA QueueParts ==
  QueueInvariant <=> TableOK(rx, view) /\ HistoryOK /\ SendersOK /\ InboxOK
BY InvariantParts DEF QueueInvariant, QueueTypeOK, SendersOK, InboxOK

LEMMA QueuePartsNext ==
  TableOK(rx', view') /\ HistoryOK' /\ SendersOK' /\ InboxOK' => QueueInvariant'
BY InvariantPartsNext DEF QueueInvariant, QueueTypeOK, SendersOK, InboxOK

LEMMA ReceiverUnchanged ==
  ASSUME TableOK(rx, view), HistoryOK, UNCHANGED protocolVars
  PROVE  TableOK(rx', view') /\ HistoryOK'
BY DEF protocolVars, HistoryOK

LEMMA SendersUnchanged ==
  ASSUME SendersOK, UNCHANGED senderVars
  PROVE  SendersOK'
BY DEF senderVars, SendersOK, OutboxKeepsOrder

LEMMA InboxUnchanged ==
  ASSUME InboxOK, UNCHANGED <<inbox, busy, kept, handed>>
  PROVE  InboxOK'
BY DEF InboxOK, InboxKeepsOrder, EventMessageStays, Finished

-----------------------------------------------------------------------------
(* The sending half.                                                       *)

LEMMA SenderOfPair ==
  ASSUME NEW p \in Pairs
  PROVE  p[1] \in Senders
BY DEF Senders

LEMMA QueueSendStep ==
  ASSUME TableOK(rx, view), HistoryOK, SendersOK, InboxOK, NEW p \in Pairs, QueueSend(p)
  PROVE  TableOK(rx', view') /\ HistoryOK' /\ SendersOK' /\ InboxOK'
<1> DEFINE n == p[1]
           num == Len(sent[p]) + 1
<1>1. PICK m \in Contents :
        LET chunks == BuildChunks(p, m, ChunkLength, num)
        IN  /\ HasRoom(n, chunks)
            /\ outbox' = [outbox EXCEPT ![n] = RingPut(@, OutboxSize, chunks)]
            /\ queued' = [queued EXCEPT ![n] = @ \o chunks]
            /\ sent' = [sent EXCEPT ![p] = Append(@, m)]
  BY DEF QueueSend
<1> DEFINE chunks == BuildChunks(p, m, ChunkLength, num)
           r == outbox[n]
<1>2. n \in Senders
  BY SenderOfPair
<1>3. m \in Message /\ sent[p] \in Seq(Message)
  BY TrafficAssumption DEF HistoryOK
<1>4. num \in Nat
  BY <1>3, LenProperties
<1> HIDE DEF num, n
<1>5. chunks \in Seq(Chunk)
  BY <1>4, BuildChunksType
<1>6. r \in Rings(OutboxSize, Chunk) /\ r.count + Len(chunks) <= OutboxSize
  BY <1>1, <1>2 DEF SendersOK, HasRoom
<1> HIDE DEF chunks, r
<1>7. /\ RingPut(r, OutboxSize, chunks) \in Rings(OutboxSize, Chunk)
      /\ RingContents(RingPut(r, OutboxSize, chunks), OutboxSize)
           = RingContents(r, OutboxSize) \o chunks
      /\ RingContents(r, OutboxSize) \in Seq(Chunk)
  BY <1>5, <1>6, QueueAssumption, RingPutAppends, RingContentsType
<1>8. /\ outbox' = [outbox EXCEPT ![n] = RingPut(r, OutboxSize, chunks)]
      /\ queued' = [queued EXCEPT ![n] = queued[n] \o chunks]
      /\ sent' = [sent EXCEPT ![p] = Append(sent[p], m)]
      /\ left' = left /\ attempts' = attempts
  BY <1>1 DEF chunks, r, QueueSend
<1>9. queued[n] \in Seq(Chunk) /\ left[n] \in Seq(Chunk)
      /\ queued[n] = left[n] \o RingContents(r, OutboxSize)
  BY <1>2 DEF SendersOK, OutboxKeepsOrder, r
<1>10. queued[n] \o chunks = left[n] \o RingContents(RingPut(r, OutboxSize, chunks), OutboxSize)
  <2> DEFINE l == left[n]
             C == RingContents(r, OutboxSize)
  <2>1. l \in Seq(Chunk) /\ C \in Seq(Chunk)
    BY <1>7, <1>9
  <2>2. queued[n] = l \o C
    BY <1>9
  <2>3. RingContents(RingPut(r, OutboxSize, chunks), OutboxSize) = C \o chunks
    BY <1>7
  <2> HIDE DEF l, C
  <2>4. (l \o C) \o chunks = l \o (C \o chunks)
    BY <1>5, <2>1, ConcatAssociative
  <2>5. QED
    BY <2>2, <2>3, <2>4 DEF l
<1>11. queued[n] \o chunks \in Seq(Chunk)
  BY <1>5, <1>9, ConcatProperties
<1>12. OutboxKeepsOrder'
  <2> SUFFICES ASSUME NEW k \in Senders
               PROVE  queued'[k] = left'[k] \o RingContents(outbox'[k], OutboxSize)
    BY DEF OutboxKeepsOrder
  <2>1. CASE k = n
    BY <1>2, <1>8, <1>10, <2>1 DEF SendersOK
  <2>2. CASE k # n
    BY <1>8, <2>2 DEF SendersOK, OutboxKeepsOrder
  <2>3. QED
    BY <2>1, <2>2
<1>13. SendersOK'
  BY <1>7, <1>8, <1>11, <1>12 DEF SendersOK
<1>14. HistoryOK'
  <2>1. Append(sent[p], m) \in Seq(Message)
    BY <1>3, AppendProperties
  <2>2. QED
    BY <1>8, <2>1 DEF HistoryOK, QueueSend
<1>15. QED
  BY <1>13, <1>14, InboxUnchanged DEF QueueSend, inboxVars

\* Taking the oldest chunk out of the outbox keeps the order.
LEMMA OutboxPopStep ==
  ASSUME SendersOK, NEW n \in Senders, outbox[n].count > 0, OutboxPop(n), queued' = queued
  PROVE  OldestChunk(n) \in Chunk /\ SendersOK'
<1> DEFINE r == outbox[n]
           e == OldestChunk(n)
           C == RingContents(r, OutboxSize)
           D == RingContents(RingPop(r, OutboxSize), OutboxSize)
<1>1. r \in Rings(OutboxSize, Chunk) /\ e = r.slots[r.head] /\ r.count > 0
  BY DEF SendersOK, OldestChunk
<1>2. /\ outbox' = [outbox EXCEPT ![n] = RingPop(r, OutboxSize)]
      /\ attempts' = [attempts EXCEPT ![n] = 0]
      /\ left' = [left EXCEPT ![n] = Append(left[n], e)]
  BY DEF OutboxPop
<1> HIDE DEF r, e
<1>3. /\ RingPop(r, OutboxSize) \in Rings(OutboxSize, Chunk)
      /\ e \in Chunk /\ C = <<e>> \o D
  BY <1>1, QueueAssumption, RingPopTakesHead
<1>4. D \in Seq(Chunk)
  BY <1>3, QueueAssumption, RingContentsType
<1> HIDE DEF D
<1>5. left[n] \in Seq(Chunk) /\ queued[n] = left[n] \o C
  BY DEF SendersOK, OutboxKeepsOrder, r
<1> HIDE DEF C
<1>6. <<e>> \in Seq(Chunk) /\ Append(left[n], e) = left[n] \o <<e>>
      /\ Append(left[n], e) \in Seq(Chunk)
  BY <1>3, <1>5, AppendProperties, AppendIsConcat
<1>7. queued[n] = Append(left[n], e) \o D
  <2> DEFINE l == left[n]
  <2>1. l \in Seq(Chunk) /\ <<e>> \in Seq(Chunk)
    BY <1>5, <1>6
  <2>2. queued[n] = l \o (<<e>> \o D) /\ Append(l, e) = l \o <<e>>
    BY <1>3, <1>5, <1>6 DEF C
  <2> HIDE DEF l
  <2>3. (l \o <<e>>) \o D = l \o (<<e>> \o D)
    BY <1>4, <2>1, ConcatAssociative
  <2>4. QED
    BY <2>2, <2>3 DEF l
<1>8. OutboxKeepsOrder'
  <2> SUFFICES ASSUME NEW k \in Senders
               PROVE  queued'[k] = left'[k] \o RingContents(outbox'[k], OutboxSize)
    BY DEF OutboxKeepsOrder
  <2>1. CASE k = n
    BY <1>2, <1>7, <2>1 DEF SendersOK, D
  <2>2. CASE k # n
    BY <1>2, <2>2 DEF SendersOK, OutboxKeepsOrder
  <2>3. QED
    BY <2>1, <2>2
<1>9. attempts' \in [Senders -> 0 .. SendAttempts]
  <2>1. 0 \in 0 .. SendAttempts
    BY QueueAssumption
  <2>2. QED
    BY <1>2, <2>1 DEF SendersOK
<1>10. QED
  BY <1>2, <1>3, <1>6, <1>8, <1>9 DEF SendersOK, e

LEMMA PollTxSentStep ==
  ASSUME TableOK(rx, view), HistoryOK, SendersOK, InboxOK, NEW n \in Senders, PollTxSent(n)
  PROVE  TableOK(rx', view') /\ HistoryOK' /\ SendersOK' /\ InboxOK'
<1> DEFINE e == OldestChunk(n)
           q == PairOf(e)
<1>1. e \in Chunk /\ SendersOK'
  BY OutboxPopStep DEF PollTxSent
<1>2. wire' = [wire EXCEPT ![q] = Append(wire[q], e)]
  BY DEF PollTxSent
<1> HIDE DEF e, q
<1>3. wire' \in [Pairs -> Seq(Chunk)]
  <2>1. q \in Pairs => Append(wire[q], e) \in Seq(Chunk)
    BY <1>1, AppendProperties DEF HistoryOK
  <2>2. QED
    BY <1>2, <2>1 DEF HistoryOK
<1>4. HistoryOK'
  BY <1>3 DEF PollTxSent, HistoryOK
<1>5. QED
  BY <1>1, <1>4, InboxUnchanged DEF PollTxSent, inboxVars

LEMMA PollTxDroppedStep ==
  ASSUME TableOK(rx, view), HistoryOK, SendersOK, InboxOK, NEW n \in Senders, PollTxDropped(n)
  PROVE  TableOK(rx', view') /\ HistoryOK' /\ SendersOK' /\ InboxOK'
<1>1. SendersOK'
  BY OutboxPopStep DEF PollTxDropped
<1>2. HistoryOK'
  BY MishapsAssumption DEF PollTxDropped, Mishap, HistoryOK
<1>3. QED
  BY <1>1, <1>2, InboxUnchanged DEF PollTxDropped, inboxVars

LEMMA PollTxAgainStep ==
  ASSUME TableOK(rx, view), HistoryOK, SendersOK, InboxOK, NEW n \in Senders, PollTxAgain(n)
  PROVE  TableOK(rx', view') /\ HistoryOK' /\ SendersOK' /\ InboxOK'
<1>1. attempts' \in [Senders -> 0 .. SendAttempts]
  <2>1. attempts[n] \in 0 .. SendAttempts
    BY DEF SendersOK
  <2>2. (IF attempts[n] + 1 > SendAttempts THEN 0 ELSE attempts[n] + 1) \in 0 .. SendAttempts
    BY <2>1, QueueAssumption
  <2>3. QED
    BY <2>2 DEF PollTxAgain, SendersOK
<1>2. SendersOK'
  BY <1>1 DEF PollTxAgain, SendersOK, OutboxKeepsOrder
<1>3. QED
  BY <1>2, InboxUnchanged, ReceiverUnchanged DEF PollTxAgain, inboxVars

-----------------------------------------------------------------------------
(* The receiving half.                                                     *)

\* A message that the protocol completed has the right type.
LEMMA ViewedMessageType ==
  ASSUME TableOK(rx', view'), view' # 0
  PROVE  ViewedMessage \in InboxMessage
<1>1. view' \in Channels
  BY ReceiverAssumption DEF TableOK, Channels
<1>2. rx'[view'] \in Buffer
  BY <1>1 DEF TableOK
<1>3. QED
  BY <1>2 DEF ViewedMessage, InboxMessage, Buffer

LEMMA FinishedType ==
  ASSUME InboxOK
  PROVE  Finished \in Seq(InboxMessage)
<1>1. handed \in Seq(InboxMessage) /\ Len(handed) \in Nat
  BY LenProperties DEF InboxOK
<1>2. SubSeq(handed, 1, Len(handed) - 1) \in Seq(InboxMessage)
  <2>1. \A i \in 1 .. Len(handed) - 1 : handed[i] \in InboxMessage
    <3> SUFFICES ASSUME NEW i \in 1 .. Len(handed) - 1 PROVE handed[i] \in InboxMessage
      OBVIOUS
    <3>1. i \in 1 .. Len(handed)
      BY <1>1
    <3>2. QED
      BY <1>1, <3>1, ElementOfSeq
  <2>2. QED
    BY <1>1, <2>1, SubSeqProperties
<1>3. QED
  BY <1>1, <1>2 DEF Finished

\* Putting into the inbox never touches the message at its head.
LEMMA PutKeepsHead ==
  ASSUME NEW size \in Nat \ {0}, NEW E, NEW r \in Rings(size, E), NEW e \in E,
         r.count > 0, r.count < size
  PROVE  /\ RingPut(r, size, <<e>>).head = r.head
         /\ RingPut(r, size, <<e>>).count > 0
         /\ RingPut(r, size, <<e>>).slots[r.head] = r.slots[r.head]
<1> DEFINE h == r.head
           c == r.count
           place(i) == (i - h - c) % size
<1>1. h \in 0 .. size - 1 /\ c \in 1 .. size - 1 /\ Len(<<e>>) = 1
  BY DEF Rings
<1>2. /\ RingPut(r, size, <<e>>).head = h
      /\ RingPut(r, size, <<e>>).count = c + 1
      /\ RingPut(r, size, <<e>>).slots =
           [i \in 0 .. size - 1 |-> IF place(i) < 1 THEN <<e>>[place(i) + 1] ELSE r.slots[i]]
  BY <1>1 DEF RingPut
<1>3. place(h) = size - c
  <2> HIDE DEF h, c
  <2> DEFINE d == h - h - c
  <2>1. d = -c /\ d \in Int /\ -(2 * size) <= d /\ d < 0 /\ d >= -size
    BY <1>1
  <2> HIDE DEF d
  <2>2. d % size = d + size
    BY <2>1, WrapDown
  <2>3. place(h) = d % size
    BY DEF d
  <2> HIDE DEF place
  <2>4. QED
    BY <1>1, <2>1, <2>2, <2>3
<1>4. ~ (place(h) < 1)
  <2> HIDE DEF h, c, place
  <2>1. QED
    BY <1>1, <1>3
<1> HIDE DEF place, h, c
<1>5. QED
  BY <1>1, <1>2, <1>4 DEF h

LEMMA InboxPushStep ==
  ASSUME InboxOK, NEW m \in InboxMessage, InboxPush(m), UNCHANGED <<busy, handed>>
  PROVE  InboxOK'
<1>1. CASE inbox' = inbox /\ kept' = kept
  BY <1>1, InboxUnchanged
<1>2. CASE /\ inbox.count < InboxSize
           /\ inbox' = RingPut(inbox, InboxSize, <<m>>)
           /\ kept' = Append(kept, m)
  <2> DEFINE C == RingContents(inbox, InboxSize)
             n == RingPut(inbox, InboxSize, <<m>>)
  <2>1. inbox \in Rings(InboxSize, InboxMessage) /\ kept = Finished \o C
        /\ kept \in Seq(InboxMessage) /\ busy \in BOOLEAN
    BY DEF InboxOK, InboxKeepsOrder
  <2>2. <<m>> \in Seq(InboxMessage) /\ Len(<<m>>) = 1
    OBVIOUS
  <2>3. inbox.count + Len(<<m>>) <= InboxSize
    BY <1>2, <2>1, <2>2, QueueAssumption DEF Rings
  <2>4. /\ n \in Rings(InboxSize, InboxMessage)
        /\ RingContents(n, InboxSize) = C \o <<m>>
        /\ C \in Seq(InboxMessage)
    BY <2>1, <2>2, <2>3, QueueAssumption, RingPutAppends, RingContentsType
  <2>5. kept' = Finished \o (C \o <<m>>) /\ kept' \in Seq(InboxMessage)
    <3> HIDE DEF C
    <3>1. kept' = kept \o <<m>> /\ kept' \in Seq(InboxMessage)
      BY <1>2, <2>1, AppendIsConcat, AppendProperties
    <3>2. Finished \in Seq(InboxMessage)
      BY FinishedType
    <3>3. QED
      BY <2>1, <2>2, <2>4, <3>1, <3>2, ConcatAssociative
  <2>6. Finished' = Finished
    BY DEF Finished
  <2>7. InboxKeepsOrder'
    BY <1>2, <2>4, <2>5, <2>6 DEF InboxKeepsOrder
  <2>8. EventMessageStays'
    <3> SUFFICES ASSUME busy PROVE EventMessageStays'
      BY DEF EventMessageStays
    <3>1. inbox.count > 0 /\ handed # <<>> /\ inbox.slots[inbox.head] = handed[Len(handed)]
      BY DEF InboxOK, EventMessageStays
    <3>2. n.head = inbox.head /\ n.count > 0 /\ n.slots[inbox.head] = inbox.slots[inbox.head]
      BY <1>2, <2>1, <3>1, QueueAssumption, PutKeepsHead
    <3>3. QED
      BY <1>2, <3>1, <3>2 DEF EventMessageStays
  <2>9. QED
    BY <1>2, <2>1, <2>4, <2>5, <2>7, <2>8 DEF InboxOK
<1>3. QED
  BY <1>1, <1>2 DEF InboxPush

LEMMA QueueAddChunkStep ==
  ASSUME TableOK(rx, view), HistoryOK, SendersOK, InboxOK, NEW p \in Pairs, QueueAddChunk(p)
  PROVE  TableOK(rx', view') /\ HistoryOK' /\ SendersOK' /\ InboxOK'
<1>1. TableOK(rx', view') /\ HistoryOK'
  BY AddChunkStep DEF QueueAddChunk
<1>2. SendersOK'
  BY SendersUnchanged DEF QueueAddChunk
<1>3. InboxOK'
  <2>1. CASE view' # 0 /\ InboxPush(ViewedMessage)
    BY <1>1, <2>1, ViewedMessageType, InboxPushStep DEF QueueAddChunk
  <2>2. CASE UNCHANGED <<inbox, kept>>
    BY <2>2, InboxUnchanged DEF QueueAddChunk
  <2>3. QED
    BY <2>1, <2>2 DEF QueueAddChunk
<1>4. QED
  BY <1>1, <1>2, <1>3

\* What is left of a sequence without the element just appended.
LEMMA FrontOfAppend ==
  ASSUME NEW S, NEW s \in Seq(S), NEW e \in S
  PROVE  SubSeq(Append(s, e), 1, Len(Append(s, e)) - 1) = s
<1> DEFINE a == Append(s, e)
<1>1. /\ a \in Seq(S) /\ Len(a) = Len(s) + 1 /\ Len(s) \in Nat
      /\ \A i \in 1 .. Len(s) : a[i] = s[i] /\ s[i] \in S
  BY AppendProperties, LenProperties, ElementOfSeq
<1> HIDE DEF a
<1>2. Len(a) - 1 = Len(s)
  BY <1>1
<1>3. /\ SubSeq(a, 1, Len(s)) \in Seq(S)
      /\ Len(SubSeq(a, 1, Len(s))) = Len(s)
      /\ \A i \in 1 .. Len(s) : SubSeq(a, 1, Len(s))[i] = a[i]
  <2>1. \A i \in 1 .. Len(s) : a[i] \in S
    BY <1>1
  <2>2. /\ SubSeq(a, 1, Len(s)) \in Seq(S)
        /\ Len(SubSeq(a, 1, Len(s))) = IF 1 <= Len(s) THEN Len(s) - 1 + 1 ELSE 0
        /\ \A i \in 1 .. Len(s) - 1 + 1 : SubSeq(a, 1, Len(s))[i] = a[1 + i - 1]
    BY <1>1, <2>1, SubSeqProperties
  <2>3. \A i \in 1 .. Len(s) : i \in 1 .. Len(s) - 1 + 1 /\ 1 + i - 1 = i
    BY <1>1
  <2>4. QED
    BY <1>1, <2>2, <2>3
<1>4. SubSeq(a, 1, Len(s)) = s
  BY <1>1, <1>3, SeqEqual
<1>5. QED
  BY <1>2, <1>4 DEF a

LEMMA PollNewBeginStep ==
  ASSUME TableOK(rx, view), HistoryOK, SendersOK, InboxOK, PollNewBegin
  PROVE  TableOK(rx', view') /\ HistoryOK' /\ SendersOK' /\ InboxOK'
<1> DEFINE e == inbox.slots[inbox.head]
<1>1. /\ ~ busy /\ inbox.count > 0 /\ busy' = TRUE /\ handed' = Append(handed, e)
      /\ inbox' = inbox /\ kept' = kept
  BY DEF PollNewBegin
<1>2. e \in InboxMessage /\ handed \in Seq(InboxMessage)
  BY <1>1, QueueAssumption, RingPopTakesHead DEF InboxOK
<1> HIDE DEF e
<1>3. /\ handed' \in Seq(InboxMessage) /\ handed' # <<>>
      /\ Len(handed') = Len(handed) + 1 /\ handed'[Len(handed) + 1] = e
  BY <1>1, <1>2, AppendProperties
<1>4. Finished' = Finished
  BY <1>1, <1>2, FrontOfAppend DEF Finished
<1>5. InboxKeepsOrder'
  BY <1>1, <1>4 DEF InboxOK, InboxKeepsOrder
<1>6. EventMessageStays'
  BY <1>1, <1>3 DEF EventMessageStays, e
<1>7. InboxOK'
  BY <1>1, <1>3, <1>5, <1>6 DEF InboxOK
<1>8. QED
  BY <1>7, ReceiverUnchanged, SendersUnchanged DEF PollNewBegin

LEMMA PollNewEndStep ==
  ASSUME TableOK(rx, view), HistoryOK, SendersOK, InboxOK, PollNewEnd
  PROVE  TableOK(rx', view') /\ HistoryOK' /\ SendersOK' /\ InboxOK'
<1> DEFINE e == inbox.slots[inbox.head]
           n == RingPop(inbox, InboxSize)
           C == RingContents(inbox, InboxSize)
           D == RingContents(n, InboxSize)
           L == Len(handed)
<1>1. /\ busy /\ busy' = FALSE /\ inbox' = n /\ kept' = kept /\ handed' = handed
  BY DEF PollNewEnd
<1>2. /\ handed \in Seq(InboxMessage) /\ handed # <<>> /\ e = handed[L] /\ inbox.count > 0
      /\ kept = SubSeq(handed, 1, L - 1) \o C /\ inbox \in Rings(InboxSize, InboxMessage)
  BY <1>1 DEF InboxOK, InboxKeepsOrder, EventMessageStays, Finished
<1> HIDE DEF e
<1>3. n \in Rings(InboxSize, InboxMessage) /\ e \in InboxMessage /\ C = <<e>> \o D
  BY <1>2, QueueAssumption, RingPopTakesHead DEF e
<1>4. D \in Seq(InboxMessage)
  BY <1>3, QueueAssumption, RingContentsType
<1>5. L \in Nat \ {0}
  BY <1>2, EmptySeq
<1>6. handed = SubSeq(handed, 1, L - 1) \o <<e>>
  <2>1. 1 \in 1 .. L /\ L \in 1 .. L
    BY <1>5
  <2>2. SubSeq(handed, 1, L) = SubSeq(handed, 1, L - 1) \o <<handed[L]>>
    BY <1>2, <2>1, SubSeqRecursiveSecond
  <2>3. SubSeq(handed, 1, L) = handed
    BY <1>2, SubSeqFull
  <2>4. QED
    BY <1>2, <2>2, <2>3
<1>7. SubSeq(handed, 1, L - 1) \in Seq(InboxMessage)
  BY <1>1, FinishedType DEF Finished
<1> HIDE DEF C, D, n, L
<1>8. kept = handed \o D
  <2>1. <<e>> \in Seq(InboxMessage)
    BY <1>3
  <2>2. kept = (SubSeq(handed, 1, L - 1) \o <<e>>) \o D
    <3> DEFINE f == SubSeq(handed, 1, L - 1)
    <3>1. f \in Seq(InboxMessage) /\ kept = f \o (<<e>> \o D)
      BY <1>2, <1>3, <1>7
    <3> HIDE DEF f
    <3>2. (f \o <<e>>) \o D = f \o (<<e>> \o D)
      BY <1>4, <2>1, <3>1, ConcatAssociative DEF D
    <3>3. QED
      BY <3>1, <3>2 DEF f
  <2>3. QED
    BY <1>6, <2>2
<1>9. InboxKeepsOrder' /\ EventMessageStays'
  BY <1>1, <1>8 DEF InboxKeepsOrder, EventMessageStays, Finished, D
<1>10. InboxOK'
  BY <1>1, <1>3, <1>9 DEF InboxOK
<1>11. QED
  BY <1>10, ReceiverUnchanged, SendersUnchanged DEF PollNewEnd

LEMMA QueueRestartStep ==
  ASSUME TableOK(rx, view), HistoryOK, SendersOK, InboxOK, QueueRestart
  PROVE  TableOK(rx', view') /\ HistoryOK' /\ SendersOK' /\ InboxOK'
<1>1. TableOK(rx', view') /\ HistoryOK'
  BY RestartStep DEF QueueRestart
<1>2. /\ ~ busy /\ busy' = busy /\ handed' = handed /\ kept' = handed
      /\ inbox' = EmptyRing(InboxSize, NoMessage)
  BY DEF QueueRestart
<1>3. NoMessage \in InboxMessage
  BY EmptySeq DEF NoMessage, InboxMessage, ERROR_ID
<1>4. inbox' \in Rings(InboxSize, InboxMessage) /\ RingContents(inbox', InboxSize) = <<>>
  BY <1>2, <1>3, QueueAssumption, EmptyRingContents
<1>5. handed \in Seq(InboxMessage) /\ handed \o <<>> = handed
  BY ConcatEmptySeq DEF InboxOK
<1>6. InboxOK'
  BY <1>2, <1>4, <1>5 DEF InboxOK, InboxKeepsOrder, EventMessageStays, Finished
<1>7. QED
  BY <1>1, <1>6, SendersUnchanged DEF QueueRestart

-----------------------------------------------------------------------------
(* Every step keeps the invariant.                                         *)

LEMMA QueueInitInvariant == QueueInit => QueueInvariant
<1> SUFFICES ASSUME QueueInit PROVE TableOK(rx, view) /\ HistoryOK /\ SendersOK /\ InboxOK
  BY QueueParts
<1>1. TableOK(rx, view) /\ HistoryOK
  BY InitInvariant, InvariantParts DEF QueueInit
<1>2. NoMessage \in InboxMessage /\ NoChunk \in Chunk
  BY EmptySeq DEF NoMessage, InboxMessage, ERROR_ID, NoChunk, NoHeader, Chunk, Header
<1>3. /\ EmptyRing(OutboxSize, NoChunk) \in Rings(OutboxSize, Chunk)
      /\ RingContents(EmptyRing(OutboxSize, NoChunk), OutboxSize) = <<>>
      /\ EmptyRing(InboxSize, NoMessage) \in Rings(InboxSize, InboxMessage)
      /\ RingContents(EmptyRing(InboxSize, NoMessage), InboxSize) = <<>>
  BY <1>2, QueueAssumption, EmptyRingContents
<1>4. /\ <<>> \in Seq(Chunk) /\ <<>> \in Seq(InboxMessage)
      /\ <<>> = <<>> \o <<>>
  BY EmptySeq, ConcatEmptySeq
<1>5. 0 \in 0 .. SendAttempts
  BY QueueAssumption
<1>6. SendersOK
  BY <1>3, <1>4, <1>5 DEF QueueInit, SendersOK, OutboxKeepsOrder
<1>7. InboxOK
  BY <1>3, <1>4 DEF QueueInit, InboxOK, InboxKeepsOrder, EventMessageStays, Finished
<1>8. QED
  BY <1>1, <1>6, <1>7

LEMMA QueueNextInvariant == QueueInvariant /\ [QueueNext]_queueVars => QueueInvariant'
<1> SUFFICES ASSUME QueueInvariant, [QueueNext]_queueVars
             PROVE  TableOK(rx', view') /\ HistoryOK' /\ SendersOK' /\ InboxOK'
  BY QueuePartsNext
<1> DEFINE Kept == TableOK(rx', view') /\ HistoryOK' /\ SendersOK' /\ InboxOK'
<1>1. TableOK(rx, view) /\ HistoryOK /\ SendersOK /\ InboxOK
  BY QueueParts
<1>2. ASSUME NEW p \in Pairs, QueueSend(p) PROVE Kept
  BY <1>1, <1>2, QueueSendStep
<1>3. ASSUME NEW p \in Pairs, QueueAddChunk(p) PROVE Kept
  BY <1>1, <1>3, QueueAddChunkStep
<1>4. ASSUME NEW p \in Pairs, WireMishap(p) PROVE Kept
  BY <1>1, <1>4, WireMishapStep, SendersUnchanged, InboxUnchanged DEF WireMishap, inboxVars
<1>5. ASSUME NEW n \in Senders, PollTxSent(n) PROVE Kept
  BY <1>1, <1>5, PollTxSentStep
<1>6. ASSUME NEW n \in Senders, PollTxDropped(n) PROVE Kept
  BY <1>1, <1>6, PollTxDroppedStep
<1>7. ASSUME NEW n \in Senders, PollTxAgain(n) PROVE Kept
  BY <1>1, <1>7, PollTxAgainStep
<1>8. CASE PollNewBegin
  BY <1>1, <1>8, PollNewBeginStep
<1>9. CASE PollNewEnd
  BY <1>1, <1>9, PollNewEndStep
<1>10. CASE QueueRestart
  BY <1>1, <1>10, QueueRestartStep
<1>11. CASE UNCHANGED queueVars
  BY <1>1, <1>11, ReceiverUnchanged, SendersUnchanged, InboxUnchanged DEF queueVars, inboxVars
<1>12. CASE \E p \in Pairs : QueueSend(p) \/ QueueAddChunk(p) \/ WireMishap(p)
  BY <1>2, <1>3, <1>4, <1>12
<1>13. CASE \E n \in Senders : PollTxSent(n) \/ PollTxDropped(n) \/ PollTxAgain(n)
  BY <1>5, <1>6, <1>7, <1>13
<1>14. QED
  BY <1>8, <1>9, <1>10, <1>11, <1>12, <1>13, Zenon DEF QueueNext

-----------------------------------------------------------------------------
(* A message on its way through the outbox.                                *)

\* What happens at the front of the wire happens at the front of all that is
\* under way.
LEMMA FrontConcat ==
  ASSUME NEW w \in Seq(Chunk), NEW v \in Seq(Chunk), NEW x \in Chunk
  PROVE  /\ w \o v \in Seq(Chunk)
         /\ <<x>> \o (w \o v) = (<<x>> \o w) \o v
         /\ w # <<>> => /\ w \o v # <<>> /\ Head(w \o v) = Head(w)
                        /\ Tail(w \o v) = Tail(w) \o v
<1> DEFINE s == w \o v
<1>1. /\ s \in Seq(Chunk) /\ Len(s) = Len(w) + Len(v)
      /\ \A i \in 1 .. Len(w) + Len(v) : s[i] = IF i <= Len(w) THEN w[i] ELSE v[i - Len(w)]
  BY ConcatProperties
<1>2. Len(w) \in Nat /\ Len(v) \in Nat /\ <<x>> \in Seq(Chunk)
  BY LenProperties
<1>3. <<x>> \o (w \o v) = (<<x>> \o w) \o v
  BY <1>2, ConcatAssociative
<1>4. ASSUME w # <<>> PROVE s # <<>> /\ Head(s) = Head(w) /\ Tail(s) = Tail(w) \o v
  <2>1. Len(w) \in Nat \ {0} /\ w[1] = Head(w)
    BY <1>2, <1>4, EmptySeq
  <2>2. <<Head(w)>> \in Seq(Chunk) /\ Tail(w) \in Seq(Chunk) /\ w = <<Head(w)>> \o Tail(w)
    <3>1. Head(w) \in Chunk /\ Tail(w) \in Seq(Chunk)
      BY <1>4, HeadTailProperties
    <3>2. w = <<Head(w)>> \o Tail(w)
      BY <1>4, <2>1, <3>1
    <3>3. QED
      BY <3>1, <3>2
  <2>3. s = <<Head(w)>> \o (Tail(w) \o v)
    BY <2>2, ConcatAssociative
  <2> DEFINE r == Tail(w) \o v
             h == Head(w)
  <2>4. r \in Seq(Chunk) /\ h \in Chunk
    BY <1>4, <2>2, ConcatProperties, HeadTailProperties
  <2>5. s = <<h>> \o r
    BY <2>3
  <2> HIDE DEF r, h, s
  <2>6. s # <<>> /\ Head(s) = h /\ Tail(s) = r
    BY <2>4, <2>5
  <2>7. QED
    BY <2>6 DEF h, r
<1>5. QED
  BY <1>1, <1>3, <1>4

\* A chunk that is taken out from between other chunks.
LEMMA FollowsWithout ==
  ASSUME NEW u \in Seq(Chunk), NEW v \in Seq(Chunk), NEW x \in Chunk,
         NEW p, NEW m, NEW k, NEW a \in Nat, NEW j \in Nat, NEW e \in Nat, j < e,
         ~ Belongs(x, p, k), Follows(u \o (<<x>> \o v), p, m, k, a, j, e)
  PROVE  \E b \in 0 .. Len(u \o v) :
           (a = 0 => b = 0) /\ Follows(u \o v, p, m, k, b, j, e)
<1> DEFINE n == e - j
           l == Len(u)
           w == u \o (<<x>> \o v)
           s == u \o v
<1>1. n \in Nat \ {0} /\ l \in Nat /\ Len(v) \in Nat
  BY LenProperties
<1>2. /\ a + n <= Len(w)
      /\ \A q \in DOMAIN w : Belongs(w[q], p, k) <=> q \in a + 1 .. a + n
      /\ \A i \in 1 .. n : w[a + i] = BuildChunk(p, m, ChunkLength, j + i - 1, k)
  BY Zenon DEF Follows
<1>3. /\ Len(w) = l + Len(v) + 1 /\ DOMAIN w = 1 .. l + Len(v) + 1
      /\ w[l + 1] = x
      /\ Len(s) = l + Len(v) /\ DOMAIN s = 1 .. l + Len(v)
      /\ \A i \in 1 .. l : s[i] = w[i]
      /\ \A i \in l + 1 .. l + Len(v) : s[i] = w[i + 1]
  <2> DEFINE y == <<x>> \o v
  <2>1. /\ y \in Seq(Chunk) /\ Len(y) = Len(v) + 1 /\ y[1] = x
        /\ \A i \in 1 .. Len(v) : y[i + 1] = v[i]
    BY <1>1
  <2>2. w = u \o y
    OBVIOUS
  <2> HIDE DEF y, w, s
  <2>3. /\ w \in Seq(Chunk) /\ Len(w) = l + Len(y)
        /\ \A i \in 1 .. l + Len(y) : w[i] = IF i <= l THEN u[i] ELSE y[i - l]
    BY <2>1, <2>2, ConcatProperties
  <2>4. /\ s \in Seq(Chunk) /\ Len(s) = l + Len(v)
        /\ \A i \in 1 .. l + Len(v) : s[i] = IF i <= l THEN u[i] ELSE v[i - l]
    BY ConcatProperties DEF s
  <2>5. DOMAIN w = 1 .. Len(w) /\ DOMAIN s = 1 .. Len(s)
    BY <2>3, <2>4, LenProperties
  <2> HIDE DEF l
  <2>6. w[l + 1] = x
    <3>1. l + 1 \in 1 .. l + Len(y) /\ ~ (l + 1 <= l) /\ (l + 1) - l = 1
      BY <1>1, <2>1
    <3>2. QED
      BY <2>1, <2>3, <3>1
  <2>7. \A i \in 1 .. l : s[i] = w[i]
    BY <1>1, <2>1, <2>3, <2>4
  <2>8. ASSUME NEW i \in l + 1 .. l + Len(v) PROVE s[i] = w[i + 1]
    <3>1. /\ i \in 1 .. l + Len(v) /\ ~ (i <= l) /\ i + 1 \in 1 .. l + Len(y)
          /\ ~ (i + 1 <= l) /\ (i + 1) - l = (i - l) + 1 /\ i - l \in 1 .. Len(v)
      BY <1>1, <2>1
    <3>2. s[i] = v[i - l] /\ w[i + 1] = y[(i - l) + 1]
      BY <2>3, <2>4, <3>1
    <3>3. QED
      BY <2>1, <3>1, <3>2
  <2>9. QED
    BY <1>1, <2>1, <2>3, <2>4, <2>5, <2>6, <2>7, <2>8
<1> HIDE DEF n, l, w, s
<1>4. l + 1 \notin a + 1 .. a + n
  <2>1. l + 1 \in DOMAIN w
    BY <1>1, <1>3
  <2>2. Belongs(w[l + 1], p, k) <=> l + 1 \in a + 1 .. a + n
    BY <1>2, <2>1
  <2>3. QED
    BY <1>3, <2>2
<1>5. CASE a + n <= l
  <2>1. ASSUME NEW q \in DOMAIN s PROVE Belongs(s[q], p, k) <=> q \in a + 1 .. a + n
    <3>1. CASE q <= l
      <4>1. q \in 1 .. l /\ q \in DOMAIN w
        BY <1>1, <1>3, <3>1
      <4>2. QED
        BY <1>2, <1>3, <4>1
    <3>2. CASE ~ (q <= l)
      <4>1. q \in l + 1 .. l + Len(v) /\ q + 1 \in DOMAIN w /\ q \notin a + 1 .. a + n
            /\ q + 1 \notin a + 1 .. a + n
        BY <1>1, <1>3, <1>5, <3>2
      <4>2. QED
        BY <1>2, <1>3, <4>1
    <3>3. QED
      BY <3>1, <3>2
  <2>2. ASSUME NEW i \in 1 .. n PROVE s[a + i] = w[a + i]
    <3> DEFINE y == a + i
    <3>1. y \in 1 .. l
      BY <1>1, <1>5
    <3> HIDE DEF y
    <3>2. s[y] = w[y]
      BY <1>3, <3>1
    <3>3. QED
      BY <3>2 DEF y
  <2>3. \A i \in 1 .. n : s[a + i] = BuildChunk(p, m, ChunkLength, j + i - 1, k)
    BY <1>2, <2>2
  <2>4. a + n <= Len(s) /\ a \in 0 .. Len(s)
    BY <1>1, <1>3, <1>5
  <2>5. Follows(s, p, m, k, a, j, e)
    BY <2>1, <2>3, <2>4, Zenon DEF Follows, n
  <2>6. QED
    BY <2>4, <2>5 DEF s
<1>6. CASE ~ (a + n <= l)
  <2> DEFINE b == a - 1
  <2>1. a >= l + 1 /\ b \in Nat /\ b + 1 = a
    BY <1>1, <1>4, <1>6
  <2> HIDE DEF b
  <2>2. ASSUME NEW q \in DOMAIN s PROVE Belongs(s[q], p, k) <=> q \in b + 1 .. b + n
    <3>1. CASE q <= l
      <4>1. q \in 1 .. l /\ q \in DOMAIN w /\ q \notin b + 1 .. b + n /\ q \notin a + 1 .. a + n
        BY <1>1, <1>3, <2>1, <3>1
      <4>2. QED
        BY <1>2, <1>3, <4>1
    <3>2. CASE ~ (q <= l)
      <4>1. /\ q \in l + 1 .. l + Len(v) /\ q + 1 \in DOMAIN w
            /\ (q + 1 \in a + 1 .. a + n <=> q \in b + 1 .. b + n)
        BY <1>1, <1>3, <2>1, <3>2, SMTT(30)
      <4>2. QED
        BY <1>2, <1>3, <4>1
    <3>3. QED
      BY <3>1, <3>2
  <2>3. ASSUME NEW i \in 1 .. n PROVE s[b + i] = w[a + i]
    <3> DEFINE y == b + i
    <3>1. y \in l + 1 .. l + Len(v) /\ y + 1 = a + i
      BY <1>1, <1>2, <1>3, <2>1
    <3> HIDE DEF y
    <3>2. s[y] = w[a + i]
      BY <1>3, <3>1
    <3>3. QED
      BY <3>2 DEF y
  <2>4. \A i \in 1 .. n : s[b + i] = BuildChunk(p, m, ChunkLength, j + i - 1, k)
    BY <1>2, <2>3
  <2>5. b + n <= Len(s) /\ b \in 0 .. Len(s) /\ a # 0
    BY <1>1, <1>2, <1>3, <2>1
  <2>6. Follows(s, p, m, k, b, j, e)
    BY <2>2, <2>4, <2>5, Zenon DEF Follows, n
  <2>7. QED
    BY <2>5, <2>6 DEF s
<1>7. QED
  BY <1>5, <1>6

LEMMA FollowingWithout ==
  ASSUME NEW u \in Seq(Chunk), NEW v \in Seq(Chunk), NEW x \in Chunk,
         NEW t, NEW g, NEW p, NEW m \in Contents, NEW k, ~ Belongs(x, p, k),
         Following(u \o (<<x>> \o v), t, g, p, m, k)
  PROVE  Following(u \o v, t, g, p, m, k)
<1> DEFINE e == Count(m)
           w == u \o (<<x>> \o v)
           s == u \o v
<1>1. e \in Nat \ {0}
  BY CountBounds
<1>2. CASE Coming(w, p, m, k)
  <2>1. PICK a \in 0 .. Len(w) : Follows(w, p, m, k, a, 0, e)
    BY <1>2 DEF Coming
  <2> HIDE DEF e
  <2>2. a \in Nat /\ 0 \in Nat /\ 0 < e /\ e \in Nat
    BY <1>1
  <2>3. \E b \in 0 .. Len(s) : Follows(s, p, m, k, b, 0, e)
    BY <2>1, <2>2, FollowsWithout
  <2>4. QED
    BY <2>3 DEF Following, Coming, e
<1>3. CASE Arriving(w, t, p, m, k)
  <2>1. PICK j \in 1 .. e - 1 : /\ Follows(w, p, m, k, 0, j, e)
                                /\ \E c \in Channels : t[c] = Collected(p, m, k, j)
    BY <1>3 DEF Arriving
  <2> HIDE DEF e
  <2>2. j \in Nat /\ 0 \in Nat /\ j < e /\ e \in Nat
    BY <1>1
  <2>3. \E b \in 0 .. Len(s) : b = 0 /\ Follows(s, p, m, k, b, j, e)
    BY <2>1, <2>2, FollowsWithout
  <2>4. Follows(s, p, m, k, 0, j, e)
    BY <2>3
  <2>5. QED
    BY <2>1, <2>4 DEF Following, Arriving, e
<1>4. CASE HandedOver(w, g, p, m, k)
  <2>1. ASSUME NEW q \in DOMAIN s PROVE ~ Belongs(s[q], p, k)
    <3> DEFINE y == <<x>> \o v
    <3>1. /\ y \in Seq(Chunk) /\ Len(y) = Len(v) + 1
          /\ \A i \in 1 .. Len(v) : y[i + 1] = v[i]
          /\ Len(u) \in Nat /\ Len(v) \in Nat
      BY LenProperties
    <3> HIDE DEF y
    <3>2. /\ w \in Seq(Chunk) /\ Len(w) = Len(u) + Len(y)
          /\ \A i \in 1 .. Len(u) + Len(y) : w[i] = IF i <= Len(u) THEN u[i] ELSE y[i - Len(u)]
      BY <3>1, ConcatProperties DEF y
    <3>3. /\ s \in Seq(Chunk) /\ Len(s) = Len(u) + Len(v)
          /\ \A i \in 1 .. Len(u) + Len(v) : s[i] = IF i <= Len(u) THEN u[i] ELSE v[i - Len(u)]
      BY ConcatProperties
    <3> HIDE DEF w, s
    <3>4. DOMAIN w = 1 .. Len(w) /\ DOMAIN s = 1 .. Len(s)
      BY <3>2, <3>3, LenProperties
    <3>5. CASE q <= Len(u)
      <4>1. q \in DOMAIN w /\ w[q] = s[q]
        <5>1. q \in 1 .. Len(u) + Len(v) /\ q \in 1 .. Len(u) + Len(y) /\ q \in DOMAIN w
          BY <3>1, <3>2, <3>3, <3>4, <3>5
        <5>2. QED
          BY <3>2, <3>3, <3>5, <5>1
      <4>2. QED
        BY <1>4, <4>1 DEF HandedOver
    <3>6. CASE ~ (q <= Len(u))
      <4>1. /\ q + 1 \in DOMAIN w /\ q + 1 \in 1 .. Len(u) + Len(y) /\ ~ (q + 1 <= Len(u))
            /\ q - Len(u) \in 1 .. Len(v) /\ (q + 1) - Len(u) = (q - Len(u)) + 1
        BY <3>1, <3>2, <3>3, <3>4, <3>6
      <4>2. w[q + 1] = y[(q - Len(u)) + 1] /\ s[q] = v[q - Len(u)]
        BY <3>2, <3>3, <3>4, <3>6, <4>1
      <4>3. w[q + 1] = s[q]
        BY <3>1, <4>1, <4>2
      <4>4. QED
        BY <1>4, <4>1, <4>3 DEF HandedOver
    <3>7. QED
      BY <3>5, <3>6
  <2>2. QED
    BY <1>4, <2>1 DEF HandedOver, Following
<1>5. QED
  BY <1>2, <1>3, <1>4 DEF Following

\* Nothing of a message is in two sequences of chunks one behind the other, nor
\* in their parts.
LEMMA NoneOfBoth ==
  ASSUME NEW u \in Seq(Chunk), NEW v \in Seq(Chunk), NEW p, NEW k,
         \A i \in DOMAIN u : ~ Belongs(u[i], p, k), \A i \in DOMAIN v : ~ Belongs(v[i], p, k)
  PROVE  \A i \in DOMAIN (u \o v) : ~ Belongs((u \o v)[i], p, k)
<1> DEFINE s == u \o v
<1>1. /\ Len(u) \in Nat /\ Len(v) \in Nat /\ DOMAIN u = 1 .. Len(u) /\ DOMAIN v = 1 .. Len(v)
      /\ DOMAIN s = 1 .. Len(u) + Len(v)
      /\ \A j \in 1 .. Len(u) + Len(v) : s[j] = IF j <= Len(u) THEN u[j] ELSE v[j - Len(u)]
  BY ConcatProperties, LenProperties
<1> HIDE DEF s
<1> SUFFICES ASSUME NEW i \in DOMAIN s PROVE ~ Belongs(s[i], p, k)
  BY DEF s
<1>2. CASE i <= Len(u)
  <2>1. i \in DOMAIN u /\ s[i] = u[i]
    BY <1>1, <1>2
  <2>2. QED
    BY <2>1
<1>3. CASE ~ (i <= Len(u))
  <2>1. i - Len(u) \in DOMAIN v /\ s[i] = v[i - Len(u)]
    BY <1>1, <1>3
  <2>2. QED
    BY <2>1
<1>4. QED
  BY <1>2, <1>3

-----------------------------------------------------------------------------
(* Every step keeps what is under way in order.                            *)

Waiting(n) == RingContents(outbox[n], OutboxSize)

ChunkKnown(ch, n, s) ==
  PairOf(ch) \in Pairs /\ PairOf(ch)[1] = n /\ ch.num <= Len(s[PairOf(ch)])

OutboxKnown ==
  \A n \in Senders : \A i \in DOMAIN Waiting(n) : ChunkKnown(Waiting(n)[i], n, sent)

MessagePasses(p, k) ==
  Acceptable(p, sent[p][k]) /\ <<p, k>> \notin harmed =>
    Following(Underway(p), rx, got[p], p, sent[p][k], k)

GotKept ==
  \A p \in Pairs : \A i \in DOMAIN got[p] :
    <<p, got[p][i].num>> \in dropped \/ \E j \in DOMAIN kept : Matches(kept[j], p, got[p][i])

LEMMA PassParts ==
  MessagesPass <=>
    /\ SentKnown /\ WireKnown /\ OutboxKnown /\ GotKept
    /\ \A p \in Pairs : \A k \in DOMAIN sent[p] : MessagePasses(p, k)
BY Zenon DEF MessagesPass, SentKnown, WireKnown, OutboxKnown, ChunkKnown, Waiting, GotKept,
             MessagePasses, Following

LEMMA PassPartsNext ==
  /\ SentKnown' /\ WireKnown' /\ OutboxKnown' /\ GotKept'
  /\ \A p \in Pairs : \A k \in DOMAIN sent'[p] : MessagePasses(p, k)'
  => MessagesPass'
BY Zenon DEF MessagesPass, SentKnown, WireKnown, OutboxKnown, ChunkKnown, Waiting, GotKept,
             MessagePasses, Following

LEMMA WaitingType ==
  ASSUME SendersOK, NEW n \in Senders
  PROVE  Waiting(n) \in Seq(Chunk)
<1>1. outbox[n] \in Rings(OutboxSize, Chunk)
  BY DEF SendersOK
<1>2. QED
  BY <1>1, QueueAssumption, RingContentsType DEF Waiting

LEMMA UnderwayType ==
  ASSUME HistoryOK, SendersOK, NEW p \in Pairs
  PROVE  /\ wire[p] \in Seq(Chunk) /\ Waiting(p[1]) \in Seq(Chunk)
         /\ Underway(p) = wire[p] \o Waiting(p[1]) /\ Underway(p) \in Seq(Chunk)
<1>1. wire[p] \in Seq(Chunk) /\ Waiting(p[1]) \in Seq(Chunk)
  BY SenderOfPair, WaitingType DEF HistoryOK
<1>2. QED
  BY <1>1, ConcatProperties DEF Underway, Waiting

\* What the two operations of the outbox make of it.
LEMMA SendWaiting ==
  ASSUME SendersOK, SentKnown, NEW q \in Pairs, QueueSend(q)
  PROVE  \E m \in Contents :
           LET chunks == BuildChunks(q, m, ChunkLength, Len(sent[q]) + 1)
           IN  /\ sent' = [sent EXCEPT ![q] = Append(@, m)]
               /\ \A n \in Senders :
                    Waiting(n)' = IF n = q[1] THEN Waiting(n) \o chunks ELSE Waiting(n)
<1> DEFINE o == q[1]
           num == Len(sent[q]) + 1
<1>1. PICK m \in Contents :
        LET chunks == BuildChunks(q, m, ChunkLength, num)
        IN  /\ HasRoom(o, chunks)
            /\ outbox' = [outbox EXCEPT ![o] = RingPut(@, OutboxSize, chunks)]
            /\ sent' = [sent EXCEPT ![q] = Append(@, m)]
  BY DEF QueueSend
<1> DEFINE chunks == BuildChunks(q, m, ChunkLength, num)
           r == outbox[o]
<1>2. o \in Senders /\ num \in Nat
  BY SenderOfPair, LenProperties DEF SentKnown
<1>3. chunks \in Seq(Chunk)
  BY <1>2, BuildChunksType
<1>4. r \in Rings(OutboxSize, Chunk) /\ r.count + Len(chunks) <= OutboxSize
  BY <1>1, <1>2 DEF SendersOK, HasRoom
<1>5. outbox' = [outbox EXCEPT ![o] = RingPut(r, OutboxSize, chunks)]
  BY <1>1
<1> HIDE DEF o, num, chunks, r
<1>6. RingContents(RingPut(r, OutboxSize, chunks), OutboxSize) = RingContents(r, OutboxSize) \o chunks
  BY <1>3, <1>4, QueueAssumption, RingPutAppends
<1>7. ASSUME NEW n \in Senders
      PROVE  Waiting(n)' = IF n = o THEN Waiting(n) \o chunks ELSE Waiting(n)
  <2>1. CASE n = o
    <3>1. outbox'[n] = RingPut(r, OutboxSize, chunks)
      BY <1>2, <1>5, <2>1 DEF SendersOK
    <3>2. QED
      BY <1>6, <2>1, <3>1 DEF Waiting, r
  <2>2. CASE n # o
    <3>1. outbox'[n] = outbox[n]
      BY <1>5, <2>2 DEF SendersOK
    <3>2. QED
      BY <2>2, <3>1 DEF Waiting
  <2>3. QED
    BY <2>1, <2>2
<1>8. sent' = [sent EXCEPT ![q] = Append(@, m)]
  BY <1>1
<1>9. QED
  BY <1>7, <1>8 DEF chunks, num, o

LEMMA PopWaiting ==
  ASSUME SendersOK, NEW n \in Senders, outbox[n].count > 0, OutboxPop(n)
  PROVE  /\ OldestChunk(n) \in Chunk
         /\ Waiting(n) = <<OldestChunk(n)>> \o Waiting(n)' /\ Waiting(n)' \in Seq(Chunk)
         /\ \A o \in Senders : o # n => Waiting(o)' = Waiting(o)
<1> DEFINE r == outbox[n]
           e == OldestChunk(n)
<1>1. r \in Rings(OutboxSize, Chunk) /\ e = r.slots[r.head] /\ r.count > 0
  BY DEF SendersOK, OldestChunk
<1>2. outbox' = [outbox EXCEPT ![n] = RingPop(r, OutboxSize)]
  BY DEF OutboxPop
<1> HIDE DEF r, e
<1>3. /\ RingPop(r, OutboxSize) \in Rings(OutboxSize, Chunk)
      /\ e \in Chunk
      /\ RingContents(r, OutboxSize) = <<e>> \o RingContents(RingPop(r, OutboxSize), OutboxSize)
  BY <1>1, QueueAssumption, RingPopTakesHead
<1>4. RingContents(RingPop(r, OutboxSize), OutboxSize) \in Seq(Chunk)
  BY <1>3, QueueAssumption, RingContentsType
<1>5. outbox'[n] = RingPop(r, OutboxSize)
  BY <1>2 DEF SendersOK
<1>6. \A o \in Senders : o # n => outbox'[o] = outbox[o]
  BY <1>2 DEF SendersOK
<1>7. QED
  BY <1>3, <1>4, <1>5, <1>6 DEF Waiting, r, e

\* The chunk at the head of the outbox is of a pair of this sender.
LEMMA OldestKnown ==
  ASSUME SendersOK, OutboxKnown, NEW n \in Senders, outbox[n].count > 0, OutboxPop(n)
  PROVE  /\ ChunkKnown(OldestChunk(n), n, sent)
         /\ \A i \in DOMAIN Waiting(n)' : ChunkKnown(Waiting(n)'[i], n, sent)
<1> DEFINE e == OldestChunk(n)
           C == Waiting(n)
           D == Waiting(n)'
<1>1. e \in Chunk /\ C = <<e>> \o D /\ D \in Seq(Chunk)
  BY PopWaiting
<1>2. \A i \in DOMAIN C : ChunkKnown(C[i], n, sent)
  BY DEF OutboxKnown
<1> HIDE DEF C, D, e
<1>3. /\ 1 \in DOMAIN C /\ C[1] = e
      /\ \A i \in DOMAIN D : i + 1 \in DOMAIN C /\ C[i + 1] = D[i]
  BY <1>1, LenProperties
<1>4. ChunkKnown(e, n, sent) /\ \A i \in DOMAIN D : ChunkKnown(D[i], n, sent)
  BY <1>2, <1>3
<1>5. QED
  BY <1>4 DEF e, D

LEMMA QueueSendKnown ==
  ASSUME HistoryOK, SendersOK, SentKnown, WireKnown, OutboxKnown, NEW q \in Pairs, QueueSend(q)
  PROVE  SentKnown' /\ WireKnown' /\ OutboxKnown'
<1>1. PICK m \in Contents :
        LET chunks == BuildChunks(q, m, ChunkLength, Len(sent[q]) + 1)
        IN  /\ sent' = [sent EXCEPT ![q] = Append(@, m)]
            /\ \A n \in Senders :
                 Waiting(n)' = IF n = q[1] THEN Waiting(n) \o chunks ELSE Waiting(n)
  BY SendWaiting
<1> DEFINE num == Len(sent[q]) + 1
           v == BuildChunks(q, m, ChunkLength, num)
<1>2. sent[q] \in Seq(Contents) /\ num \in Nat /\ wire' = wire
  BY LenProperties DEF SentKnown, QueueSend
<1>3. v \in Seq(Chunk) /\ \A i \in DOMAIN v : PairOf(v[i]) = q /\ v[i].num = num
  BY <1>2, ChunksOfOne, SMTT(30)
<1>4. Append(sent[q], m) \in Seq(Contents) /\ Len(Append(sent[q], m)) = num
  BY <1>2, AppendProperties
<1>5. SentKnown'
  BY <1>1, <1>4 DEF SentKnown
<1>6. \A p \in Pairs : /\ Len(sent[p]) \in Nat /\ Len(sent'[p]) \in Nat
                       /\ Len(sent[p]) <= Len(sent'[p])
  <2> SUFFICES ASSUME NEW p \in Pairs
               PROVE  /\ Len(sent[p]) \in Nat /\ Len(sent'[p]) \in Nat
                      /\ Len(sent[p]) <= Len(sent'[p])
    OBVIOUS
  <2>1. Len(sent[p]) \in Nat
    BY LenProperties DEF SentKnown
  <2>2. CASE p = q
    <3>1. Len(sent'[p]) = Len(sent[p]) + 1
      BY <1>1, <1>4, <2>2 DEF SentKnown
    <3>2. QED
      BY <2>1, <3>1
  <2>3. CASE p # q
    <3>1. sent'[p] = sent[p]
      BY <1>1, <2>3 DEF SentKnown
    <3>2. QED
      BY <2>1, <3>1
  <2>4. QED
    BY <2>2, <2>3
<1>7. WireKnown'
  <2> SUFFICES ASSUME NEW p \in Pairs, NEW i \in DOMAIN wire[p]
               PROVE  PairOf(wire[p][i]) \notin Pairs \ {p} /\ wire[p][i].num <= Len(sent'[p])
    BY <1>2 DEF WireKnown
  <2>1. wire[p][i] \in Chunk
    BY LenProperties, ElementOfSeq DEF HistoryOK
  <2>2. wire[p][i].num \in Nat
    BY <2>1 DEF Chunk
  <2>3. PairOf(wire[p][i]) \notin Pairs \ {p} /\ wire[p][i].num <= Len(sent[p])
    BY DEF WireKnown
  <2>4. QED
    BY <1>6, <2>2, <2>3
<1>8. OutboxKnown'
  <2> SUFFICES ASSUME NEW n \in Senders, NEW i \in DOMAIN Waiting(n)'
               PROVE  ChunkKnown(Waiting(n)'[i], n, sent')
    BY DEF OutboxKnown
  <2> DEFINE C == Waiting(n)
             D == Waiting(n)'
  <2>1. C \in Seq(Chunk) /\ Len(C) \in Nat /\ DOMAIN C = 1 .. Len(C)
    BY WaitingType, LenProperties
  <2>2. ASSUME NEW x \in DOMAIN C PROVE ChunkKnown(C[x], n, sent')
    <3> DEFINE ch == C[x]
    <3>1. ch \in Chunk /\ ChunkKnown(ch, n, sent)
      BY <2>1, ElementOfSeq DEF OutboxKnown
    <3> HIDE DEF ch
    <3>2. ch.num \in Nat
      BY <3>1 DEF Chunk
    <3>3. QED
      BY <1>6, <3>1, <3>2 DEF ChunkKnown, ch
  <2>3. ASSUME n = q[1], NEW x \in DOMAIN v PROVE ChunkKnown(v[x], n, sent')
    <3> DEFINE ch == v[x]
    <3>1. PairOf(ch) = q /\ ch.num = num
      BY <1>3
    <3>2. Len(sent'[q]) = num
      BY <1>1, <1>4 DEF SentKnown
    <3> HIDE DEF ch, num
    <3>3. QED
      BY <1>2, <2>3, <3>1, <3>2 DEF ChunkKnown, ch
  <2>4. D = IF n = q[1] THEN C \o v ELSE C
    BY <1>1
  <2> HIDE DEF C, D, v
  <2>5. CASE n = q[1]
    <3>1. /\ Len(v) \in Nat /\ DOMAIN v = 1 .. Len(v)
          /\ D = C \o v /\ DOMAIN D = 1 .. Len(C) + Len(v)
          /\ \A x \in 1 .. Len(C) + Len(v) : D[x] = IF x <= Len(C) THEN C[x] ELSE v[x - Len(C)]
      BY <1>3, <2>1, <2>4, <2>5, ConcatProperties, LenProperties
    <3>2. i \in 1 .. Len(C) + Len(v)
      BY <3>1 DEF D
    <3>3. CASE i <= Len(C)
      <4>1. i \in DOMAIN C /\ D[i] = C[i]
        BY <2>1, <3>1, <3>2, <3>3
      <4>2. QED
        BY <2>2, <4>1 DEF D
    <3>4. CASE ~ (i <= Len(C))
      <4>1. i - Len(C) \in DOMAIN v /\ D[i] = v[i - Len(C)]
        BY <2>1, <3>1, <3>2, <3>4
      <4>2. QED
        BY <2>3, <2>5, <4>1 DEF D
    <3>5. QED
      BY <3>3, <3>4
  <2>6. CASE n # q[1]
    <3>1. D = C
      BY <2>4, <2>6
    <3>2. QED
      BY <2>2, <3>1 DEF D
  <2>7. QED
    BY <2>5, <2>6
<1>9. QED
  BY <1>5, <1>7, <1>8

LEMMA PopKnown ==
  ASSUME SendersOK, OutboxKnown, NEW n \in Senders, outbox[n].count > 0, OutboxPop(n), sent' = sent
  PROVE  ChunkKnown(OldestChunk(n), n, sent) /\ OutboxKnown'
<1>1. /\ ChunkKnown(OldestChunk(n), n, sent)
      /\ \A i \in DOMAIN Waiting(n)' : ChunkKnown(Waiting(n)'[i], n, sent)
  BY OldestKnown
<1>2. \A o \in Senders : o # n => Waiting(o)' = Waiting(o)
  BY PopWaiting
<1>3. OutboxKnown'
  <2> SUFFICES ASSUME NEW o \in Senders, NEW i \in DOMAIN Waiting(o)'
               PROVE  ChunkKnown(Waiting(o)'[i], o, sent)
    BY DEF OutboxKnown
  <2>1. CASE o = n
    BY <1>1, <2>1
  <2>2. CASE o # n
    BY <1>2, <2>2 DEF OutboxKnown
  <2>3. QED
    BY <2>1, <2>2
<1>4. QED
  BY <1>1, <1>3

LEMMA PollTxSentKnown ==
  ASSUME HistoryOK, SendersOK, SentKnown, WireKnown, OutboxKnown, NEW n \in Senders, PollTxSent(n)
  PROVE  SentKnown' /\ WireKnown' /\ OutboxKnown'
<1> DEFINE e == OldestChunk(n)
           q == PairOf(e)
           w == wire[q]
           u == Append(w, e)
<1>1. /\ outbox[n].count > 0 /\ OutboxPop(n) /\ sent' = sent
      /\ wire' = [wire EXCEPT ![q] = u]
  BY DEF PollTxSent
<1>2. ChunkKnown(e, n, sent) /\ OutboxKnown' /\ e \in Chunk
  BY <1>1, PopKnown, PopWaiting
<1>3. q \in Pairs /\ e.num <= Len(sent[q]) /\ w \in Seq(Chunk)
  BY <1>2 DEF ChunkKnown, HistoryOK
<1> HIDE DEF e, q
<1>4. /\ Len(w) \in Nat /\ DOMAIN w = 1 .. Len(w) /\ DOMAIN u = 1 .. Len(w) + 1
      /\ u[Len(w) + 1] = e /\ \A i \in 1 .. Len(w) : u[i] = w[i]
  <2> HIDE DEF w
  <2>1. QED
    BY <1>2, <1>3, LenProperties
<1> HIDE DEF w, u
<1>5. WireKnown'
  <2> SUFFICES ASSUME NEW o \in Pairs, NEW i \in DOMAIN wire'[o]
               PROVE  PairOf(wire'[o][i]) \notin Pairs \ {o} /\ wire'[o][i].num <= Len(sent[o])
    BY <1>1 DEF WireKnown
  <2>1. CASE o = q
    <3>1. wire'[o] = u
      BY <1>1, <2>1 DEF HistoryOK
    <3>2. CASE i = Len(w) + 1
      BY <1>3, <1>4, <2>1, <3>1, <3>2 DEF q
    <3>3. CASE i # Len(w) + 1
      <4>1. i \in DOMAIN w /\ wire'[o][i] = w[i]
        BY <1>4, <3>1, <3>3
      <4>2. QED
        BY <2>1, <4>1 DEF WireKnown, w
    <3>4. QED
      BY <3>2, <3>3
  <2>2. CASE o # q
    <3>1. wire'[o] = wire[o]
      BY <1>1, <2>2 DEF HistoryOK
    <3>2. QED
      BY <3>1 DEF WireKnown
  <2>3. QED
    BY <2>1, <2>2
<1>6. QED
  BY <1>1, <1>2, <1>5 DEF SentKnown

\* The step lemmas of the protocol, for all that is under way to the receiver.
LEMMA UnderwayNext ==
  ASSUME HistoryOK, SendersOK, NEW p \in Pairs, outbox' = outbox
  PROVE  Underway(p)' = wire'[p] \o Waiting(p[1])
BY DEF Underway, Waiting

LEMMA QueueSendFollows ==
  ASSUME HistoryOK, SendersOK, SentKnown, NEW q \in Pairs, QueueSend(q),
         NEW p \in Pairs, NEW k \in 1 .. Len(sent[p]), NEW m \in Contents,
         Following(Underway(p), rx, got[p], p, m, k)
  PROVE  Following(Underway(p)', rx', got'[p], p, m, k)
<1> DEFINE num == Len(sent[q]) + 1
           w == wire[p]
           C == Waiting(p[1])
<1>1. PICK x \in Contents :
        \A n \in Senders :
          Waiting(n)' = IF n = q[1] THEN Waiting(n) \o BuildChunks(q, x, ChunkLength, num)
                        ELSE Waiting(n)
  BY SendWaiting
<1> DEFINE v == BuildChunks(q, x, ChunkLength, num)
<1>2. num \in Nat /\ (q = p => num # k)
  <2>1. Len(sent[q]) \in Nat
    BY LenProperties DEF SentKnown
  <2>2. QED
    BY <2>1
<1>3. /\ w \in Seq(Chunk) /\ C \in Seq(Chunk) /\ Underway(p) = w \o C
      /\ Underway(p) \in Seq(Chunk) /\ v \in Seq(Chunk)
  BY <1>2, UnderwayType, ChunksOfOne
<1>4. Underway(p)' = w \o Waiting(p[1])' /\ rx' = rx /\ got' = got
  BY DEF Underway, Waiting, QueueSend
<1>5. Waiting(p[1])' = C \o v \/ Waiting(p[1])' = C
  BY <1>1, SenderOfPair
<1>6. Following(Underway(p) \o v, rx, got[p], p, m, k)
  <2> HIDE DEF num
  <2>1. QED
    BY <1>2, <1>3, SendFollows
<1> HIDE DEF w, C, v
<1>7. w \o (C \o v) = (w \o C) \o v
  BY <1>3, ConcatAssociative
<1>8. Underway(p)' = Underway(p) \o v \/ Underway(p)' = Underway(p)
  BY <1>3, <1>4, <1>5, <1>7
<1>9. QED
  BY <1>4, <1>6, <1>8

LEMMA QueueSentFollows ==
  ASSUME HistoryOK, SendersOK, SentKnown, WireKnown, OutboxKnown, NEW q \in Pairs, QueueSend(q),
         NEW p \in Pairs, NEW k \in DOMAIN sent'[p], k \notin DOMAIN sent[p]
  PROVE  Following(Underway(p)', rx', got'[p], p, sent'[p][k], k)
<1>1. PICK x \in Contents :
        LET chunks == BuildChunks(q, x, ChunkLength, Len(sent[q]) + 1)
        IN  /\ sent' = [sent EXCEPT ![q] = Append(@, x)]
            /\ \A n \in Senders :
                 Waiting(n)' = IF n = q[1] THEN Waiting(n) \o chunks ELSE Waiting(n)
  BY SendWaiting
<1> DEFINE n == Len(sent[p])
           w == wire[p]
           C == Waiting(p[1])
           u == Underway(p)
<1>2. /\ sent[p] \in Seq(Contents) /\ n \in Nat /\ DOMAIN sent[p] = 1 .. n
      /\ w \in Seq(Chunk) /\ C \in Seq(Chunk) /\ u = w \o C
  BY UnderwayType, LenProperties DEF SentKnown
<1>3. p = q
  BY <1>1 DEF SentKnown
<1>4. sent'[p] = Append(sent[p], x)
  BY <1>1, <1>3 DEF SentKnown
<1>5. k = n + 1 /\ sent'[p][k] = x
  <2>1. DOMAIN Append(sent[p], x) = 1 .. n + 1 /\ Append(sent[p], x)[n + 1] = x
    BY <1>2
  <2>2. k \in 1 .. n + 1 /\ k \notin 1 .. n
    BY <1>2, <1>4, <2>1
  <2> HIDE DEF n
  <2>3. k = n + 1
    BY <1>2, <2>2
  <2>4. QED
    BY <1>4, <2>1, <2>3
<1> DEFINE v == BuildChunks(p, x, ChunkLength, k)
<1>6. k \in Nat
  BY <1>2, <1>5
<1>7. v \in Seq(Chunk)
  BY <1>6, BuildChunksType
<1>8. Underway(p)' = w \o (C \o v)
  BY <1>1, <1>3, <1>5, SenderOfPair DEF Underway, Waiting, QueueSend
<1>9. ASSUME NEW i \in DOMAIN w PROVE ~ Belongs(w[i], p, k)
  <2>1. w[i] \in Chunk
    BY <1>2, LenProperties, ElementOfSeq
  <2>2. w[i].num \in Nat /\ w[i].num <= n
    BY <2>1 DEF WireKnown, Chunk
  <2> HIDE DEF n, w
  <2>3. w[i].num # k
    BY <1>2, <1>5, <2>2
  <2>4. QED
    BY <2>3 DEF Belongs
<1>10. ASSUME NEW i \in DOMAIN C PROVE ~ Belongs(C[i], p, k)
  <2>1. C[i] \in Chunk /\ ChunkKnown(C[i], p[1], sent)
    BY <1>2, LenProperties, ElementOfSeq, SenderOfPair DEF OutboxKnown
  <2>2. C[i].num \in Nat /\ (PairOf(C[i]) = p => C[i].num <= n)
    BY <2>1 DEF ChunkKnown, Chunk
  <2> HIDE DEF n, C
  <2>3. PairOf(C[i]) = p => C[i].num # k
    BY <1>2, <1>5, <2>2
  <2>4. QED
    BY <2>3 DEF Belongs
<1> HIDE DEF w, C, v, u, n
<1>11. /\ Underway(p)' = u \o v /\ u \in Seq(Chunk)
       /\ Len(u) \in Nat /\ Len(u \o v) = Len(u) + Len(v) /\ Len(v) \in Nat
  <2>1. u \in Seq(Chunk)
    BY <1>2, ConcatProperties
  <2>2. Underway(p)' = u \o v
    BY <1>2, <1>7, <1>8, ConcatAssociative
  <2>3. QED
    BY <1>7, <2>1, <2>2, ConcatProperties, LenProperties
<1>12. \A i \in DOMAIN u : ~ Belongs(u[i], p, k)
  BY <1>2, <1>9, <1>10, NoneOfBoth
<1>13. Follows(u \o v, p, x, k, Len(u), 0, Count(x))
  BY <1>6, <1>11, <1>12, FollowsSend DEF v
<1>14. Len(u) \in 0 .. Len(u \o v)
  BY <1>11
<1>15. QED
  BY <1>5, <1>11, <1>13, <1>14 DEF Following, Coming

\* A chunk that goes from the outbox to the wire passes only chunks of other pairs.
LEMMA PollTxSentFollows ==
  ASSUME HistoryOK, SendersOK, OutboxKnown, NEW n \in Senders, PollTxSent(n),
         NEW p \in Pairs, NEW k, NEW m \in Contents, Following(Underway(p), rx, got[p], p, m, k)
  PROVE  Following(Underway(p)', rx', got'[p], p, m, k)
<1> DEFINE e == OldestChunk(n)
           q == PairOf(e)
           w == wire[p]
           D == Waiting(p[1])'
<1>1. /\ outbox[n].count > 0 /\ OutboxPop(n) /\ rx' = rx /\ got' = got
      /\ wire' = [wire EXCEPT ![q] = Append(@, e)]
  BY DEF PollTxSent
<1>2. q \in Pairs /\ q[1] = n /\ e \in Chunk
  BY <1>1, OldestKnown, PopWaiting DEF ChunkKnown
<1>3. /\ p[1] = n => Waiting(p[1]) = <<e>> \o D /\ D \in Seq(Chunk)
      /\ p[1] # n => D = Waiting(p[1])
  BY <1>1, PopWaiting, SenderOfPair
<1>4. w \in Seq(Chunk) /\ Underway(p) = w \o Waiting(p[1]) /\ <<e>> \in Seq(Chunk)
  <2>1. w \in Seq(Chunk) /\ Underway(p) = w \o Waiting(p[1])
    BY UnderwayType
  <2> HIDE DEF e
  <2>2. <<e>> \in Seq(Chunk)
    BY <1>2
  <2>3. QED
    BY <2>1, <2>2
<1>5. Underway(p)' = wire'[p] \o D
  BY DEF Underway, Waiting
<1>6. CASE p = q
  <2>1. wire'[p] = Append(w, e)
    BY <1>1, <1>6 DEF HistoryOK
  <2>2. p[1] = n
    BY <1>2, <1>6
  <2> HIDE DEF e, w, D
  <2>3. Append(w, e) = w \o <<e>>
    BY <1>2, <1>4, AppendIsConcat
  <2>4. (w \o <<e>>) \o D = w \o (<<e>> \o D)
    BY <1>3, <1>4, <2>2, ConcatAssociative
  <2>5. Underway(p)' = Underway(p)
    BY <1>3, <1>4, <1>5, <2>1, <2>2, <2>3, <2>4
  <2>6. QED
    BY <1>1, <2>5
<1>7. CASE p # q /\ p[1] = n
  <2>1. wire'[p] = w
    BY <1>1, <1>7 DEF HistoryOK
  <2>2. ~ Belongs(e, p, k)
    BY <1>7 DEF Belongs
  <2> HIDE DEF e, w, D
  <2>3. Following(w \o (<<e>> \o D), rx, got[p], p, m, k)
    BY <1>3, <1>4, <1>7
  <2>4. Following(w \o D, rx, got[p], p, m, k)
    BY <1>2, <1>3, <1>4, <1>7, <2>2, <2>3, FollowingWithout
  <2>5. QED
    BY <1>1, <1>5, <2>1, <2>4
<1>8. CASE p # q /\ p[1] # n
  <2>1. wire'[p] = w
    BY <1>1, <1>8 DEF HistoryOK
  <2>2. QED
    BY <1>1, <1>3, <1>4, <1>5, <1>8, <2>1
<1>9. QED
  BY <1>6, <1>7, <1>8

LEMMA PollTxDroppedFollows ==
  ASSUME HistoryOK, SendersOK, OutboxKnown, NEW n \in Senders, PollTxDropped(n),
         NEW p \in Pairs, NEW k, NEW m \in Contents, Following(Underway(p), rx, got[p], p, m, k),
         <<p, k>> \notin harmed'
  PROVE  Following(Underway(p)', rx', got'[p], p, m, k)
<1> DEFINE e == OldestChunk(n)
           w == wire[p]
           D == Waiting(p[1])'
<1>1. /\ outbox[n].count > 0 /\ OutboxPop(n) /\ rx' = rx /\ got' = got /\ wire' = wire
      /\ harmed' = harmed \union {<<PairOf(e), e.num>>}
  BY DEF PollTxDropped, Harm
<1>2. e \in Chunk
  BY <1>1, PopWaiting
<1>3. /\ p[1] = n => Waiting(p[1]) = <<e>> \o D /\ D \in Seq(Chunk)
      /\ p[1] # n => D = Waiting(p[1])
  BY <1>1, PopWaiting, SenderOfPair
<1>4. w \in Seq(Chunk) /\ Underway(p) = w \o Waiting(p[1])
  BY UnderwayType
<1>5. Underway(p)' = w \o D
  BY <1>1 DEF Underway, Waiting
<1>6. ~ Belongs(e, p, k)
  BY <1>1 DEF Belongs
<1> HIDE DEF e, w, D
<1>7. CASE p[1] = n
  <2>1. Following(w \o (<<e>> \o D), rx, got[p], p, m, k)
    BY <1>3, <1>4, <1>7
  <2>2. Following(w \o D, rx, got[p], p, m, k)
    BY <1>2, <1>3, <1>4, <1>6, <1>7, <2>1, FollowingWithout
  <2>3. QED
    BY <1>1, <1>5, <2>2
<1>8. CASE p[1] # n
  BY <1>1, <1>3, <1>4, <1>5, <1>8
<1>9. QED
  BY <1>7, <1>8

\* What happens on the wire and in the table happens at the front of all that is
\* under way.
LEMMA ReceiverFollows ==
  ASSUME TableOK(rx, view), HistoryOK, SendersOK, WireKnown, outbox' = outbox,
         NEW q \in Pairs, WireMishap(q) \/ AddChunk(q) \/ Restart,
         NEW p \in Pairs, NEW k \in Nat \ {0}, NEW m \in Contents, Acceptable(p, m),
         Following(Underway(p), rx, got[p], p, m, k), <<p, k>> \notin harmed'
  PROVE  Following(Underway(p)', rx', got'[p], p, m, k)
<1> DEFINE w == wire[p]
           C == Waiting(p[1])
           s == Underway(p)
           u == Underway(p)'
<1>1. w \in Seq(Chunk) /\ C \in Seq(Chunk) /\ s = w \o C /\ s \in Seq(Chunk)
  BY UnderwayType
<1>2. u = wire'[p] \o C
  BY UnderwayNext
<1>3. ASSUME wire'[p] = w PROVE u = s
  BY <1>1, <1>2, <1>3
<1>4. ASSUME w # <<>>, wire'[p] = Tail(w)
      PROVE  s # <<>> /\ Head(s) = Head(w) /\ u = Tail(s)
  <2> HIDE DEF w, C, u, s
  <2>1. Head(w) \in Chunk
    BY <1>1, <1>4, HeadTailProperties
  <2>2. QED
    BY <1>1, <1>2, <1>4, <2>1, FrontConcat, SMTT(30)
<1>5. ASSUME NEW x \in Chunk, wire'[p] = <<x>> \o w PROVE u = <<x>> \o s
  <2> HIDE DEF w, C, u, s
  <2>1. QED
    BY <1>1, <1>2, <1>5, FrontConcat
<1>6. CASE Lose(q) \/ Duplicate(q)
  <2>1. IF q = p THEN w # <<>> /\ (wire'[p] = Tail(w) \/ wire'[p] = <<Head(w)>> \o w)
                 ELSE wire'[p] = w
    BY <1>6 DEF Lose, Duplicate, HistoryOK
  <2>2. IF q = p THEN /\ s # <<>> /\ Head(s) = Head(w)
                      /\ u = Tail(s) \/ u = <<Head(s)>> \o s
                 ELSE u = s
    <3> HIDE DEF w, C, u, s
    <3>1. CASE q = p
      <4>1. w # <<>> /\ Head(w) \in Chunk
        BY <1>1, <2>1, <3>1, HeadTailProperties
      <4>2. s # <<>> /\ Head(s) = Head(w)
        BY <1>1, <4>1, FrontConcat
      <4>3. QED
        BY <1>4, <1>5, <2>1, <3>1, <4>1, <4>2
    <3>2. CASE q # p
      BY <1>3, <2>1, <3>2
    <3>3. QED
      BY <3>1, <3>2
  <2> HIDE DEF u, s
  <2>3. Following(s, rx, got[p], p, m, k)
    BY DEF s
  <2>4. Following(u, rx', got'[p], p, m, k)
    BY <1>1, <1>6, <2>2, <2>3, MishapFollows
  <2>5. QED
    BY <2>4 DEF u
<1>7. CASE Intrude(q)
  <2>1. IF q = p THEN \E ch \in Noise : wire'[p] = <<ch>> \o w ELSE wire'[p] = w
    BY <1>7 DEF Intrude, HistoryOK
  <2>2. IF q = p THEN \E ch \in Noise : u = <<ch>> \o s ELSE u = s
    <3> HIDE DEF w, C, u, s
    <3>1. CASE q = p
      <4>1. PICK ch \in Noise : wire'[p] = <<ch>> \o w
        BY <2>1, <3>1
      <4>2. ch \in Chunk
        BY TrafficAssumption
      <4>3. u = <<ch>> \o s
        BY <1>5, <4>1, <4>2
      <4>4. QED
        BY <3>1, <4>3
    <3>2. CASE q # p
      BY <1>3, <2>1, <3>2
    <3>3. QED
      BY <3>1, <3>2
  <2> HIDE DEF u, s
  <2>3. Following(s, rx, got[p], p, m, k)
    BY DEF s
  <2>4. Following(u, rx', got'[p], p, m, k)
    BY <1>1, <1>7, <2>2, <2>3, IntrudeFollows
  <2>5. QED
    BY <2>4 DEF u
<1>8. CASE AddChunk(q)
  <2>1. IF q = p THEN w # <<>> /\ wire'[p] = Tail(w) ELSE wire'[p] = w
    BY <1>8 DEF AddChunk, Taken, HistoryOK
  <2>2. IF q = p THEN s # <<>> /\ Head(s) = Head(w) /\ u = Tail(s) ELSE u = s
    <3> HIDE DEF w, C, u, s
    <3>1. QED
      BY <1>3, <1>4, <2>1
  <2> HIDE DEF u, s
  <2>3. Following(s, rx, got[p], p, m, k)
    BY DEF s
  <2>4. Following(u, rx', got'[p], p, m, k)
    BY <1>1, <1>8, <2>2, <2>3, AddChunkFollows
  <2>5. QED
    BY <2>4 DEF u
<1>9. CASE Restart
  <2>1. u = s
    BY <1>3, <1>9 DEF Restart
  <2> HIDE DEF u, s
  <2>2. Following(s, rx, got[p], p, m, k)
    BY DEF s
  <2>3. Following(s, rx', got'[p], p, m, k)
    BY <1>9, <2>2, RestartFollows
  <2>4. QED
    BY <2>1, <2>3 DEF u
<1>10. QED
  BY <1>6, <1>7, <1>8, <1>9 DEF WireMishap

\* What was handed over stays kept while the inbox keeps what it has.
LEMMA GotKeptStays ==
  ASSUME GotKept, got' = got, Extends(kept', kept), dropped \subseteq dropped'
  PROVE  GotKept'
<1> SUFFICES ASSUME NEW p \in Pairs, NEW i \in DOMAIN got[p]
             PROVE  <<p, got[p][i].num>> \in dropped'
                    \/ \E j \in DOMAIN kept' : Matches(kept'[j], p, got[p][i])
  BY DEF GotKept
<1>1. CASE <<p, got[p][i].num>> \in dropped
  BY <1>1
<1>2. ASSUME NEW j \in DOMAIN kept, Matches(kept[j], p, got[p][i])
      PROVE  j \in DOMAIN kept' /\ Matches(kept'[j], p, got[p][i])
  BY <1>2 DEF Extends
<1>3. QED
  BY <1>1, <1>2 DEF GotKept

\* A message is handed over by making it the view.
LEMMA HandedIsViewed ==
  ASSUME TableOK(rx, view), HistoryOK, NEW q \in Pairs, AddChunk(q)
  PROVE  \/ got' = got
         \/ /\ ChunkLen(Head(wire[q])) <= MESSAGE_MAXLEN /\ view' # 0
            /\ HandOver(rx'[view'])
<1> DEFINE ch == Head(wire[q])
           sig == Signature(ch.id)
           c == Chosen(sig)
           b == Filled(Found(sig), ch)
<1>1. ChunkLen(ch) <= MESSAGE_MAXLEN \/ got' = got
  BY DEF AddChunk, AddInvalid
<1>2. got' = got \/ (Available(sig) # {} /\ AddCompleted(q, ch, c, b))
  BY DEF AddChunk, AddInvalid, AddUnrelated, AddWithoutChannel, AddRefused, AddStored
<1>3. ASSUME Available(sig) # {}, AddCompleted(q, ch, c, b)
      PROVE  view' # 0 /\ HandOver(rx'[view'])
  <2>1. rx' = [Released EXCEPT ![c] = b] /\ view' = c /\ HandOver(b)
    BY <1>3, QueueAssumption DEF AddCompleted
  <2>2. c \in Channels
    BY <1>3, ChosenOK, ReleasedOK
  <2>3. c # 0 /\ rx'[c] = b
    BY <2>1, <2>2, NoView DEF Released
  <2>4. QED
    BY <2>1, <2>3
<1>4. QED
  BY <1>1, <1>2, <1>3

LEMMA AddChunkKept ==
  ASSUME TableOK(rx, view), HistoryOK, InboxOK, GotKept, NEW q \in Pairs, QueueAddChunk(q)
  PROVE  GotKept'
<1> DEFINE m == ViewedMessage
           Entry == [id : Nat, data : Seq(Nat), num : Nat]
<1>1. \/ got' = got
      \/ /\ ChunkLen(Head(wire[q])) <= MESSAGE_MAXLEN /\ view' # 0
         /\ HandOver(rx'[view'])
  BY HandedIsViewed DEF QueueAddChunk
<1>2. kept \in Seq(InboxMessage) /\ Len(kept) \in Nat /\ DOMAIN kept = 1 .. Len(kept)
  BY LenProperties DEF InboxOK
<1>3. /\ kept' = kept \/ kept' = Append(kept, m)
      /\ dropped \subseteq dropped'
  BY DEF QueueAddChunk, InboxPush
<1>4. Extends(kept', kept)
  <2> HIDE DEF m
  <2>1. \A i \in 1 .. Len(kept) : i \in DOMAIN Append(kept, m) /\ Append(kept, m)[i] = kept[i]
    BY <1>2
  <2>2. QED
    BY <1>2, <1>3, <2>1 DEF Extends
<1>5. CASE got' = got
  BY <1>3, <1>4, <1>5, GotKeptStays
<1>6. CASE /\ ChunkLen(Head(wire[q])) <= MESSAGE_MAXLEN /\ view' # 0
           /\ HandOver(rx'[view'])
  <2> DEFINE o == <<m.from, m.to>>
             x == [id |-> m.id, data |-> m.data, num |-> m.num]
  <2>1. got' = [got EXCEPT ![o] = Append(@, x)]
    BY <1>6 DEF HandOver, ViewedMessage
  <2>2. InboxPush(m)
    BY <1>6 DEF QueueAddChunk
  <2>3. \/ kept' = Append(kept, m)
        \/ <<o, m.num>> \in dropped'
    BY <2>2 DEF InboxPush
  <2>4. x.num = m.num /\ x.data = m.data /\ o[1] = m.from /\ o[2] = m.to
    OBVIOUS
  <2> HIDE DEF x, m, Entry
  <2>5. <<o, x.num>> \in dropped' \/ \E j \in DOMAIN kept' : Matches(kept'[j], o, x)
    <3>1. ASSUME kept' = Append(kept, m)
          PROVE  Len(kept) + 1 \in DOMAIN kept' /\ kept'[Len(kept) + 1] = m
      BY <1>2, <3>1
    <3>2. Matches(m, o, x)
      BY <2>4 DEF Matches
    <3>3. QED
      BY <2>3, <2>4, <3>1, <3>2
  <2> HIDE DEF o
  <2> SUFFICES ASSUME NEW p \in Pairs, NEW i \in DOMAIN got'[p]
               PROVE  <<p, got'[p][i].num>> \in dropped'
                      \/ \E j \in DOMAIN kept' : Matches(kept'[j], p, got'[p][i])
    BY DEF GotKept
  <2>6. got[p] \in Seq(Entry) /\ Len(got[p]) \in Nat /\ DOMAIN got[p] = 1 .. Len(got[p])
    BY LenProperties DEF HistoryOK, Entry
  <2>7. CASE p = o /\ i = Len(got[p]) + 1
    <3>1. got'[p] = Append(got[p], x)
      BY <2>1, <2>7 DEF HistoryOK
    <3>2. got'[p][i] = x
      BY <2>6, <2>7, <3>1
    <3>3. QED
      BY <2>5, <2>7, <3>2
  <2>8. CASE ~ (p = o /\ i = Len(got[p]) + 1)
    <3>1. i \in DOMAIN got[p] /\ got'[p][i] = got[p][i]
      <4>1. CASE p = o
        <5>1. got'[p] = Append(got[p], x)
          BY <2>1, <4>1 DEF HistoryOK
        <5>2. QED
          BY <2>6, <2>8, <4>1, <5>1
      <4>2. CASE p # o
        BY <2>1, <4>2 DEF HistoryOK
      <4>3. QED
        BY <4>1, <4>2
    <3>2. CASE <<p, got[p][i].num>> \in dropped
      BY <1>3, <3>1, <3>2
    <3>3. ASSUME NEW j \in DOMAIN kept, Matches(kept[j], p, got[p][i])
          PROVE  j \in DOMAIN kept' /\ Matches(kept'[j], p, got[p][i])
      BY <1>4, <3>3 DEF Extends
    <3>4. QED
      BY <3>1, <3>2, <3>3 DEF GotKept
  <2>9. QED
    BY <2>7, <2>8
<1>7. QED
  BY <1>1, <1>5, <1>6

\* What still waits in the inbox at a restart is dropped.
LEMMA RestartKept ==
  ASSUME HistoryOK, InboxOK, GotKept, QueueRestart
  PROVE  GotKept'
<1> DEFINE C == RingContents(inbox, InboxSize)
<1>1. /\ got' = got /\ kept' = handed /\ kept = handed \o C
      /\ dropped' = dropped \union
           {<< <<m.from, m.to>>, m.num>> : m \in {C[k] : k \in 1 .. inbox.count}}
  BY DEF QueueRestart, Restart, InboxOK, InboxKeepsOrder, Finished
<1>2. handed \in Seq(InboxMessage) /\ inbox \in Rings(InboxSize, InboxMessage)
  BY DEF InboxOK
<1>3. C \in Seq(InboxMessage) /\ Len(C) = inbox.count
  <2>1. C \in Seq(InboxMessage)
    BY <1>2, QueueAssumption, RingContentsType
  <2>2. inbox.count \in Nat
    BY <1>2, QueueAssumption DEF Rings
  <2>3. QED
    BY <2>1, <2>2 DEF RingContents
<1> HIDE DEF C
<1>4. /\ Len(handed) \in Nat /\ Len(C) \in Nat /\ DOMAIN handed = 1 .. Len(handed)
      /\ DOMAIN kept = 1 .. Len(handed) + Len(C)
      /\ \A j \in 1 .. Len(handed) + Len(C) :
           kept[j] = IF j <= Len(handed) THEN handed[j] ELSE C[j - Len(handed)]
  BY <1>1, <1>2, <1>3, ConcatProperties, LenProperties
<1> SUFFICES ASSUME NEW p \in Pairs, NEW i \in DOMAIN got[p]
             PROVE  <<p, got[p][i].num>> \in dropped'
                    \/ \E j \in DOMAIN handed : Matches(handed[j], p, got[p][i])
  BY <1>1 DEF GotKept
<1>5. CASE <<p, got[p][i].num>> \in dropped
  BY <1>1, <1>5
<1>6. ASSUME NEW j \in DOMAIN kept, Matches(kept[j], p, got[p][i])
      PROVE  <<p, got[p][i].num>> \in dropped'
             \/ \E l \in DOMAIN handed : Matches(handed[l], p, got[p][i])
  <2>1. CASE j <= Len(handed)
    <3>1. j \in DOMAIN handed /\ kept[j] = handed[j]
      BY <1>4, <2>1
    <3>2. QED
      BY <1>6, <3>1
  <2>2. CASE ~ (j <= Len(handed))
    <3> DEFINE y == j - Len(handed)
    <3>1. y \in 1 .. inbox.count /\ kept[j] = C[y]
      BY <1>3, <1>4, <2>2
    <3> HIDE DEF y
    <3>2. << <<C[y].from, C[y].to>>, C[y].num>> \in dropped'
      BY <1>1, <3>1
    <3>3. p = <<C[y].from, C[y].to>> /\ got[p][i].num = C[y].num
      <4>1. p = <<p[1], p[2]>>
        BY PairType
      <4>2. QED
        BY <1>6, <3>1, <4>1 DEF Matches
    <3>4. QED
      BY <3>2, <3>3
  <2>3. QED
    BY <2>1, <2>2
<1>7. QED
  BY <1>5, <1>6 DEF GotKept

LEMMA QueueNextKnown ==
  ASSUME HistoryOK, SendersOK, SentKnown, WireKnown, OutboxKnown, [QueueNext]_queueVars
  PROVE  SentKnown' /\ WireKnown' /\ OutboxKnown'
<1> DEFINE Known == SentKnown' /\ WireKnown' /\ OutboxKnown'
<1>1. ASSUME outbox' = outbox, sent' = sent PROVE OutboxKnown'
  BY <1>1 DEF OutboxKnown, Waiting
<1>2. ASSUME wire' = wire, sent' = sent PROVE SentKnown' /\ WireKnown'
  BY <1>2 DEF SentKnown, WireKnown
<1>3. ASSUME NEW p \in Pairs, QueueSend(p) PROVE Known
  BY <1>3, QueueSendKnown
<1>4. ASSUME NEW p \in Pairs, QueueAddChunk(p) \/ WireMishap(p) PROVE Known
  <2>1. Next /\ sent' = sent /\ outbox' = outbox
    BY <1>4 DEF QueueAddChunk, WireMishap, Next, AddChunk, Lose, Duplicate, Intrude, senderVars
  <2>2. QED
    BY <1>1, <2>1, NextKnown
<1>5. ASSUME NEW n \in Senders, PollTxSent(n) PROVE Known
  BY <1>5, PollTxSentKnown
<1>6. ASSUME NEW n \in Senders, PollTxDropped(n) PROVE Known
  BY <1>2, <1>6, PopKnown DEF PollTxDropped
<1>7. ASSUME NEW n \in Senders, PollTxAgain(n) PROVE Known
  BY <1>1, <1>2, <1>7 DEF PollTxAgain, protocolVars
<1>8. CASE PollNewBegin \/ PollNewEnd \/ UNCHANGED queueVars
  BY <1>1, <1>2, <1>8 DEF PollNewBegin, PollNewEnd, queueVars, protocolVars, senderVars
<1>9. CASE QueueRestart
  BY <1>1, <1>2, <1>9 DEF QueueRestart, Restart, senderVars
<1>10. QED
  BY <1>3, <1>4, <1>5, <1>6, <1>7, <1>8, <1>9 DEF QueueNext

\* No step makes a harmed message unharmed.
LEMMA QueueHarmedStays == [QueueNext]_queueVars => harmed \subseteq harmed'
<1> SUFFICES ASSUME [QueueNext]_queueVars PROVE harmed \subseteq harmed'
  OBVIOUS
<1>1. Next \/ UNCHANGED harmed \/ \E q, k : Harm(q, k)
  BY DEF QueueNext, queueVars, protocolVars, QueueSend, QueueAddChunk, WireMishap, PollTxSent,
         PollTxDropped, PollTxAgain, PollNewBegin, PollNewEnd, QueueRestart, Next
<1>2. QED
  BY <1>1, HarmedStays DEF Harm

LEMMA QueueNextFollows ==
  ASSUME TableOK(rx, view), HistoryOK, SendersOK, SentKnown, WireKnown, OutboxKnown,
         [QueueNext]_queueVars, NEW p \in Pairs, NEW k \in DOMAIN sent[p], MessagePasses(p, k),
         Acceptable(p, sent[p][k]), <<p, k>> \notin harmed'
  PROVE  Following(Underway(p)', rx', got'[p], p, sent[p][k], k)
<1>1. /\ sent[p] \in Seq(Contents) /\ DOMAIN sent[p] = 1 .. Len(sent[p])
      /\ Len(sent[p]) \in Nat
  BY LenProperties DEF SentKnown
<1>2. PICK m \in Contents : m = sent[p][k]
  BY <1>1, ElementOfSeq
<1>3. k \in Nat \ {0} /\ k \in 1 .. Len(sent[p])
  BY <1>1
<1>4. Following(Underway(p), rx, got[p], p, m, k)
  BY <1>2, QueueHarmedStays DEF MessagePasses
<1>5. Acceptable(p, m)
  BY <1>2
<1> DEFINE Goal == Following(Underway(p)', rx', got'[p], p, m, k)
<1>6. ASSUME NEW q \in Pairs, QueueSend(q) PROVE Goal
  BY <1>3, <1>4, <1>6, QueueSendFollows
<1>7. ASSUME NEW q \in Pairs, QueueAddChunk(q) \/ WireMishap(q) PROVE Goal
  <2>1. outbox' = outbox /\ (WireMishap(q) \/ AddChunk(q) \/ Restart)
    BY <1>7 DEF QueueAddChunk, WireMishap, senderVars
  <2>2. QED
    BY <1>3, <1>4, <1>5, <2>1, ReceiverFollows
<1>8. ASSUME QueueRestart PROVE Goal
  <2>1. outbox' = outbox /\ (WireMishap(p) \/ AddChunk(p) \/ Restart)
    BY <1>8 DEF QueueRestart, senderVars
  <2>2. QED
    BY <1>3, <1>4, <1>5, <2>1, ReceiverFollows
<1>9. ASSUME NEW n \in Senders, PollTxSent(n) PROVE Goal
  BY <1>4, <1>9, PollTxSentFollows
<1>10. ASSUME NEW n \in Senders, PollTxDropped(n) PROVE Goal
  BY <1>4, <1>10, PollTxDroppedFollows
<1>11. ASSUME UNCHANGED <<wire, rx, got, outbox>> PROVE Goal
  BY <1>4, <1>11 DEF Underway
<1>12. ASSUME \/ \E n \in Senders : PollTxAgain(n)
              \/ PollNewBegin \/ PollNewEnd \/ UNCHANGED queueVars
       PROVE  Goal
  <2>1. UNCHANGED <<wire, rx, got, outbox>>
    BY <1>12 DEF PollTxAgain, PollNewBegin, PollNewEnd, queueVars, protocolVars, senderVars
  <2>2. QED
    BY <1>11, <2>1
<1> HIDE DEF Goal
<1>13. Goal
  BY <1>6, <1>7, <1>8, <1>9, <1>10, <1>12 DEF QueueNext
<1>14. QED
  BY <1>2, <1>13 DEF Goal

LEMMA QueueNextKept ==
  ASSUME TableOK(rx, view), HistoryOK, InboxOK, GotKept, [QueueNext]_queueVars
  PROVE  GotKept'
<1>1. ASSUME UNCHANGED <<got, kept, dropped>> PROVE GotKept'
  BY <1>1 DEF GotKept
<1>2. ASSUME NEW q \in Pairs, QueueAddChunk(q) PROVE GotKept'
  BY <1>2, AddChunkKept
<1>3. CASE QueueRestart
  BY <1>3, RestartKept
<1>4. ASSUME \/ \E q \in Pairs : QueueSend(q) \/ WireMishap(q)
             \/ \E n \in Senders : PollTxSent(n) \/ PollTxDropped(n) \/ PollTxAgain(n)
             \/ PollNewBegin \/ PollNewEnd \/ UNCHANGED queueVars
      PROVE  UNCHANGED <<got, kept, dropped>>
  BY <1>4 DEF QueueSend, WireMishap, Lose, Duplicate, Intrude, PollTxSent, PollTxDropped,
              PollTxAgain, PollNewBegin, PollNewEnd, queueVars, protocolVars, inboxVars
<1>5. QED
  BY <1>1, <1>2, <1>3, <1>4 DEF QueueNext

LEMMA QueueInitPasses == QueueInit => MessagesPass
<1> SUFFICES ASSUME QueueInit PROVE MessagesPass
  OBVIOUS
<1>1. SentKnown
  BY EmptySeq DEF QueueInit, Init, SentKnown
<1>2. \A p \in Pairs : DOMAIN wire[p] = {} /\ DOMAIN sent[p] = {} /\ DOMAIN got[p] = {}
  BY DEF QueueInit, Init
<1>3. \A n \in Senders : Waiting(n) = <<>>
  BY DEF QueueInit, Waiting, EmptyRing, RingContents
<1>4. OutboxKnown
  BY <1>3 DEF OutboxKnown
<1>5. QED
  BY <1>1, <1>2, <1>4, PassParts DEF WireKnown, GotKept

LEMMA QueueNextPasses ==
  QueueInvariant /\ MessagesPass /\ [QueueNext]_queueVars => MessagesPass'
<1> SUFFICES ASSUME QueueInvariant, MessagesPass, [QueueNext]_queueVars PROVE MessagesPass'
  OBVIOUS
<1>1. TableOK(rx, view) /\ HistoryOK /\ SendersOK /\ InboxOK
  BY QueueParts
<1>2. /\ SentKnown /\ WireKnown /\ OutboxKnown /\ GotKept
      /\ \A p \in Pairs : \A k \in DOMAIN sent[p] : MessagePasses(p, k)
  BY PassParts
<1>3. SentKnown' /\ WireKnown' /\ OutboxKnown' /\ GotKept'
  BY <1>1, <1>2, QueueNextKnown, QueueNextKept
<1>4. ASSUME NEW p \in Pairs, NEW k \in DOMAIN sent'[p] PROVE MessagePasses(p, k)'
  <2> SUFFICES ASSUME Acceptable(p, sent'[p][k]), <<p, k>> \notin harmed'
               PROVE  Following(Underway(p)', rx', got'[p], p, sent'[p][k], k)
    BY DEF MessagePasses, Acceptable
  <2>1. sent' = sent \/ \E q \in Pairs : QueueSend(q)
    BY DEF QueueNext, queueVars, protocolVars, QueueAddChunk, AddChunk, WireMishap, Lose,
           Duplicate, Intrude, PollTxSent, PollTxDropped, PollTxAgain, PollNewBegin, PollNewEnd,
           QueueRestart, Restart
  <2>2. CASE k \in DOMAIN sent[p]
    <3>1. sent'[p][k] = sent[p][k]
      <4>1. CASE sent' = sent
        BY <4>1
      <4>2. ASSUME NEW q \in Pairs, QueueSend(q) PROVE sent'[p][k] = sent[p][k]
        <5>1. sent[p] \in Seq(Contents) /\ k \in 1 .. Len(sent[p])
          BY <1>2, <2>2, LenProperties DEF SentKnown
        <5>2. PICK x : sent' = [sent EXCEPT ![q] = Append(@, x)]
          BY <4>2 DEF QueueSend
        <5>3. Append(sent[p], x)[k] = sent[p][k]
          BY <5>1
        <5>4. sent'[p] = sent[p] \/ sent'[p] = Append(sent[p], x)
          BY <1>2, <5>2 DEF SentKnown
        <5>5. QED
          BY <5>3, <5>4
      <4>3. QED
        BY <2>1, <4>1, <4>2
    <3>2. MessagePasses(p, k)
      BY <1>2, <2>2
    <3>3. Following(Underway(p)', rx', got'[p], p, sent[p][k], k)
      BY <1>1, <1>2, <2>2, <3>1, <3>2, QueueNextFollows
    <3>4. QED
      BY <3>1, <3>3
  <2>3. CASE k \notin DOMAIN sent[p]
    <3>1. PICK q \in Pairs : QueueSend(q)
      BY <2>1, <2>3
    <3>2. QED
      BY <1>1, <1>2, <2>3, <3>1, QueueSentFollows
  <2>4. QED
    BY <2>2, <2>3
<1>5. QED
  BY <1>3, <1>4, PassPartsNext

\* With nothing of it under way and an empty inbox, a message can only have been
\* handed over, dropped, or given to rx_event.
LEMMA PassDelivers == QueueInvariant /\ MessagesPass => UndroppedIsHanded
<1> SUFFICES ASSUME QueueInvariant, MessagesPass,
                    NEW p \in Pairs, NEW k \in DOMAIN sent[p],
                    Acceptable(p, sent[p][k]), <<p, k>> \notin harmed \union dropped,
                    \A q \in DOMAIN wire[p] : wire[p][q].num # k,
                    \A i \in DOMAIN Waiting(p[1]) :
                      PairOf(Waiting(p[1])[i]) = p => Waiting(p[1])[i].num # k,
                    inbox.count = 0
             PROVE  \E j \in DOMAIN handed :
                      /\ handed[j].from = p[1] /\ handed[j].to = p[2] /\ handed[j].num = k
                      /\ handed[j].data = sent[p][k].data
  BY Zenon DEF UndroppedIsHanded, Waiting
<1>1. HistoryOK /\ SendersOK /\ InboxOK
  BY QueueParts
<1>2. /\ SentKnown /\ GotKept /\ MessagePasses(p, k)
  BY PassParts
<1> DEFINE w == wire[p]
           C == Waiting(p[1])
           u == Underway(p)
<1>3. w \in Seq(Chunk) /\ C \in Seq(Chunk) /\ u = w \o C /\ u \in Seq(Chunk)
  BY <1>1, UnderwayType
<1>4. /\ \A i \in DOMAIN w : ~ Belongs(w[i], p, k)
      /\ \A i \in DOMAIN C : ~ Belongs(C[i], p, k)
  BY DEF Belongs
<1>5. PICK m \in Contents : m = sent[p][k]
  BY <1>2, ElementOfSeq, LenProperties DEF SentKnown
<1>6. Following(u, rx, got[p], p, m, k)
  BY <1>2, <1>5 DEF MessagePasses
<1> HIDE DEF w, C, u
<1>7. \A i \in DOMAIN u : ~ Belongs(u[i], p, k)
  BY <1>3, <1>4, NoneOfBoth
<1>8. PICK i \in DOMAIN got[p] : got[p][i] = [id |-> m.id, data |-> m.data, num |-> k]
  <2>1. u \in Seq(Chunk) /\ m \in Contents
    BY <1>3
  <2>2. \E i \in DOMAIN got[p] : got[p][i] = [id |-> m.id, data |-> m.data, num |-> k]
    BY <1>6, <1>7, <2>1, OnlyHandedOver
  <2>3. QED
    BY <2>2
<1>9. PICK j \in DOMAIN kept : Matches(kept[j], p, got[p][i])
  BY <1>2, <1>8 DEF GotKept
<1>10. /\ kept[j].from = p[1] /\ kept[j].to = p[2] /\ kept[j].num = k
       /\ kept[j].data = sent[p][k].data
  BY <1>5, <1>8, <1>9 DEF Matches
<1>11. j \in DOMAIN handed /\ handed[j] = kept[j]
  <2>1. kept = Finished \o RingContents(inbox, InboxSize)
    BY <1>1 DEF InboxOK, InboxKeepsOrder
  <2>2. RingContents(inbox, InboxSize) = <<>>
    BY DEF RingContents
  <2>3. ~ busy
    BY <1>1 DEF InboxOK, EventMessageStays
  <2>4. kept = handed
    BY <1>1, <2>1, <2>2, <2>3, ConcatEmptySeq DEF Finished, InboxOK
  <2>5. QED
    BY <2>4
<1>12. QED
  BY <1>10, <1>11

-----------------------------------------------------------------------------
(* What waits in the outbox is ahead of what the receiver has.             *)

\* A message that becomes the view is handed over as announced.
LEMMA ViewIsHanded ==
  ASSUME TableOK(rx, view), HistoryOK, MessagesRise, NEW q \in Pairs, AddChunk(q),
         ChunkLen(Head(wire[q])) <= MESSAGE_MAXLEN, view' # 0
  PROVE  Handed(rx'[view'])
<1> DEFINE ch == Head(wire[q])
           sig == Signature(ch.id)
           c == Chosen(sig)
           b == Filled(Found(sig), ch)
<1>1. /\ wire[q] # <<>> /\ wire' = [wire EXCEPT ![q] = Tail(@)]
      /\ wire[q] \in Seq(Chunk)
  BY DEF AddChunk, Taken, HistoryOK
<1>2. ~ AddInvalid(ch)
  <2>1. ch \in Chunk
    BY <1>1, HeadTailProperties
  <2>2. ChunkLen(ch) \in Nat
    <3> HIDE DEF ch
    <3>1. ch.body \in Seq(Nat)
      BY <2>1 DEF Chunk
    <3>2. Len(ch.body) \in Nat
      BY <3>1, LenProperties
    <3>3. CASE ch.headed
      BY <3>2, <3>3 DEF ChunkLen, HEADER_SIZE
    <3>4. CASE ~ ch.headed
      BY <3>2, <3>4 DEF ChunkLen
    <3>5. QED
      BY <3>3, <3>4
  <2>3. ChunkLen(ch) <= MESSAGE_MAXLEN
    OBVIOUS
  <2> HIDE DEF ch
  <2>4. QED
    BY <2>2, <2>3 DEF AddInvalid, MESSAGE_MAXLEN
<1>3. Available(sig) # {} /\ AddCompleted(q, ch, c, b)
  BY <1>2 DEF AddChunk, AddUnrelated, AddWithoutChannel, AddRefused, AddStored
<1>4. /\ rx' = [Released EXCEPT ![c] = b] /\ view' = c /\ HandOver(b)
      /\ ~ Refused(ch) /\ Complete(b)
  BY <1>3, QueueAssumption DEF AddCompleted
<1>5. c \in Channels
  BY <1>3, ChosenOK, ReleasedOK
<1>6. HeldRises(b, wire', sent) /\ b.num > Passed[Owner(b)]
  BY <1>1, <1>3, <1>4, FilledRises
<1> HIDE DEF b, c
<1>7. rx'[view'] = b
  BY <1>4, <1>5 DEF Released
<1>8. Handed(b)
  BY <1>4, <1>6 DEF Handed, HeldRises
<1>9. QED
  BY <1>7, <1>8

\* What a chunk makes of a reassembly has the number of the chunk or of what
\* was there.
LEMMA FilledAhead ==
  ASSUME TableOK(rx, view), HistoryOK, MessagesRise, NEW q \in Pairs, wire[q] # <<>>,
         NEW ch, ch = Head(wire[q]), Available(Signature(ch.id)) # {}, ~ Refused(ch),
         NEW p \in Pairs, NEW k, Ahead(p, k)
  PROVE  LET b == Filled(Found(Signature(ch.id)), ch) IN Owner(b) = p => b.num < k
<1> DEFINE sig == Signature(ch.id)
           old == Found(sig)
           b == Filled(old, ch)
           w == wire[q]
<1> SUFFICES ASSUME Owner(b) = p PROVE b.num < k
  OBVIOUS
<1>1. WireRises(w, q, sent[q], Passed[q])
  BY RiseParts
<1>2. 1 \in DOMAIN w /\ ch = w[1]
  <2>1. w \in Seq(Chunk) /\ w # <<>>
    BY DEF HistoryOK
  <2> HIDE DEF w
  <2>2. QED
    BY <2>1, FirstsOfTail DEF w
<1>3. CASE CanIdIsFirst(ch.id)
  <2>1. 1 \in Firsts(w)
    BY <1>2, <1>3 DEF Firsts
  <2>2. PairOf(ch) = q
    BY <1>1, <1>2, <2>1 DEF WireRises
  <2>3. b.from = CanIdFrom(ch.id) /\ b.to = CanIdTo(ch.id) /\ b.num = ch.num
    BY <1>3 DEF Filled
  <2>4. q = p
    BY <2>2, <2>3 DEF Owner, PairOf
  <2>5. QED
    BY <1>2, <2>1, <2>3, <2>4 DEF Ahead
<1>4. CASE ~ CanIdIsFirst(ch.id)
  <2> DEFINE c == Chosen(sig)
  <2>1. old.id # ERROR_ID
    BY <1>4 DEF Refused, DataRefused
  <2>2. Holding(sig) # {}
    BY <2>1 DEF Found, NewBuffer, FreeBuffer
  <2>3. c \in Channels /\ Released[c].in_use /\ old = Released[c]
    BY <2>2, ChosenOK, ReleasedOK DEF Found
  <2>4. old = rx[c] /\ rx[c].in_use
    BY <2>3, FreeBufferType DEF Released
  <2>5. old \in Buffer
    BY <2>3, <2>4 DEF TableOK
  <2>6. b = [old EXCEPT !.payload = @ \o ch.body]
    BY <1>4 DEF Filled
  <2>7. b.from = old.from /\ b.to = old.to /\ b.num = old.num
    BY <2>5, <2>6 DEF Buffer
  <2> HIDE DEF old, b, c
  <2>8. <<rx[c].from, rx[c].to>> = p
    BY <2>4, <2>7 DEF Owner
  <2>9. QED
    BY <2>3, <2>4, <2>7, <2>8 DEF Ahead
<1>5. QED
  BY <1>3, <1>4

\* A reassembly after a chunk is as it was, or what the chunk made of one.
LEMMA TableNext ==
  ASSUME TableOK(rx, view), NEW q \in Pairs, AddChunk(q), NEW d \in Channels, rx'[d].in_use
  PROVE  LET ch == Head(wire[q])
             sig == Signature(ch.id)
         IN  \/ rx'[d] = rx[d]
             \/ /\ Available(sig) # {} /\ ~ Refused(ch)
                /\ rx'[d] = Filled(Found(sig), ch)
<1> DEFINE ch == Head(wire[q])
           sig == Signature(ch.id)
           c == Chosen(sig)
           b == Filled(Found(sig), ch)
<1>1. Released \in [Channels -> Buffer]
  BY ReleasedOK DEF TableOK
<1>2. Released[d].in_use => Released[d] = rx[d]
  BY FreeBufferType DEF Released
<1>3. \/ rx' = rx \/ rx' = Released \/ rx' = [Released EXCEPT ![c] = FreeBuffer]
      \/ rx' = [Released EXCEPT ![c] = b] /\ Available(sig) # {} /\ ~ Refused(ch)
  BY QueueAssumption DEF AddChunk, AddInvalid, AddUnrelated, AddWithoutChannel, AddRefused,
                         AddStored, AddCompleted
<1> HIDE DEF b, c
<1>4. \/ rx'[d] = rx[d] \/ rx'[d] = Released[d]
      \/ rx'[d] = b /\ Available(sig) # {} /\ ~ Refused(ch)
  BY <1>1, <1>3, FreeBufferType
<1>5. QED
  BY <1>2, <1>4 DEF b

\* What is ahead of the receiver stays so whatever happens there.
LEMMA AheadStays ==
  ASSUME HistoryOK, NEW q \in Pairs, wire[q] # <<>>, wire' = [wire EXCEPT ![q] = Tail(@)],
         NEW p \in Pairs, NEW k, Ahead(p, k), Passed'[p] < k,
         \A d \in Channels : rx'[d].in_use /\ Owner(rx'[d]) = p => rx'[d].num < k
  PROVE  Ahead(p, k)'
<1>1. \A j \in Firsts(wire'[p]) : wire'[p][j].num < k
  <2>1. CASE p = q
    <3> DEFINE w == wire[q]
    <3>1. w \in Seq(Chunk) /\ w # <<>> /\ wire'[p] = Tail(w)
      BY <2>1 DEF HistoryOK
    <3>2. \A j \in Firsts(w) : w[j].num < k
      BY <2>1 DEF Ahead
    <3> HIDE DEF w
    <3>3. \A j \in Firsts(Tail(w)) : j + 1 \in Firsts(w) /\ Tail(w)[j] = w[j + 1]
      BY <3>1, FirstsOfTail
    <3>4. QED
      BY <3>1, <3>2, <3>3
  <2>2. CASE p # q
    <3>1. wire'[p] = wire[p]
      BY <2>2 DEF HistoryOK
    <3>2. QED
      BY <3>1 DEF Ahead
  <2>3. QED
    BY <2>1, <2>2
<1>2. QED
  BY <1>1 DEF Ahead, Owner

LEMMA AddChunkAhead ==
  ASSUME TableOK(rx, view), HistoryOK, MessagesRise, TableOK(rx', view'),
         NEW q \in Pairs, AddChunk(q), NEW p \in Pairs, NEW k, Ahead(p, k)
  PROVE  Ahead(p, k)'
<1> DEFINE ch == Head(wire[q])
           sig == Signature(ch.id)
           b == Filled(Found(sig), ch)
<1>1. /\ wire[q] # <<>> /\ wire' = [wire EXCEPT ![q] = Tail(@)] /\ sent' = sent
  BY DEF AddChunk, Taken
<1>2. \A d \in Channels : rx'[d].in_use /\ Owner(rx'[d]) = p => rx'[d].num < k
  <2> SUFFICES ASSUME NEW d \in Channels, rx'[d].in_use, Owner(rx'[d]) = p PROVE rx'[d].num < k
    OBVIOUS
  <2>1. CASE rx'[d] = rx[d]
    BY <2>1 DEF Ahead, Owner
  <2>2. CASE Available(sig) # {} /\ ~ Refused(ch) /\ rx'[d] = b
    BY <1>1, <2>2, FilledAhead
  <2>3. QED
    BY <2>1, <2>2, TableNext
<1>3. Passed'[p] < k
  <2>1. CASE got' = got
    BY <2>1 DEF Passed, Ahead
  <2>2. CASE got' # got
    <3>1. ChunkLen(ch) <= MESSAGE_MAXLEN /\ view' # 0
      BY <2>2, HandedIsViewed
    <3>2. Handed(rx'[view'])
      BY <3>1, ViewIsHanded
    <3>3. view' \in Channels /\ rx'[view'].in_use
      <4>1. view' \in Channels
        BY <3>1, ReceiverAssumption DEF TableOK, Channels
      <4>2. QED
        BY <4>1 DEF TableOK
    <3>4. Passed'[p] = IF p = Owner(rx'[view']) THEN rx'[view'].num ELSE Passed[p]
      BY <1>1, <3>2, HandedNext, RiseParts
    <3>5. QED
      BY <1>2, <3>3, <3>4 DEF Ahead
  <2>3. QED
    BY <2>1, <2>2
<1>4. QED
  BY <1>1, <1>2, <1>3, AheadStays


-----------------------------------------------------------------------------
(* Every step keeps the outbox ahead.                                      *)

\* The parts of OutboxRises: a chunk at place i of what waits at sender n.
ChunkRises(w, i, n, s) ==
  LET p == PairOf(w[i])
  IN  /\ p \in Pairs /\ p[1] = n /\ w[i].body \in Seq(Bytes)
      /\ i \in Firsts(w) =>
           /\ Announces(w[i].head, w[i].num, s[p])
           /\ \A j \in Firsts(w) : i < j /\ PairOf(w[j]) = p => w[i].num < w[j].num

FirstAhead(w, i) == i \in Firsts(w) => Ahead(PairOf(w[i]), w[i].num)

LEMMA OutboxParts ==
  OutboxRises <=>
    \A n \in Senders : \A i \in DOMAIN Waiting(n) :
      ChunkRises(Waiting(n), i, n, sent) /\ FirstAhead(Waiting(n), i)
BY Zenon DEF OutboxRises, ChunkRises, FirstAhead, Waiting

LEMMA OutboxPartsNext ==
  (\A n \in Senders : \A i \in DOMAIN Waiting(n)' :
     ChunkRises(Waiting(n)', i, n, sent') /\ FirstAhead(Waiting(n), i)')
  => OutboxRises'
BY Zenon DEF OutboxRises, ChunkRises, FirstAhead, Waiting

\* Steps of the receiver.
LEMMA OutboxStaysAhead ==
  ASSUME OutboxRises, outbox' = outbox, sent' = sent,
         \A p \in Pairs : \A k : Ahead(p, k) => Ahead(p, k)'
  PROVE  OutboxRises'
<1> SUFFICES ASSUME NEW n \in Senders, NEW i \in DOMAIN Waiting(n)
             PROVE  ChunkRises(Waiting(n), i, n, sent) /\ FirstAhead(Waiting(n), i)'
  BY OutboxPartsNext DEF Waiting
<1>1. ChunkRises(Waiting(n), i, n, sent) /\ FirstAhead(Waiting(n), i)
  BY OutboxParts
<1>2. Waiting(n)' = Waiting(n)
  BY DEF Waiting
<1>3. PairOf(Waiting(n)[i]) \in Pairs
  BY <1>1 DEF ChunkRises
<1>4. FirstAhead(Waiting(n), i)'
  BY <1>1, <1>2, <1>3 DEF FirstAhead
<1>5. QED
  BY <1>1, <1>4

\* The oldest chunk, and what remains without it.
LEMMA PopRises ==
  ASSUME SendersOK, OutboxRises, NEW n \in Senders, outbox[n].count > 0, OutboxPop(n)
  PROVE  LET e == OldestChunk(n)
             D == Waiting(n)'
             p == PairOf(e)
         IN  /\ e \in Chunk /\ p \in Pairs /\ p[1] = n /\ e.body \in Seq(Bytes)
             /\ CanIdIsFirst(e.id) =>
                  /\ Announces(e.head, e.num, sent[p]) /\ Ahead(p, e.num)
                  /\ \A j \in Firsts(D) : PairOf(D[j]) = p => e.num < D[j].num
             /\ \A i \in DOMAIN D : ChunkRises(D, i, n, sent) /\ FirstAhead(D, i)
             /\ \A o \in Senders : o # n => Waiting(o)' = Waiting(o)
<1> DEFINE e == OldestChunk(n)
           C == Waiting(n)
           D == Waiting(n)'
           p == PairOf(e)
<1>1. /\ e \in Chunk /\ C = <<e>> \o D /\ D \in Seq(Chunk)
      /\ \A o \in Senders : o # n => Waiting(o)' = Waiting(o)
  BY PopWaiting
<1>2. \A i \in DOMAIN C : ChunkRises(C, i, n, sent) /\ FirstAhead(C, i)
  BY OutboxParts
<1> HIDE DEF C, D, e
<1>3. /\ 1 \in DOMAIN C /\ C[1] = e
      /\ \A i \in DOMAIN D : i \in Nat \ {0} /\ i + 1 \in DOMAIN C /\ C[i + 1] = D[i]
  BY <1>1, LenProperties
<1>4. \A i \in Firsts(D) : i \in Nat \ {0} /\ i + 1 \in Firsts(C) /\ C[i + 1] = D[i]
  BY <1>3 DEF Firsts
<1>5. /\ p \in Pairs /\ p[1] = n /\ e.body \in Seq(Bytes)
  BY <1>2, <1>3 DEF ChunkRises
<1>6. ASSUME CanIdIsFirst(e.id)
      PROVE  /\ Announces(e.head, e.num, sent[p]) /\ Ahead(p, e.num)
             /\ \A j \in Firsts(D) : PairOf(D[j]) = p => e.num < D[j].num
  <2>1. 1 \in Firsts(C)
    BY <1>3, <1>6 DEF Firsts
  <2>2. Announces(e.head, e.num, sent[p]) /\ Ahead(p, e.num)
        /\ \A j \in Firsts(C) : 1 < j /\ PairOf(C[j]) = p => e.num < C[j].num
    BY <1>2, <1>3, <2>1 DEF ChunkRises, FirstAhead
  <2>3. ASSUME NEW j \in Firsts(D), PairOf(D[j]) = p PROVE e.num < D[j].num
    <3>1. 1 < j + 1 /\ j + 1 \in Firsts(C) /\ C[j + 1] = D[j]
      BY <1>4
    <3>2. QED
      BY <2>2, <2>3, <3>1
  <2>4. QED
    BY <2>2, <2>3
<1>7. ASSUME NEW i \in DOMAIN D PROVE ChunkRises(D, i, n, sent) /\ FirstAhead(D, i)
  <2>1. /\ i \in Nat /\ i + 1 \in DOMAIN C /\ C[i + 1] = D[i]
        /\ ChunkRises(C, i + 1, n, sent) /\ FirstAhead(C, i + 1)
    BY <1>2, <1>3
  <2>2. i \in Firsts(D) => i + 1 \in Firsts(C)
    BY <1>4
  <2>3. ASSUME i \in Firsts(D), NEW j \in Firsts(D), i < j, PairOf(D[j]) = PairOf(D[i])
        PROVE  D[i].num < D[j].num
    <3>1. j \in Nat /\ j + 1 \in Firsts(C) /\ C[j + 1] = D[j]
      BY <1>4
    <3>2. i + 1 < j + 1
      BY <2>1, <2>3, <3>1
    <3>3. QED
      BY <2>1, <2>2, <2>3, <3>1, <3>2 DEF ChunkRises
  <2>4. ChunkRises(D, i, n, sent)
    BY <2>1, <2>2, <2>3 DEF ChunkRises
  <2>5. QED
    BY <2>1, <2>2, <2>4 DEF FirstAhead
<1>8. QED
  BY <1>1, <1>5, <1>6, <1>7 DEF D, e


\* A chunk put on the wire behind all of its pair.
LEMMA WireRisesMore ==
  ASSUME NEW w \in Seq(Chunk), NEW e \in Chunk, NEW p, NEW s, NEW l, WireRises(w, p, s, l),
         e.body \in Seq(Bytes),
         CanIdIsFirst(e.id) =>
           /\ PairOf(e) = p /\ Announces(e.head, e.num, s) /\ e.num > l
           /\ \A j \in Firsts(w) : w[j].num < e.num
  PROVE  /\ WireRises(Append(w, e), p, s, l)
         /\ \A i \in Firsts(Append(w, e)) :
              \/ i \in Firsts(w) /\ Append(w, e)[i] = w[i]
              \/ CanIdIsFirst(e.id) /\ Append(w, e)[i] = e
<1> DEFINE u == Append(w, e)
           n == Len(w)
<1>1. /\ n \in Nat /\ DOMAIN w = 1 .. n /\ DOMAIN u = 1 .. n + 1
      /\ u[n + 1] = e /\ \A i \in 1 .. n : u[i] = w[i]
  BY LenProperties
<1> HIDE DEF u, n
<1>2. ASSUME NEW i \in DOMAIN u
      PROVE  (i \in DOMAIN w /\ u[i] = w[i]) \/ (i = n + 1 /\ u[i] = e)
  BY <1>1
<1>3. \A i \in DOMAIN u : u[i].body \in Seq(Bytes)
  BY <1>2 DEF WireRises
<1>4. ASSUME NEW i \in Firsts(u)
      PROVE  \/ i \in Firsts(w) /\ u[i] = w[i]
             \/ CanIdIsFirst(e.id) /\ u[i] = e /\ i = n + 1
  BY <1>2 DEF Firsts
<1>5. ASSUME NEW i \in Firsts(u)
      PROVE  /\ PairOf(u[i]) = p /\ Announces(u[i].head, u[i].num, s) /\ u[i].num > l
             /\ \A j \in Firsts(u) : i < j => u[i].num < u[j].num
  <2>1. CASE i \in Firsts(w) /\ u[i] = w[i]
    BY <1>4, <2>1 DEF WireRises
  <2>2. CASE CanIdIsFirst(e.id) /\ u[i] = e /\ i = n + 1
    <3>1. \A j \in Firsts(u) : ~ (i < j)
      BY <1>1, <2>2 DEF Firsts
    <3>2. QED
      BY <2>2, <3>1
  <2>3. QED
    BY <1>4, <2>1, <2>2
<1>6. WireRises(u, p, s, l)
  BY <1>3, <1>5 DEF WireRises
<1>7. QED
  BY <1>4, <1>6 DEF u

\* poll_tx puts the oldest chunk on the wire.
LEMMA PollTxSentRises ==
  ASSUME TableOK(rx, view), HistoryOK, SendersOK, MessagesRise, OutboxRises,
         NEW n \in Senders, PollTxSent(n)
  PROVE  MessagesRise' /\ OutboxRises'
<1> DEFINE e == OldestChunk(n)
           p == PairOf(e)
           w == wire[p]
           D == Waiting(n)'
<1>1. /\ outbox[n].count > 0 /\ OutboxPop(n) /\ wire' = [wire EXCEPT ![p] = Append(w, e)]
      /\ rx' = rx /\ view' = view /\ sent' = sent /\ got' = got
  BY DEF PollTxSent
<1>2. /\ e \in Chunk /\ p \in Pairs /\ p[1] = n /\ e.body \in Seq(Bytes)
      /\ CanIdIsFirst(e.id) =>
           /\ Announces(e.head, e.num, sent[p]) /\ Ahead(p, e.num)
           /\ \A j \in Firsts(D) : PairOf(D[j]) = p => e.num < D[j].num
      /\ \A i \in DOMAIN D : ChunkRises(D, i, n, sent) /\ FirstAhead(D, i)
      /\ \A o \in Senders : o # n => Waiting(o)' = Waiting(o)
  BY <1>1, PopRises
<1>3. /\ SentKnown /\ HandedAsAnnounced
      /\ \A q \in Pairs : WireRises(wire[q], q, sent[q], Passed[q])
      /\ TableRises(rx, view, wire, sent, Passed)
  BY RiseParts
<1>4. Passed' = Passed
  BY <1>1 DEF Passed
<1>5. w \in Seq(Chunk) /\ Passed[p] \in Nat
  BY <1>2, <1>3, PassedOf DEF HistoryOK
<1>6. CanIdIsFirst(e.id) => e.num \in Nat /\ e.num > Passed[p] /\ \A j \in Firsts(w) : w[j].num < e.num
  <2>1. e.num \in Nat
    <3> HIDE DEF e
    <3>1. QED
      BY <1>2 DEF Chunk
  <2> HIDE DEF e, p
  <2>2. Ahead(p, e.num) => Passed[p] < e.num /\ \A j \in Firsts(w) : w[j].num < e.num
    BY DEF Ahead
  <2> HIDE DEF w
  <2>3. QED
    BY <1>2, <1>5, <2>1, <2>2
<1>7. /\ wire'[p] = Append(w, e)
      /\ \A q \in Pairs : q # p => wire'[q] = wire[q]
  BY <1>1, <1>2 DEF HistoryOK
<1> DEFINE u == Append(w, e)
<1>8. /\ WireRises(u, p, sent[p], Passed[p])
      /\ \A i \in Firsts(u) : \/ i \in Firsts(w) /\ u[i] = w[i]
                              \/ CanIdIsFirst(e.id) /\ u[i] = e
  <2>1. WireRises(w, p, sent[p], Passed[p])
    BY <1>2, <1>3
  <2> HIDE DEF e, w
  <2>2. QED
    BY <1>2, <1>5, <1>6, <2>1, WireRisesMore DEF p
<1> HIDE DEF e, w, u, D
<1>9. ASSUME NEW q \in Pairs PROVE WireRises(wire'[q], q, sent'[q], Passed'[q])
  <2>1. CASE q = p
    BY <1>1, <1>4, <1>7, <1>8, <2>1 DEF u
  <2>2. CASE q # p
    BY <1>1, <1>3, <1>4, <1>7, <2>2
  <2>3. QED
    BY <2>1, <2>2
<1> HIDE DEF p
<1>10. ASSUME NEW c \in Channels, rx[c].in_use PROVE HeldRises(rx[c], wire', sent)
  <2> DEFINE b == rx[c]
             o == Owner(b)
  <2>1. HeldRises(b, wire, sent)
    BY <1>3, <1>10 DEF TableRises
  <2>2. CASE o = p
    <3>1. CanIdIsFirst(e.id) => b.num < e.num
      BY <1>2, <1>10, <2>2 DEF Ahead, Owner
    <3>2. \A i \in Firsts(w) : b.num < w[i].num
      BY <2>1, <2>2 DEF HeldRises, w
    <3> HIDE DEF b
    <3>3. \A i \in Firsts(u) : b.num < u[i].num
      BY <1>8, <3>1, <3>2
    <3>4. QED
      BY <1>7, <2>1, <2>2, <3>3 DEF HeldRises, u, b
  <2>3. CASE o # p
    BY <1>7, <2>1, <2>3 DEF HeldRises
  <2>4. QED
    BY <2>2, <2>3
<1>11. TableRises(rx', view', wire', sent', Passed')
  BY <1>1, <1>3, <1>4, <1>10 DEF TableRises
<1>12. HandedAsAnnounced' /\ SentKnown'
  BY <1>1, <1>3, HandedStays DEF SentKnown
<1>13. MessagesRise'
  BY <1>9, <1>11, <1>12, RisePartsNext
<1>14. ASSUME NEW q \in Pairs, NEW k, Ahead(q, k), q = p /\ CanIdIsFirst(e.id) => e.num < k
       PROVE  Ahead(q, k)'
  <2>1. \A j \in Firsts(wire'[q]) : wire'[q][j].num < k
    <3>1. CASE q = p
      <4>1. \A j \in Firsts(w) : w[j].num < k
        BY <1>14, <3>1 DEF Ahead, w
      <4>2. \A j \in Firsts(u) : u[j].num < k
        BY <1>8, <1>14, <3>1, <4>1
      <4>3. QED
        BY <1>7, <3>1, <4>2 DEF u
    <3>2. CASE q # p
      BY <1>7, <1>14, <3>2 DEF Ahead
    <3>3. QED
      BY <3>1, <3>2
  <2>2. QED
    BY <1>1, <1>4, <1>14, <2>1 DEF Ahead
<1>15. OutboxRises'
  <2> SUFFICES ASSUME NEW o \in Senders, NEW i \in DOMAIN Waiting(o)'
               PROVE  ChunkRises(Waiting(o)', i, o, sent') /\ FirstAhead(Waiting(o), i)'
    BY OutboxPartsNext
  <2>1. PICK f : f = Waiting(o)'[i]
    OBVIOUS
  <2>2. /\ ChunkRises(Waiting(o)', i, o, sent)
        /\ i \in Firsts(Waiting(o)') =>
             Ahead(PairOf(f), f.num) /\ (PairOf(f) = p /\ CanIdIsFirst(e.id) => e.num < f.num)
    <3>1. CASE o = n
      <4>1. i \in DOMAIN D /\ D = Waiting(o)'
        BY <3>1 DEF D
      <4>2. ChunkRises(D, i, o, sent) /\ FirstAhead(D, i)
        BY <1>2, <3>1, <4>1
      <4>3. PairOf(f) = p /\ CanIdIsFirst(e.id) /\ i \in Firsts(D) => e.num < f.num
        BY <1>2, <2>1, <4>1
      <4>4. QED
        BY <2>1, <4>1, <4>2, <4>3 DEF FirstAhead
    <3>2. CASE o # n
      <4> DEFINE C == Waiting(o)
      <4>1. Waiting(o)' = C /\ i \in DOMAIN C
        BY <1>2, <3>2
      <4>2. ChunkRises(C, i, o, sent) /\ FirstAhead(C, i)
        BY <4>1, OutboxParts
      <4>3. PairOf(f) # p
        BY <1>2, <2>1, <3>2, <4>1, <4>2 DEF ChunkRises
      <4>4. QED
        BY <2>1, <4>1, <4>2, <4>3 DEF FirstAhead
    <3>3. QED
      BY <3>1, <3>2
  <2>3. PairOf(f) \in Pairs
    BY <2>1, <2>2 DEF ChunkRises
  <2>4. i \in Firsts(Waiting(o)') => Ahead(PairOf(f), f.num)'
    BY <1>14, <2>2, <2>3
  <2>5. FirstAhead(Waiting(o), i)'
    BY <2>1, <2>4 DEF FirstAhead
  <2>6. QED
    BY <1>1, <2>2, <2>5
<1>16. QED
  BY <1>13, <1>15


\* send announces one message more: what was announced stays so.
LEMMA AnnouncedStays ==
  ASSUME SentKnown, NEW q \in Pairs, NEW m \in Contents,
         sent' = [sent EXCEPT ![q] = Append(@, m)],
         NEW p \in Pairs, NEW x, NEW k, Announces(x, k, sent[p])
  PROVE  Announces(x, k, sent'[p])
<1>1. sent[p] \in Seq(Contents)
  BY DEF SentKnown
<1>2. Announces(x, k, Append(sent[p], m))
  BY <1>1, AnnouncesMore
<1>3. sent'[p] = sent[p] \/ sent'[p] = Append(sent[p], m)
  BY DEF SentKnown
<1>4. QED
  BY <1>2, <1>3

LEMMA MoreSentRises ==
  ASSUME HistoryOK, MessagesRise, NEW q \in Pairs, NEW m \in Contents,
         sent' = [sent EXCEPT ![q] = Append(@, m)], UNCHANGED <<wire, rx, view, got>>
  PROVE  MessagesRise'
<1>1. /\ SentKnown /\ HandedAsAnnounced
      /\ \A p \in Pairs : WireRises(wire[p], p, sent[p], Passed[p])
      /\ TableRises(rx, view, wire, sent, Passed)
  BY RiseParts
<1>2. Passed' = Passed
  BY DEF Passed
<1>3. \A p \in Pairs : \A x, k : Announces(x, k, sent[p]) => Announces(x, k, sent'[p])
  BY <1>1, AnnouncedStays
<1>4. \A p \in Pairs : WireRises(wire[p], p, sent'[p], Passed[p])
  BY <1>1, <1>3 DEF WireRises
<1>5. \A c \in Channels : rx[c].in_use => HeldRises(rx[c], wire, sent')
  BY <1>1, <1>3 DEF TableRises, HeldRises
<1>6. TableRises(rx', view', wire', sent', Passed')
  BY <1>1, <1>2, <1>5 DEF TableRises
<1>7. HandedAsAnnounced'
  BY <1>1, HandedStays
<1>8. SentKnown'
  <2>1. \A p \in Pairs : Append(sent[p], m) \in Seq(Contents)
    BY <1>1, AppendProperties DEF SentKnown
  <2>2. QED
    BY <1>1, <2>1 DEF SentKnown
<1>9. QED
  BY <1>2, <1>4, <1>6, <1>7, <1>8, RisePartsNext

\* The next message of a pair is ahead of all that the receiver has.
LEMMA NextIsAhead ==
  ASSUME TableOK(rx, view), HistoryOK, MessagesRise, NEW p \in Pairs, NEW n, n = Len(sent[p]) + 1
  PROVE  Ahead(p, n)
<1>1. /\ SentKnown /\ HandedAsAnnounced
      /\ WireRises(wire[p], p, sent[p], Passed[p])
      /\ TableRises(rx, view, wire, sent, Passed)
  BY RiseParts
<1>2. DOMAIN sent[p] = 1 .. Len(sent[p]) /\ Len(sent[p]) \in Nat
  BY <1>1, LenProperties DEF SentKnown
<1>3. \A k \in DOMAIN sent[p] : k < n
  BY <1>2
<1>4. Passed[p] < n
  <2>1. Passed[p] \in Nat /\ Passed[p] <= Len(sent[p])
    BY <1>1, PassedOf
  <2>2. QED
    BY <1>2, <2>1
<1>5. \A j \in Firsts(wire[p]) : wire[p][j].num < n
  BY <1>1, <1>3 DEF WireRises, Announces
<1>6. \A c \in Channels : rx[c].in_use /\ <<rx[c].from, rx[c].to>> = p => rx[c].num < n
  BY <1>1, <1>3 DEF TableRises, HeldRises, Announces, Owner
<1>7. QED
  BY <1>4, <1>5, <1>6 DEF Ahead

LEMMA QueueSendRises ==
  ASSUME TableOK(rx, view), HistoryOK, SendersOK, MessagesRise, OutboxRises,
         NEW q \in Pairs, QueueSend(q)
  PROVE  MessagesRise' /\ OutboxRises'
<1>1. SentKnown
  BY RiseParts
<1> DEFINE s == sent[q]
           num == Len(s) + 1
<1>2. PICK m \in Contents :
        LET chunks == BuildChunks(q, m, ChunkLength, num)
        IN  /\ sent' = [sent EXCEPT ![q] = Append(@, m)]
            /\ \A n \in Senders :
                 Waiting(n)' = IF n = q[1] THEN Waiting(n) \o chunks ELSE Waiting(n)
  BY <1>1, SendWaiting
<1> DEFINE v == BuildChunks(q, m, ChunkLength, num)
<1>3. UNCHANGED <<wire, rx, view, got>>
  BY DEF QueueSend
<1>4. MessagesRise'
  BY <1>2, <1>3, MoreSentRises
<1>5. s \in Seq(Contents) /\ DOMAIN s = 1 .. Len(s) /\ Len(s) \in Nat /\ num \in Nat
  BY <1>1, LenProperties DEF SentKnown
<1>6. sent'[q] = Append(s, m)
  BY <1>1, <1>2 DEF SentKnown
<1>7. /\ v \in Seq(Chunk)
      /\ \A i \in DOMAIN v : v[i].body \in Seq(Bytes) /\ PairOf(v[i]) = q
      /\ \A i \in Firsts(v) : /\ i = 1 /\ v[i].num = num
                              /\ Announces(v[i].head, num, sent'[q])
  <2>1. \A i \in DOMAIN v : PairOf(v[i]) = q
    BY <1>5, ChunksOfOne
  <2> HIDE DEF s
  <2>2. QED
    BY <1>5, <1>6, <2>1, ChunksRise
<1>8. \A p \in Pairs : \A x, k : Announces(x, k, sent[p]) => Announces(x, k, sent'[p])
  BY <1>1, <1>2, AnnouncedStays
<1>9. Ahead(q, num) /\ \A p, k : Ahead(p, k) => Ahead(p, k)'
  <2>1. Ahead(q, num)
    <3> HIDE DEF num
    <3>1. QED
      BY NextIsAhead DEF num
  <2>2. Passed' = Passed
    BY <1>3 DEF Passed
  <2>3. QED
    BY <1>3, <2>1, <2>2 DEF Ahead
<1> HIDE DEF v, num, s
<1>10. ASSUME NEW n \in Senders, NEW i \in DOMAIN Waiting(n)'
       PROVE  ChunkRises(Waiting(n)', i, n, sent') /\ FirstAhead(Waiting(n), i)'
  <2> DEFINE C == Waiting(n)
             U == Waiting(n)'
  <2>1. /\ C \in Seq(Chunk) /\ Len(C) \in Nat /\ DOMAIN C = 1 .. Len(C)
        /\ \A j \in DOMAIN C : ChunkRises(C, j, n, sent) /\ FirstAhead(C, j)
    BY WaitingType, LenProperties, OutboxParts
  <2>2. CASE n # q[1]
    <3>1. U = C /\ i \in DOMAIN C
      BY <1>2, <2>2
    <3>2. ChunkRises(C, i, n, sent')
      BY <1>8, <2>1, <3>1 DEF ChunkRises
    <3>3. FirstAhead(Waiting(n), i)'
      BY <1>9, <2>1, <3>1 DEF FirstAhead
    <3>4. QED
      BY <3>1, <3>2, <3>3
  <2>3. CASE n = q[1]
    <3>1. U = C \o v
      BY <1>2, <2>3 DEF v
    <3> HIDE DEF C, U
    <3>2. /\ Len(v) \in Nat /\ DOMAIN v = 1 .. Len(v) /\ DOMAIN U = 1 .. Len(C) + Len(v)
          /\ \A j \in 1 .. Len(C) + Len(v) : U[j] = IF j <= Len(C) THEN C[j] ELSE v[j - Len(C)]
      BY <1>7, <2>1, <3>1, ConcatProperties, LenProperties
    <3>3. ASSUME NEW j \in DOMAIN U
          PROVE  \/ j \in DOMAIN C /\ j <= Len(C) /\ U[j] = C[j]
                 \/ j - Len(C) \in DOMAIN v /\ j > Len(C) /\ U[j] = v[j - Len(C)]
      BY <2>1, <3>2
    <3>4. ASSUME NEW j \in Firsts(U)
          PROVE  \/ j \in Firsts(C) /\ U[j] = C[j]
                 \/ /\ j = Len(C) + 1 /\ PairOf(U[j]) = q /\ U[j].num = num
                    /\ Announces(U[j].head, num, sent'[q])
      <4>1. CASE j \in DOMAIN C /\ j <= Len(C) /\ U[j] = C[j]
        BY <3>4, <4>1 DEF Firsts
      <4>2. CASE j - Len(C) \in DOMAIN v /\ j > Len(C) /\ U[j] = v[j - Len(C)]
        <5> DEFINE y == j - Len(C)
        <5>1. y \in Firsts(v) /\ y \in DOMAIN v /\ U[j] = v[y]
          BY <3>4, <4>2 DEF Firsts
        <5>2. j \in Nat /\ (y = 1 => j = Len(C) + 1)
          BY <2>1, <3>2, <3>4 DEF Firsts
        <5> HIDE DEF y
        <5>3. QED
          BY <1>7, <5>1, <5>2
      <4>3. QED
        BY <3>3, <3>4, <4>1, <4>2 DEF Firsts
    <3>5. ASSUME NEW j \in Firsts(C), PairOf(C[j]) = q PROVE C[j].num < num
      <4>1. C[j].num \in DOMAIN s
        BY <2>1, <3>5 DEF ChunkRises, Announces, Firsts, s
      <4>2. QED
        BY <1>5, <4>1 DEF num
    <3>6. PICK f : f = U[i]
      OBVIOUS
    <3>7. PairOf(f) \in Pairs /\ PairOf(f)[1] = n /\ f.body \in Seq(Bytes)
      <4>1. CASE i \in DOMAIN C /\ f = C[i]
        BY <2>1, <4>1 DEF ChunkRises
      <4>2. CASE i - Len(C) \in DOMAIN v /\ f = v[i - Len(C)]
        BY <1>7, <2>3, <4>2
      <4>3. i \in DOMAIN U
        BY DEF U
      <4>4. QED
        BY <3>3, <3>6, <4>1, <4>2, <4>3
    <3>8. ASSUME i \in Firsts(U)
          PROVE  /\ Announces(f.head, f.num, sent'[PairOf(f)])
                 /\ \A j \in Firsts(U) : i < j /\ PairOf(U[j]) = PairOf(f) => f.num < U[j].num
                 /\ Ahead(PairOf(f), f.num)
      <4>1. CASE i \in Firsts(C) /\ f = C[i]
        <5>1. /\ Announces(f.head, f.num, sent[PairOf(f)]) /\ Ahead(PairOf(f), f.num)
              /\ \A j \in Firsts(C) : i < j /\ PairOf(C[j]) = PairOf(f) => f.num < C[j].num
          BY <2>1, <4>1 DEF ChunkRises, FirstAhead, Firsts
        <5>2. ASSUME NEW j \in Firsts(U), i < j, PairOf(U[j]) = PairOf(f) PROVE f.num < U[j].num
          <6>1. CASE j \in Firsts(C) /\ U[j] = C[j]
            BY <5>1, <5>2, <6>1
          <6>2. CASE PairOf(U[j]) = q /\ U[j].num = num
            BY <3>5, <4>1, <5>2, <6>2
          <6>3. QED
            BY <3>4, <6>1, <6>2
        <5>3. QED
          BY <1>8, <3>7, <5>1, <5>2
      <4>2. CASE i = Len(C) + 1 /\ PairOf(f) = q /\ f.num = num /\ Announces(f.head, num, sent'[q])
        <5>1. ASSUME NEW j \in Firsts(U), i < j PROVE FALSE
          <6>1. j \in DOMAIN C \/ j = Len(C) + 1
            BY <3>4 DEF Firsts
          <6>2. QED
            BY <2>1, <4>2, <5>1, <6>1
        <5>2. QED
          BY <1>9, <4>2, <5>1
      <4>3. QED
        BY <3>4, <3>6, <3>8, <4>1, <4>2
    <3>9. ChunkRises(U, i, n, sent')
      BY <3>6, <3>7, <3>8 DEF ChunkRises
    <3>10. i \in Firsts(U) => Ahead(PairOf(f), f.num)'
      BY <1>9, <3>8
    <3>11. FirstAhead(Waiting(n), i)'
      BY <3>6, <3>10 DEF FirstAhead, U
    <3>12. QED
      BY <3>9, <3>11 DEF U
  <2>4. QED
    BY <2>2, <2>3
<1>11. QED
  BY <1>4, <1>10, OutboxPartsNext

\* poll_tx drops the oldest chunk.
LEMMA PollTxDroppedRises ==
  ASSUME SendersOK, MessagesRise, OutboxRises, NEW n \in Senders, PollTxDropped(n)
  PROVE  MessagesRise' /\ OutboxRises'
<1>1. /\ outbox[n].count > 0 /\ OutboxPop(n)
      /\ UNCHANGED <<wire, rx, view, sent, got>>
  BY DEF PollTxDropped
<1>2. /\ \A i \in DOMAIN Waiting(n)' : /\ ChunkRises(Waiting(n)', i, n, sent)
                                       /\ FirstAhead(Waiting(n)', i)
      /\ \A o \in Senders : o # n => Waiting(o)' = Waiting(o)
  BY <1>1, PopRises
<1>3. \A o \in Senders : \A i \in DOMAIN Waiting(o) :
        ChunkRises(Waiting(o), i, o, sent) /\ FirstAhead(Waiting(o), i)
  BY OutboxParts
<1>4. Passed' = Passed
  BY <1>1 DEF Passed
<1>5. \A p, k : Ahead(p, k) => Ahead(p, k)'
  BY <1>1, <1>4 DEF Ahead
<1>6. ASSUME NEW o \in Senders, NEW i \in DOMAIN Waiting(o)'
      PROVE  ChunkRises(Waiting(o)', i, o, sent') /\ FirstAhead(Waiting(o), i)'
  <2>1. ChunkRises(Waiting(o)', i, o, sent) /\ FirstAhead(Waiting(o)', i)
    BY <1>2, <1>3
  <2>2. PICK f : f = Waiting(o)'[i]
    OBVIOUS
  <2>3. i \in Firsts(Waiting(o)') => Ahead(PairOf(f), f.num)'
    BY <1>5, <2>1, <2>2 DEF FirstAhead
  <2>4. FirstAhead(Waiting(o), i)'
    BY <2>2, <2>3 DEF FirstAhead
  <2>5. QED
    BY <1>1, <2>1, <2>4
<1>7. MessagesRise'
  BY <1>1, <1>4 DEF MessagesRise, HandedAsAnnounced
<1>8. QED
  BY <1>6, <1>7, OutboxPartsNext


LEMMA QueueNextAhead ==
  ASSUME NoRepeats, TableOK(rx, view), HistoryOK, SendersOK, MessagesRise, OutboxRises,
         TableOK(rx', view'), [QueueNext]_queueVars
  PROVE  MessagesRise' /\ OutboxRises'
<1> DEFINE Goal == MessagesRise' /\ OutboxRises'
<1>1. ASSUME UNCHANGED <<wire, rx, view, sent, got, outbox>> PROVE Goal
  <2>1. Passed' = Passed
    BY <1>1 DEF Passed
  <2>2. MessagesRise'
    BY <1>1, <2>1 DEF MessagesRise, HandedAsAnnounced
  <2>3. \A p, k : Ahead(p, k) => Ahead(p, k)'
    BY <1>1, <2>1 DEF Ahead
  <2>4. QED
    BY <1>1, <2>2, <2>3, OutboxStaysAhead
<1>2. ASSUME NEW q \in Pairs, QueueSend(q) PROVE Goal
  BY <1>2, QueueSendRises
<1>3. ASSUME NEW q \in Pairs, QueueAddChunk(q) PROVE Goal
  <2>1. AddChunk(q) /\ outbox' = outbox /\ sent' = sent
    BY <1>3 DEF QueueAddChunk, AddChunk, senderVars
  <2>2. MessagesRise'
    BY <2>1, AddChunkRises
  <2>3. \A p \in Pairs : \A k : Ahead(p, k) => Ahead(p, k)'
    BY <2>1, AddChunkAhead
  <2>4. QED
    BY <2>1, <2>2, <2>3, OutboxStaysAhead
<1>4. ASSUME NEW q \in Pairs, WireMishap(q) PROVE Goal
  <2>1. Lose(q) /\ outbox' = outbox
    BY <1>4 DEF WireMishap, Duplicate, Intrude, Mishap, NoRepeats, senderVars
  <2>2. /\ wire[q] # <<>> /\ wire' = [wire EXCEPT ![q] = Tail(@)]
        /\ rx' = rx /\ sent' = sent /\ got' = got
    BY <2>1 DEF Lose
  <2>3. MessagesRise'
    BY <2>1, LoseRises
  <2>4. Passed' = Passed
    BY <2>2 DEF Passed
  <2>5. ASSUME NEW p \in Pairs, NEW k, Ahead(p, k) PROVE Ahead(p, k)'
    <3>1. Passed'[p] < k /\ \A d \in Channels : rx'[d].in_use /\ Owner(rx'[d]) = p => rx'[d].num < k
      BY <2>2, <2>4, <2>5 DEF Ahead, Owner
    <3>2. QED
      BY <2>2, <2>5, <3>1, AheadStays
  <2>6. QED
    BY <2>1, <2>2, <2>3, <2>5, OutboxStaysAhead
<1>5. ASSUME NEW n \in Senders, PollTxSent(n) PROVE Goal
  BY <1>5, PollTxSentRises
<1>6. ASSUME NEW n \in Senders, PollTxDropped(n) PROVE Goal
  BY <1>6, PollTxDroppedRises
<1>7. ASSUME QueueRestart PROVE Goal
  <2>1. Restart /\ outbox' = outbox
    BY <1>7 DEF QueueRestart, senderVars
  <2>2. /\ rx' = [c \in Channels |-> FreeBuffer]
        /\ wire' = wire /\ sent' = sent /\ got' = got
    BY <2>1 DEF Restart
  <2>3. Passed' = Passed
    BY <2>2 DEF Passed
  <2>4. \A p, k : Ahead(p, k) => Ahead(p, k)'
    BY <2>2, <2>3, FreeBufferType DEF Ahead
  <2>5. QED
    BY <2>1, <2>2, <2>4, RestartRises, OutboxStaysAhead
<1>8. ASSUME \/ \E n \in Senders : PollTxAgain(n)
             \/ PollNewBegin \/ PollNewEnd \/ UNCHANGED queueVars
      PROVE  UNCHANGED <<wire, rx, view, sent, got, outbox>>
  BY <1>8 DEF PollTxAgain, PollNewBegin, PollNewEnd, queueVars, protocolVars, senderVars
<1> HIDE DEF Goal
<1>9. Goal
  BY <1>1, <1>2, <1>3, <1>4, <1>5, <1>6, <1>7, <1>8 DEF QueueNext
<1>10. QED
  BY <1>9 DEF Goal

-----------------------------------------------------------------------------
(* What rx_event gets, pair by pair.                                       *)

LEMMA AppendTo ==
  ASSUME NEW n \in Nat, NEW t, DOMAIN t = 1 .. n, t = [k \in 1 .. n |-> t[k]], NEW e
  PROVE  /\ Len(Append(t, e)) = n + 1 /\ DOMAIN Append(t, e) = 1 .. n + 1
         /\ Append(t, e) # <<>> /\ Append(t, e)[n + 1] = e
         /\ \A k \in 1 .. n : Append(t, e)[k] = t[k]
<1> DEFINE Y == {t[k] : k \in 1 .. n}
<1>1. \A k \in 1 .. n : t[k] \in Y
  OBVIOUS
<1> HIDE DEF Y
<1>2. t \in Seq(Y) /\ Len(t) = n
  BY <1>1
<1>3. /\ Len(Append(t, e)) = n + 1 /\ DOMAIN Append(t, e) = 1 .. n + 1
      /\ Append(t, e)[n + 1] = e /\ \A k \in 1 .. n : Append(t, e)[k] = t[k]
  BY <1>2
<1>4. Len(<<>>) # n + 1
  OBVIOUS
<1>5. QED
  BY <1>3, <1>4

LEMMA OwnedAppend ==
  ASSUME NEW s \in Seq(InboxMessage), NEW e \in InboxMessage, NEW p
  PROVE  /\ Owned(p, s) \in SUBSET (1 .. Len(s)) /\ Len(s) \in Nat
         /\ Owned(p, Append(s, e)) = IF <<e.from, e.to>> = p
                                     THEN Owned(p, s) \union {Len(s) + 1} ELSE Owned(p, s)
<1> DEFINE n == Len(s)
           t == Append(s, e)
<1>1. /\ n \in Nat /\ DOMAIN s = 1 .. n /\ DOMAIN t = 1 .. n + 1
      /\ t[n + 1] = e /\ \A j \in 1 .. n : t[j] = s[j]
  BY LenProperties, AppendProperties
<1> HIDE DEF n, t
<1>2. Owned(p, s) = {j \in 1 .. n : <<s[j].from, s[j].to>> = p}
  BY <1>1 DEF Owned
<1>3. Owned(p, t) = {j \in 1 .. n + 1 : <<t[j].from, t[j].to>> = p}
  BY <1>1 DEF Owned
<1>4. ASSUME NEW j \in 1 .. n + 1 PROVE j = n + 1 \/ (j # n + 1 /\ j \in 1 .. n)
  BY <1>1
<1>5. 1 .. n \subseteq 1 .. n + 1 /\ n + 1 \notin 1 .. n /\ n + 1 \in 1 .. n + 1
  BY <1>1
<1>6. CASE <<e.from, e.to>> = p
  <2>1. Owned(p, t) = Owned(p, s) \union {n + 1}
    BY <1>1, <1>2, <1>3, <1>4, <1>5, <1>6
  <2>2. QED
    BY <1>1, <1>2, <1>6, <2>1 DEF n, t
<1>7. CASE <<e.from, e.to>> # p
  <2>1. Owned(p, t) = Owned(p, s)
    BY <1>1, <1>2, <1>3, <1>4, <1>5, <1>7
  <2>2. QED
    BY <1>1, <1>2, <1>7, <2>1 DEF n, t
<1>8. QED
  BY <1>6, <1>7

LEMMA HandedToAppend ==
  ASSUME handed \in Seq(InboxMessage), NEW e \in InboxMessage, handed' = Append(handed, e),
         NEW p
  PROVE  /\ HandedTo(p)' = IF <<e.from, e.to>> = p THEN Append(HandedTo(p), e) ELSE HandedTo(p)
         /\ \E n \in Nat : /\ DOMAIN HandedTo(p) = 1 .. n /\ Len(HandedTo(p)) = n
                           /\ HandedTo(p) = [k \in 1 .. n |-> HandedTo(p)[k]]
<1> DEFINE S == Owned(p, handed)
           P == Picked(handed, S)
           c == Cardinality(S)
<1>1. /\ S \in SUBSET (1 .. Len(handed)) /\ Len(handed) \in Nat
      /\ Owned(p, Append(handed, e)) = IF <<e.from, e.to>> = p
                                       THEN S \union {Len(handed) + 1} ELSE S
  BY OwnedAppend
<1>2. /\ Picked(Append(handed, e), S) = P
      /\ Picked(Append(handed, e), S \union {Len(handed) + 1}) = Append(P, e)
      /\ Len(P) = c /\ c \in Nat
  <2> HIDE DEF S
  <2>1. QED
    BY <1>1, PickedAppend
<1>3. DOMAIN P = 1 .. c /\ P = [k \in 1 .. c |-> P[k]]
  BY DEF Picked
<1>4. HandedTo(p) = P /\ HandedTo(p)' = Picked(Append(handed, e), Owned(p, Append(handed, e)))
  BY DEF HandedTo
<1> HIDE DEF S, P, c
<1>5. HandedTo(p)' = IF <<e.from, e.to>> = p THEN Append(HandedTo(p), e) ELSE HandedTo(p)
  BY <1>1, <1>2, <1>4
<1>6. QED
  BY <1>2, <1>3, <1>4, <1>5

LEMMA PollNewPasses ==
  ASSUME handed \in Seq(InboxMessage), NEW e \in InboxMessage, handed' = Append(handed, e),
         NEW p \in Pairs
  PROVE  QueuePassed'[p] = IF <<e.from, e.to>> = p THEN e.num ELSE QueuePassed[p]
<1> DEFINE h == HandedTo(p)
           o == <<e.from, e.to>>
<1>1. h' = IF o = p THEN Append(h, e) ELSE h
  BY HandedToAppend
<1>2. PICK n \in Nat : DOMAIN h = 1 .. n /\ Len(h) = n /\ h = [k \in 1 .. n |-> h[k]]
  BY HandedToAppend
<1>3. /\ QueuePassed[p] = IF h = <<>> THEN 0 ELSE h[Len(h)].num
      /\ QueuePassed'[p] = IF h' = <<>> THEN 0 ELSE h'[Len(h')].num
  BY DEF QueuePassed
<1>4. CASE o = p
  <2> DEFINE u == Append(h, e)
  <2>1. Len(u) = n + 1 /\ u # <<>> /\ u[n + 1] = e
    <3> HIDE DEF h
    <3>1. QED
      BY <1>2, AppendTo
  <2>2. h' = u
    BY <1>1, <1>4
  <2> HIDE DEF u, h
  <2>3. QueuePassed'[p] = u[Len(u)].num
    BY <1>3, <2>1, <2>2
  <2>4. QED
    BY <1>4, <2>1, <2>3 DEF o
<1>5. CASE o # p
  BY <1>1, <1>3, <1>5
<1>6. QED
  BY <1>4, <1>5


-----------------------------------------------------------------------------
(* Every step keeps what is kept in order.                                 *)

\* The parts of KeptRises: message j of k; how far rx_event has come.
Announced(m) == [id |-> m.id, length |-> Len(m.data), crc |-> Checksum(m.data)]

KeptAt(k, j, s, l) ==
  LET p == Owner(k[j])
  IN  /\ p \in Pairs /\ k[j].data \in Seq(Bytes)
      /\ Announces(Announced(k[j]), k[j].num, s[p])
      /\ k[j].num <= l[p]
      /\ \A i \in Owned(p, k) : j < i => k[j].num < k[i].num

Later(k, j, n, g) == j > n => g[Owner(k[j])] < k[j].num

LEMMA KeptParts ==
  KeptRises <=>
    /\ \A j \in DOMAIN kept : KeptAt(kept, j, sent, Passed) /\ Later(kept, j, Len(handed), QueuePassed)
    /\ \A p \in Pairs : QueuePassed[p] \in 0 .. Passed[p]
BY Zenon DEF KeptRises, KeptAt, Later, Owner, Announced

LEMMA KeptPartsNext ==
  /\ \A j \in DOMAIN kept' :
       KeptAt(kept', j, sent', Passed') /\ Later(kept', j, Len(handed'), QueuePassed')
  /\ \A p \in Pairs : QueuePassed'[p] \in 0 .. Passed'[p]
  => KeptRises'
BY Zenon DEF KeptRises, KeptAt, Later, Owner, Announced

\* The number of a kept message is that of one its pair has sent.
LEMMA KeptNumber ==
  ASSUME SentKnown, NEW k, NEW j, NEW l, KeptAt(k, j, sent, l)
  PROVE  k[j].num \in 1 .. Len(sent[Owner(k[j])]) /\ Len(sent[Owner(k[j])]) \in Nat
BY LenProperties DEF KeptAt, Announces, SentKnown

\* More is sent or has passed, nothing comes in and nothing is given to rx_event.
LEMMA KeptStays ==
  ASSUME SentKnown, KeptRises, kept' = kept, handed' = handed,
         \A p \in Pairs : \A x, k : Announces(x, k, sent[p]) => Announces(x, k, sent'[p]),
         \A p \in Pairs : Passed[p] \in Nat /\ Passed'[p] \in Nat /\ Passed[p] <= Passed'[p]
  PROVE  KeptRises'
<1>1. QueuePassed' = QueuePassed
  BY DEF QueuePassed, HandedTo, Owned
<1>2. \A p \in Pairs : QueuePassed[p] \in 0 .. Passed'[p]
  BY KeptParts
<1>3. ASSUME NEW j \in DOMAIN kept
      PROVE  KeptAt(kept, j, sent', Passed') /\ Later(kept, j, Len(handed), QueuePassed)
  <2>1. KeptAt(kept, j, sent, Passed) /\ Later(kept, j, Len(handed), QueuePassed)
    BY KeptParts
  <2>2. Owner(kept[j]) \in Pairs /\ kept[j].num \in Nat /\ kept[j].num <= Passed[Owner(kept[j])]
    BY <2>1, KeptNumber DEF KeptAt
  <2>3. kept[j].num <= Passed'[Owner(kept[j])]
    BY <2>2
  <2>4. QED
    BY <2>1, <2>3 DEF KeptAt
<1>4. QED
  BY <1>1, <1>2, <1>3, KeptPartsNext

\* A message that comes into the inbox comes after all of its pair.
LEMMA PushRises ==
  ASSUME SentKnown, InboxOK, KeptRises, NEW m \in InboxMessage, kept' = Append(kept, m),
         handed' = handed, sent' = sent,
         Owner(m) \in Pairs, m.data \in Seq(Bytes),
         Announces(Announced(m), m.num, sent[Owner(m)]), m.num > Passed[Owner(m)],
         \A p \in Pairs : /\ Passed[p] \in Nat
                          /\ Passed'[p] = IF p = Owner(m) THEN m.num ELSE Passed[p]
  PROVE  KeptRises'
<1> DEFINE o == Owner(m)
           k == Append(kept, m)
           L == Len(kept)
           H == Len(handed)
<1>1. /\ kept \in Seq(InboxMessage) /\ L \in Nat /\ DOMAIN kept = 1 .. L /\ DOMAIN k = 1 .. L + 1
      /\ k[L + 1] = m /\ \A j \in 1 .. L : k[j] = kept[j]
  BY LenProperties, AppendProperties DEF InboxOK
<1>2. \A p : /\ Owned(p, kept) \in SUBSET (1 .. L)
             /\ Owned(p, k) = IF o = p THEN Owned(p, kept) \union {L + 1} ELSE Owned(p, kept)
  BY <1>1, OwnedAppend DEF Owner
<1>3. QueuePassed' = QueuePassed
  BY DEF QueuePassed, HandedTo, Owned
<1>4. m.num \in Nat
  BY DEF InboxMessage
<1>5. /\ \A j \in DOMAIN kept : KeptAt(kept, j, sent, Passed) /\ Later(kept, j, H, QueuePassed)
      /\ \A p \in Pairs : QueuePassed[p] \in 0 .. Passed[p]
  BY KeptParts
<1> HIDE DEF o, k, L, H
<1>6. ASSUME NEW p \in Pairs PROVE Passed'[p] \in Nat /\ Passed[p] <= Passed'[p]
  <2>1. p = o => m.num > Passed[p] /\ Passed'[p] = m.num
    BY DEF o
  <2>2. p # o => Passed'[p] = Passed[p]
    BY DEF o
  <2>3. QED
    BY <1>4, <2>1, <2>2
<1>7. \A p \in Pairs : QueuePassed[p] \in 0 .. Passed'[p]
  BY <1>5, <1>6
<1>8. ASSUME NEW j \in 1 .. L
      PROVE  KeptAt(k, j, sent, Passed') /\ Later(k, j, H, QueuePassed)
  <2> DEFINE p == Owner(kept[j])
             x == kept[j].num
  <2>1. KeptAt(kept, j, sent, Passed) /\ Later(kept, j, H, QueuePassed) /\ k[j] = kept[j]
    BY <1>1, <1>5
  <2>2. p \in Pairs /\ x \in Nat /\ x <= Passed[p]
    <3>1. x \in 1 .. Len(sent[p])
      BY <2>1, KeptNumber
    <3>2. p \in Pairs /\ x <= Passed[p]
      BY <2>1 DEF KeptAt
    <3>3. QED
      BY <3>1, <3>2
  <2>3. x <= Passed'[p]
    BY <1>6, <2>2
  <2>4. ASSUME NEW i \in Owned(p, k), j < i PROVE x < k[i].num
    <3>1. CASE i \in Owned(p, kept)
      <4>1. kept[j].num < kept[i].num
        BY <2>1, <2>4, <3>1 DEF KeptAt
      <4>2. k[i] = kept[i]
        <5> HIDE DEF p
        <5>1. QED
          BY <1>1, <1>2, <3>1
      <4>3. QED
        BY <4>1, <4>2
    <3>2. CASE o = p /\ i = L + 1
      <4>1. Passed[p] < m.num
        BY <3>2 DEF o
      <4> HIDE DEF x, p
      <4>2. QED
        BY <1>1, <1>4, <2>2, <3>2, <4>1
    <3>3. QED
      BY <1>2, <3>1, <3>2
  <2>5. QED
    BY <2>1, <2>3, <2>4 DEF KeptAt, Later
<1>9. KeptAt(k, L + 1, sent, Passed')
  <2>1. \A i \in Owned(o, k) : ~ (L + 1 < i)
    BY <1>1, <1>2, SMTT(30)
  <2>2. o \in Pairs /\ Passed'[o] = m.num /\ m.num <= m.num
    BY <1>4 DEF o
  <2>3. QED
    BY <1>1, <2>1, <2>2 DEF KeptAt, o
<1>10. QueuePassed[o] < m.num
  <2>1. o \in Pairs /\ Passed[o] < m.num /\ Passed[o] \in Nat
    BY <1>4 DEF o
  <2>2. QED
    BY <1>4, <1>5, <2>1
<1>11. ASSUME NEW j \in DOMAIN k PROVE KeptAt(k, j, sent, Passed') /\ Later(k, j, H, QueuePassed)
  <2>1. CASE j \in 1 .. L
    BY <1>8, <2>1
  <2>2. CASE j = L + 1
    BY <1>1, <1>9, <1>10, <2>2 DEF Later, o
  <2>3. QED
    BY <1>1, <2>1, <2>2
<1>12. QED
  BY <1>3, <1>7, <1>11, KeptPartsNext DEF k, H

LEMMA QueueAddChunkKept ==
  ASSUME TableOK(rx, view), HistoryOK, InboxOK, MessagesRise, KeptRises,
         TableOK(rx', view'), HistoryOK', MessagesRise', NEW q \in Pairs, QueueAddChunk(q)
  PROVE  KeptRises'
<1> DEFINE ch == Head(wire[q])
           m == ViewedMessage
           b == rx'[view']
<1>1. AddChunk(q) /\ sent' = sent /\ handed' = handed
  BY DEF QueueAddChunk, AddChunk
<1>2. SentKnown /\ HandedAsAnnounced /\ SentKnown' /\ HandedAsAnnounced'
  BY RiseParts DEF MessagesRise, SentKnown
<1>3. \A p \in Pairs : Passed[p] \in Nat
  BY <1>2, PassedOf
<1>4. CASE ~ (ChunkLen(ch) <= MESSAGE_MAXLEN /\ view' # 0)
  <2>1. kept' = kept
    BY <1>4 DEF QueueAddChunk
  <2>2. got' = got
    BY <1>1, <1>4, HandedIsViewed
  <2>3. Passed' = Passed
    BY <2>2 DEF Passed
  <2>4. QED
    BY <1>1, <1>2, <1>3, <2>1, <2>3, KeptStays
<1>5. CASE ChunkLen(ch) <= MESSAGE_MAXLEN /\ view' # 0
  <2>1. Handed(b)
    BY <1>1, <1>5, ViewIsHanded
  <2>2. \A p \in Pairs : Passed'[p] = IF p = Owner(b) THEN b.num ELSE Passed[p]
    BY <1>1, <1>2, <2>1, HandedNext
  <2>3. m \in InboxMessage
    BY <1>5, ViewedMessageType
  <2>4. /\ m.id = b.id /\ m.from = b.from /\ m.to = b.to /\ m.data = b.payload /\ m.num = b.num
    BY DEF ViewedMessage
  <2>5. InboxPush(m)
    BY <1>5 DEF QueueAddChunk
  <2>6. /\ Owner(b) \in Pairs /\ Complete(b) /\ Announces(b, b.num, sent[Owner(b)])
        /\ b.num > Passed[Owner(b)] /\ b.payload \in Seq(Bytes)
    BY <2>1 DEF Handed
  <2> HIDE DEF m, b
  <2>7. Owner(m) = Owner(b)
    BY <2>4 DEF Owner
  <2>8. m.num \in Nat
    BY <2>3 DEF InboxMessage
  <2>9. CASE kept' = kept
    <3>1. \A p \in Pairs : Passed[p] \in Nat /\ Passed'[p] \in Nat /\ Passed[p] <= Passed'[p]
      BY <1>3, <2>2, <2>4, <2>6, <2>8
    <3>2. QED
      BY <1>1, <1>2, <2>9, <3>1, KeptStays
  <2>10. CASE kept' = Append(kept, m)
    <3>1. Announces(Announced(m), m.num, sent[Owner(m)])
      <4> DEFINE x == Announced(m)
      <4>1. x.id = b.id /\ x.length = b.length /\ x.crc = b.crc
        BY <2>4, <2>6 DEF Announced, Complete
      <4> HIDE DEF x
      <4>2. QED
        BY <2>4, <2>6, <2>7, <4>1 DEF Announces, x
    <3>2. m.data \in Seq(Bytes) /\ m.num > Passed[Owner(m)] /\ Owner(m) \in Pairs
      BY <2>4, <2>6, <2>7
    <3>3. \A p \in Pairs : /\ Passed[p] \in Nat
                           /\ Passed'[p] = IF p = Owner(m) THEN m.num ELSE Passed[p]
      BY <1>3, <2>2, <2>4, <2>7
    <3>4. QED
      BY <1>1, <1>2, <2>3, <2>10, <3>1, <3>2, <3>3, PushRises
  <2>11. QED
    BY <2>5, <2>9, <2>10 DEF InboxPush
<1>6. QED
  BY <1>4, <1>5


\* A restart keeps what rx_event got, and nothing else.
LEMMA QueueRestartKept ==
  ASSUME InboxOK, KeptRises, QueueRestart
  PROVE  KeptRises'
<1> DEFINE C == RingContents(inbox, InboxSize)
           L == Len(handed)
<1>1. /\ kept' = handed /\ handed' = handed /\ sent' = sent /\ got' = got
      /\ kept = handed \o C
  BY DEF QueueRestart, Restart, InboxOK, InboxKeepsOrder, Finished
<1>2. handed \in Seq(InboxMessage) /\ C \in Seq(InboxMessage)
  BY QueueAssumption, RingContentsType DEF InboxOK
<1> HIDE DEF C
<1>3. /\ L \in Nat /\ DOMAIN handed = 1 .. L
      /\ \A j \in DOMAIN handed : j \in DOMAIN kept /\ kept[j] = handed[j]
  BY <1>1, <1>2, ConcatProperties, LenProperties
<1>4. Passed' = Passed /\ QueuePassed' = QueuePassed
  BY <1>1 DEF Passed, QueuePassed, HandedTo, Owned
<1>5. \A p : \A i \in Owned(p, handed) : i \in Owned(p, kept) /\ kept[i] = handed[i]
  BY <1>3 DEF Owned
<1>6. /\ \A j \in DOMAIN kept : KeptAt(kept, j, sent, Passed)
      /\ \A p \in Pairs : QueuePassed[p] \in 0 .. Passed[p]
  BY KeptParts
<1>7. ASSUME NEW j \in DOMAIN handed
      PROVE  KeptAt(handed, j, sent, Passed) /\ Later(handed, j, L, QueuePassed)
  <2>1. KeptAt(kept, j, sent, Passed) /\ kept[j] = handed[j]
    BY <1>3, <1>6
  <2>2. ~ (j > L)
    BY <1>3
  <2> HIDE DEF L
  <2>3. QED
    BY <1>5, <2>1, <2>2 DEF KeptAt, Later
<1>8. QED
  BY <1>1, <1>4, <1>6, <1>7, KeptPartsNext

\* poll_new gives rx_event the message that comes next.
LEMMA NextIsHanded ==
  ASSUME InboxOK, PollNewBegin
  PROVE  LET e == kept[Len(handed) + 1]
         IN  /\ Len(handed) \in Nat /\ Len(handed) + 1 \in DOMAIN kept
             /\ e \in InboxMessage /\ handed \in Seq(InboxMessage)
             /\ handed' = Append(handed, e)
             /\ Len(handed') = Len(handed) + 1
<1> DEFINE C == RingContents(inbox, InboxSize)
           D == RingContents(RingPop(inbox, InboxSize), InboxSize)
           f == inbox.slots[inbox.head]
<1>1. /\ handed \in Seq(InboxMessage) /\ kept = handed \o C /\ inbox.count > 0
      /\ handed' = Append(handed, f) /\ inbox \in Rings(InboxSize, InboxMessage)
  BY DEF PollNewBegin, InboxOK, InboxKeepsOrder, Finished
<1>2. f \in InboxMessage /\ C = <<f>> \o D /\ RingPop(inbox, InboxSize) \in Rings(InboxSize, InboxMessage)
  BY <1>1, QueueAssumption, RingPopTakesHead
<1>3. D \in Seq(InboxMessage)
  BY <1>2, QueueAssumption, RingContentsType
<1> HIDE DEF C, D, f
<1>4. C \in Seq(InboxMessage) /\ Len(C) \in Nat /\ Len(C) >= 1 /\ C[1] = f
  BY <1>2, <1>3, ConcatProperties, LenProperties
<1>5. /\ Len(handed) \in Nat /\ Len(handed) + 1 \in DOMAIN kept /\ kept[Len(handed) + 1] = f
  BY <1>1, <1>4, ConcatProperties, LenProperties
<1>6. Len(handed') = Len(handed) + 1
  BY <1>1, <1>2, AppendProperties
<1>7. QED
  BY <1>1, <1>2, <1>5, <1>6

LEMMA PollNewKept ==
  ASSUME InboxOK, HistoryOK, SentKnown, HandedAsAnnounced, KeptRises, PollNewBegin
  PROVE  KeptRises'
<1> DEFINE n == Len(handed) + 1
           e == kept[n]
           o == Owner(e)
<1>1. /\ Len(handed) \in Nat /\ n \in DOMAIN kept /\ e \in InboxMessage
      /\ handed \in Seq(InboxMessage) /\ handed' = Append(handed, e) /\ Len(handed') = n
  BY NextIsHanded
<1>2. /\ kept' = kept /\ sent' = sent /\ got' = got
  BY DEF PollNewBegin, protocolVars
<1>3. Passed' = Passed
  BY <1>2 DEF Passed
<1>4. \A p \in Pairs : QueuePassed'[p] = IF o = p THEN e.num ELSE QueuePassed[p]
  BY <1>1, PollNewPasses DEF Owner
<1>5. /\ \A j \in DOMAIN kept :
           KeptAt(kept, j, sent, Passed) /\ Later(kept, j, Len(handed), QueuePassed)
      /\ \A p \in Pairs : QueuePassed[p] \in 0 .. Passed[p]
  BY KeptParts
<1>6. /\ KeptAt(kept, n, sent, Passed) /\ o \in Pairs /\ e.num <= Passed[o]
      /\ \A i \in Owned(o, kept) : n < i => e.num < kept[i].num
      /\ e.num \in Nat
  <2>1. KeptAt(kept, n, sent, Passed)
    BY <1>1, <1>5
  <2>2. e.num \in Nat
    <3> HIDE DEF e
    <3>1. QED
      BY <1>1 DEF InboxMessage
  <2>3. QED
    BY <2>1, <2>2 DEF KeptAt
<1>7. DOMAIN kept \subseteq Nat
  BY LenProperties DEF InboxOK
<1> HIDE DEF e, n, o
<1>8. ASSUME NEW p \in Pairs PROVE QueuePassed'[p] \in 0 .. Passed[p]
  <2>1. CASE o = p
    <3>1. Passed[p] \in Nat
      BY PassedOf
    <3>2. QED
      BY <1>4, <1>6, <2>1, <3>1
  <2>2. CASE o # p
    BY <1>4, <1>5, <2>2
  <2>3. QED
    BY <2>1, <2>2
<1>9. ASSUME NEW j \in DOMAIN kept, j > n PROVE QueuePassed'[Owner(kept[j])] < kept[j].num
  <2> DEFINE p == Owner(kept[j])
  <2>1. KeptAt(kept, j, sent, Passed) /\ Later(kept, j, Len(handed), QueuePassed)
    BY <1>5
  <2>2. p \in Pairs
    BY <2>1 DEF KeptAt
  <2>3. CASE o = p
    <3>1. j \in Owned(o, kept)
      BY <2>3 DEF Owned, Owner
    <3>2. n < j
      BY <1>1, <1>7, <1>9 DEF n
    <3>3. e.num < kept[j].num
      BY <1>6, <3>1, <3>2
    <3>4. QED
      BY <1>4, <2>2, <2>3, <3>3
  <2>4. CASE o # p
    <3>1. j > Len(handed)
      BY <1>1, <1>7, <1>9 DEF n
    <3>2. QED
      BY <1>4, <2>1, <2>2, <2>4, <3>1 DEF Later
  <2>5. QED
    BY <2>3, <2>4
<1>10. QED
  BY <1>1, <1>2, <1>3, <1>5, <1>8, <1>9, KeptPartsNext DEF Later


LEMMA QueueNextKeeps ==
  ASSUME NoRepeats, TableOK(rx, view), HistoryOK, SendersOK, InboxOK, MessagesRise, KeptRises,
         TableOK(rx', view'), HistoryOK', MessagesRise', [QueueNext]_queueVars
  PROVE  KeptRises'
<1>1. SentKnown /\ HandedAsAnnounced
  BY RiseParts
<1>2. \A p \in Pairs : Passed[p] \in Nat /\ Passed[p] <= Passed[p]
  BY <1>1, PassedOf
<1>3. ASSUME UNCHANGED <<kept, handed, sent, got>> PROVE KeptRises'
  <2>1. Passed' = Passed
    BY <1>3 DEF Passed
  <2>2. QED
    BY <1>1, <1>2, <1>3, <2>1, KeptStays
<1>4. ASSUME NEW q \in Pairs, QueueSend(q) PROVE KeptRises'
  <2>1. kept' = kept /\ handed' = handed /\ got' = got
    BY <1>4 DEF QueueSend, inboxVars
  <2>2. PICK m \in Contents : sent' = [sent EXCEPT ![q] = Append(@, m)]
    BY <1>4 DEF QueueSend
  <2>3. \A p \in Pairs : \A x, k : Announces(x, k, sent[p]) => Announces(x, k, sent'[p])
    BY <1>1, <2>2, AnnouncedStays
  <2>4. Passed' = Passed
    BY <2>1 DEF Passed
  <2>5. QED
    BY <1>1, <1>2, <2>1, <2>3, <2>4, KeptStays
<1>5. ASSUME NEW q \in Pairs, QueueAddChunk(q) PROVE KeptRises'
  BY <1>5, QueueAddChunkKept
<1>6. CASE QueueRestart
  BY <1>6, QueueRestartKept
<1>7. CASE PollNewBegin
  BY <1>1, <1>7, PollNewKept
<1>8. ASSUME \/ \E q \in Pairs : WireMishap(q)
             \/ \E n \in Senders : PollTxSent(n) \/ PollTxDropped(n) \/ PollTxAgain(n)
             \/ PollNewEnd \/ UNCHANGED queueVars
      PROVE  UNCHANGED <<kept, handed, sent, got>>
  BY <1>8 DEF WireMishap, Lose, Duplicate, Intrude, PollTxSent, PollTxDropped, PollTxAgain,
              PollNewEnd, queueVars, protocolVars, inboxVars
<1>9. QED
  BY <1>3, <1>4, <1>5, <1>6, <1>7, <1>8 DEF QueueNext

LEMMA QueueNextRises ==
  NoRepeats /\ QueueInvariant /\ QueueRises /\ [QueueNext]_queueVars => QueueRises'
<1> SUFFICES ASSUME NoRepeats, QueueInvariant, QueueRises, [QueueNext]_queueVars
             PROVE  QueueRises'
  OBVIOUS
<1>1. TableOK(rx, view) /\ HistoryOK /\ SendersOK /\ InboxOK
  BY QueueParts
<1>2. TableOK(rx', view') /\ HistoryOK'
  <2>1. QueueInvariant'
    BY QueueNextInvariant
  <2>2. QED
    BY <2>1, QueueParts DEF QueueInvariant, ReassemblyInvariant, TypeOK, TableInOrder, TableOK,
                            HistoryOK, HeldOK
<1>3. MessagesRise' /\ OutboxRises'
  BY <1>1, <1>2, QueueNextAhead DEF QueueRises
<1>4. KeptRises'
  BY <1>1, <1>2, <1>3, QueueNextKeeps DEF QueueRises
<1>5. QED
  BY <1>3, <1>4 DEF QueueRises

LEMMA NothingHanded ==
  ASSUME handed = <<>>, NEW p
  PROVE  HandedTo(p) = <<>>
<1>1. Owned(p, handed) = {}
  BY DEF Owned
<1>2. Cardinality(Owned(p, handed)) = 0
  BY <1>1, FS_EmptySet
<1>3. Picked(handed, Owned(p, handed)) = <<>>
  BY <1>2 DEF Picked
<1>4. QED
  BY <1>3 DEF HandedTo

LEMMA QueueInitRises == QueueInit => QueueRises
<1> SUFFICES ASSUME QueueInit PROVE QueueRises
  OBVIOUS
<1>1. MessagesRise
  BY InitRises DEF QueueInit
<1>2. OutboxRises
  <2>1. \A n \in Senders : Waiting(n) = <<>>
    BY DEF QueueInit, Waiting, EmptyRing, RingContents
  <2>2. QED
    BY <2>1, OutboxParts
<1>3. \A p \in Pairs : QueuePassed[p] = 0 /\ Passed[p] = 0
  BY NothingHanded DEF QueueInit, Init, QueuePassed, Passed
<1>4. KeptRises
  <2>1. DOMAIN kept = {}
    BY DEF QueueInit
  <2>2. \A p \in Pairs : QueuePassed[p] \in 0 .. Passed[p]
    BY <1>3
  <2>3. QED
    BY <2>1, <2>2, KeptParts
<1>5. QED
  BY <1>1, <1>2, <1>4 DEF QueueRises

-----------------------------------------------------------------------------
(* The queued protocol as a lossy message stream.                          *)

\* What rx_event gets is a later message of its pair than the one before.
LEMMA PollNewIsDeliver ==
  ASSUME Telling, HistoryOK, InboxOK, MessagesRise, KeptRises, PollNewBegin
  PROVE  \E p \in Pairs : LossyQueue!Deliver(p)
<1> DEFINE n == Len(handed) + 1
           e == kept[n]
           o == Owner(e)
           k == e.num
           m == sent[o][k]
           g == HandedTo(o)
           h == Append(g, e)
           plain == [j \in DOMAIN g |-> [id |-> g[j].id, data |-> g[j].data]]
<1>1. /\ Len(handed) \in Nat /\ n \in DOMAIN kept /\ e \in InboxMessage
      /\ handed \in Seq(InboxMessage) /\ handed' = Append(handed, e)
  BY NextIsHanded
<1>2. SentKnown /\ HandedAsAnnounced /\ sent' = sent
  BY RiseParts DEF PollNewBegin, protocolVars
<1>3. KeptAt(kept, n, sent, Passed) /\ Later(kept, n, Len(handed), QueuePassed)
  BY <1>1, KeptParts
<1>4. o \in Pairs /\ k \in 1 .. Len(sent[o]) /\ Len(sent[o]) \in Nat /\ QueuePassed[o] < k
  <2>1. k \in 1 .. Len(sent[o]) /\ Len(sent[o]) \in Nat
    BY <1>2, <1>3, KeptNumber
  <2>2. n > Len(handed)
    BY <1>1
  <2>3. QED
    BY <1>3, <2>1, <2>2 DEF KeptAt, Later
<1>5. QueuePassed[o] \in Nat
  <2>1. QueuePassed[o] \in 0 .. Passed[o]
    BY <1>4, KeptParts
  <2>2. QED
    BY <2>1
<1>6. m \in Contents /\ e.data \in Seq(Bytes) /\ e.id = m.id
      /\ Len(e.data) = Len(m.data) /\ Checksum(e.data) = Checksum(m.data)
  <2>1. m \in Contents
    BY <1>2, <1>4, ElementOfSeq DEF SentKnown
  <2>2. Announces(Announced(e), k, sent[o]) /\ e.data \in Seq(Bytes)
    BY <1>3 DEF KeptAt
  <2> HIDE DEF e, o, k
  <2>3. QED
    BY <2>1, <2>2 DEF Announces, Announced
<1>7. m = [id |-> e.id, data |-> e.data]
  <2>1. e.data \in [1 .. Len(m.data) -> Bytes]
    BY <1>6, LenProperties
  <2>2. e.data = m.data
    BY <1>6, <2>1 DEF Telling
  <2>3. m \in Message
    BY <1>6, TrafficAssumption
  <2>4. QED
    BY <1>6, <2>2, <2>3 DEF Message
<1>8. \A p \in Pairs : QueuePassed'[p] = IF o = p THEN k ELSE QueuePassed[p]
  BY <1>1, PollNewPasses DEF Owner
<1>9. \A p : HandedTo(p)' = IF o = p THEN Append(HandedTo(p), e) ELSE HandedTo(p)
  BY <1>1, HandedToAppend DEF Owner
<1>10. PICK c \in Nat : DOMAIN g = 1 .. c /\ g = [j \in 1 .. c |-> g[j]]
  BY <1>1, HandedToAppend
<1> HIDE DEF g
<1>11. /\ DOMAIN h = 1 .. c + 1 /\ h[c + 1] = e /\ \A j \in 1 .. c : h[j] = g[j]
  BY <1>10, AppendTo
<1> HIDE DEF h, m, k, o, e
<1>12. [j \in DOMAIN h |-> [id |-> h[j].id, data |-> h[j].data]] = Append(plain, m)
  <2>1. DOMAIN plain = 1 .. c /\ plain = [j \in 1 .. c |-> plain[j]]
        /\ \A j \in 1 .. c : plain[j] = [id |-> g[j].id, data |-> g[j].data]
    BY <1>10
  <2> HIDE DEF plain
  <2>2. /\ DOMAIN Append(plain, m) = 1 .. c + 1 /\ Append(plain, m)[c + 1] = m
        /\ \A j \in 1 .. c : Append(plain, m)[j] = plain[j]
        /\ Len(Append(plain, m)) = c + 1
    BY <1>10, <2>1, AppendTo
  <2>3. Append(plain, m) = [j \in 1 .. c + 1 |-> Append(plain, m)[j]]
    <3> DEFINE Y == {plain[j] : j \in 1 .. c} \union {m}
    <3>1. plain \in Seq(Y)
      <4>1. \A j \in 1 .. c : plain[j] \in Y
        OBVIOUS
      <4> HIDE DEF Y
      <4>2. QED
        BY <1>10, <2>1, <4>1
    <3>2. m \in Y
      OBVIOUS
    <3> HIDE DEF Y
    <3> DEFINE u == Append(plain, m)
    <3>3. u \in Seq(Y) /\ DOMAIN u = 1 .. c + 1
      BY <2>2, <3>1, <3>2, AppendProperties
    <3> HIDE DEF u
    <3>4. u = [j \in 1 .. c + 1 |-> u[j]]
      BY <3>3
    <3>5. QED
      BY <3>4 DEF u
  <2> DEFINE u == Append(plain, m)
  <2> HIDE DEF u
  <2>4. \A j \in 1 .. c + 1 : u[j] = [id |-> h[j].id, data |-> h[j].data]
    <3> SUFFICES ASSUME NEW j \in 1 .. c + 1 PROVE u[j] = [id |-> h[j].id, data |-> h[j].data]
      OBVIOUS
    <3>1. j \in 1 .. c \/ j = c + 1
      BY <1>10
    <3>2. QED
      BY <1>7, <1>11, <2>1, <2>2, <3>1 DEF u
  <2>5. u = [j \in 1 .. c + 1 |-> u[j]]
    BY <2>3 DEF u
  <2>6. [j \in DOMAIN h |-> [id |-> h[j].id, data |-> h[j].data]] = u
    BY <1>11, <2>4, <2>5
  <2>7. QED
    BY <2>6 DEF u
<1>13. QueueDelivered' = [QueueDelivered EXCEPT ![o] = Append(@, m)]
  <2>1. QueueDelivered[o] = plain
    BY <1>4 DEF QueueDelivered, g
  <2>2. QueueDelivered'[o] = Append(plain, m)
    <3>1. PICK p \in Pairs : p = o
      BY <1>4
    <3>2. HandedTo(p)' = h
      BY <1>9, <3>1 DEF h, g
    <3>3. QueueDelivered'[p] =
            [j \in DOMAIN HandedTo(p)' |-> [id |-> HandedTo(p)'[j].id, data |-> HandedTo(p)'[j].data]]
      BY DEF QueueDelivered
    <3>4. QED
      BY <1>12, <3>1, <3>2, <3>3
  <2>3. \A p \in Pairs : p # o => QueueDelivered'[p] = QueueDelivered[p]
    <3> SUFFICES ASSUME NEW p \in Pairs, p # o PROVE QueueDelivered'[p] = QueueDelivered[p]
      OBVIOUS
    <3>1. HandedTo(p)' = HandedTo(p)
      BY <1>9
    <3>2. QED
      BY <3>1 DEF QueueDelivered
  <2>4. QED
    BY <1>4, <2>1, <2>2, <2>3 DEF QueueDelivered
<1>14. QueuePassed' = [QueuePassed EXCEPT ![o] = k]
  BY <1>4, <1>8 DEF QueuePassed
<1>15. k \in QueuePassed[o] + 1 .. Len(sent[o])
  BY <1>4, <1>5
<1>16. LossyQueue!Deliver(o)
  BY <1>2, <1>13, <1>14, <1>15 DEF LossyQueue!Deliver, k, m
<1>17. QED
  BY <1>4, <1>16

LEMMA QueueStepIsStreamed ==
  ASSUME Telling, HistoryOK, InboxOK, MessagesRise, KeptRises, [QueueNext]_queueVars
  PROVE  [LossyQueue!Next]_(LossyQueue!vars)
<1>1. ASSUME handed' = handed PROVE QueuePassed' = QueuePassed /\ QueueDelivered' = QueueDelivered
  BY <1>1 DEF QueuePassed, QueueDelivered, HandedTo, Owned
<1>2. ASSUME NEW p \in Pairs, QueueSend(p) PROVE LossyQueue!Next
  <2>1. handed' = handed /\ \E m \in Contents : sent' = [sent EXCEPT ![p] = Append(@, m)]
    BY <1>2 DEF QueueSend, inboxVars
  <2>2. LossyQueue!Send(p)
    BY <1>1, <2>1 DEF LossyQueue!Send
  <2>3. QED
    BY <2>2 DEF LossyQueue!Next
<1>3. CASE PollNewBegin
  BY <1>3, PollNewIsDeliver DEF LossyQueue!Next
<1>4. ASSUME \/ \E p \in Pairs : QueueAddChunk(p) \/ WireMishap(p)
             \/ \E n \in Senders : PollTxSent(n) \/ PollTxDropped(n) \/ PollTxAgain(n)
             \/ PollNewEnd \/ QueueRestart \/ UNCHANGED queueVars
      PROVE  UNCHANGED (LossyQueue!vars)
  <2>1. handed' = handed /\ sent' = sent
    BY <1>4 DEF QueueAddChunk, AddChunk, WireMishap, Lose, Duplicate, Intrude, PollTxSent,
                PollTxDropped, PollTxAgain, PollNewEnd, QueueRestart, Restart, queueVars,
                protocolVars, inboxVars
  <2>2. QED
    BY <1>1, <2>1 DEF LossyQueue!vars
<1>5. QED
  BY <1>2, <1>3, <1>4 DEF QueueNext

-----------------------------------------------------------------------------
(* The theorems.                                                           *)

\* The queues keep their types, their order and the message under rx_event,
\* and the table of reassemblies behind them stays in order, for any sizes.
THEOREM QueuesInOrder == QueueSpec => []QueueInvariant
BY QueueInitInvariant, QueueNextInvariant, PTL DEF QueueSpec

\* Whatever the sizes and wherever the ring wraps: the chunks of the accepted
\* messages leave the outbox once each and in order (send, poll_tx).
THEOREM OutboxIsQueue == QueueSpec => []OutboxKeepsOrder
<1>1. QueueInvariant => OutboxKeepsOrder
  BY DEF QueueInvariant
<1>2. QED
  BY <1>1, QueuesInOrder, PTL

\* No chunk that is added while rx_event runs overwrites its message.
THEOREM EventMessageIsStable == QueueSpec => []EventMessageStays
<1>1. QueueInvariant => EventMessageStays
  BY DEF QueueInvariant
<1>2. QED
  BY <1>1, QueuesInOrder, PTL

\* From send to rx_event, for any sizes, traffic and mishaps: a message that
\* nothing has harmed and for which the inbox had room is handed over when
\* nothing of it is in the outbox, on the wire or in the inbox any more.
THEOREM UndroppedMessagesAreHanded == QueueSpec => []UndroppedIsHanded
<1>1. QueueInit => QueueInvariant /\ MessagesPass
  BY QueueInitInvariant, QueueInitPasses
<1>2. QueueInvariant /\ MessagesPass /\ [QueueNext]_queueVars
        => QueueInvariant' /\ MessagesPass'
  BY QueueNextInvariant, QueueNextPasses
<1>3. QED
  BY <1>1, <1>2, PassDelivers, PTL DEF QueueSpec

\* From send to rx_event, for any sizes, any traffic and any losses, without
\* repeats and with a checksum that tells messages apart: the queued protocol
\* implements a lossy message stream. What rx_event gets was sent by that pair,
\* in order and only once, whatever poll_tx drops, the inbox refuses or a
\* restart loses.
THEOREM LossyQueueIsStream == NoRepeats /\ Telling => (QueueSpec => LossyQueueStream)
<1> SUFFICES ASSUME NoRepeats, Telling PROVE QueueSpec => LossyQueueStream
  OBVIOUS
<1>1. QueueInit => QueueInvariant /\ QueueRises
  BY QueueInitInvariant, QueueInitRises
<1>2. QueueInit => LossyQueue!Init
  <2> SUFFICES ASSUME QueueInit PROVE LossyQueue!Init
    OBVIOUS
  <2>1. \A p : HandedTo(p) = <<>>
    BY NothingHanded DEF QueueInit
  <2>2. QueuePassed = [p \in Pairs |-> 0] /\ QueueDelivered = [p \in Pairs |-> <<>>]
    BY <2>1 DEF QueuePassed, QueueDelivered
  <2>3. QED
    BY <2>2 DEF QueueInit, Init, LossyQueue!Init
<1>3. QueueInvariant /\ QueueRises /\ [QueueNext]_queueVars
        => [LossyQueue!Next]_(LossyQueue!vars)
  BY QueueParts, QueueStepIsStreamed DEF QueueRises
<1>4. QueueInvariant /\ QueueRises /\ [QueueNext]_queueVars => QueueInvariant' /\ QueueRises'
  BY QueueNextInvariant, QueueNextRises
<1>5. QED
  BY <1>1, <1>2, <1>3, <1>4, PTL DEF QueueSpec, LossyQueueStream, LossyQueue!Spec
=============================================================================
