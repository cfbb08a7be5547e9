----------------------------- MODULE Protoplexer -----------------------------
(***************************************************************************)
(* The ProtoPlexer protocol: messages of up to 65535 bytes are sent in     *)
(* chunks of one CAN frame each, the first one with a header that carries  *)
(* message identifier, length and CRC.  A receiving context                *)
(* (uni_can_protoplexer_ctx_t) puts the chunks of every (from,to) pair     *)
(* together again, in a table of max_channels reassemblies.                *)
(*                                                                         *)
(* Senders put the chunks of a message on the wire one behind the other;   *)
(* chunks of different pairs interleave in any way.  Chunks carry no       *)
(* number: what is left of a message whose chunks were lost or repeated is *)
(* recognised by its length and CRC only.                                  *)
(***************************************************************************)
EXTENDS TableScan, Integers, Sequences

CONSTANTS
  Own,            \* own_address of the receiving context
  Monitoring,     \* TRUE: chunks for other addresses are put together too
  MaxChannels,    \* size of the table of reassemblies
  MaxPayload,     \* longest message data that is accepted, 0: see Static
  Static,         \* memory of the application (TRUE) or of the heap
  ChunkLength,    \* max_chunk_length of the senders
  Checksum(_),    \* uni_can_protoplexer_crc16
  Pairs,          \* the (from,to) pairs that send
  Contents,       \* the messages they send
  MaxSends,       \* how many messages are sent at most
  Noise,          \* foreign chunks that may appear
  Apis,           \* calls the application uses: "add_chunk", "add_chunk_view"
  Mishaps,        \* kinds of mishap that may happen
  MaxMishaps      \* how many mishaps happen at most

VARIABLES
  wire,     \* wire[p]: chunks of pair p on their way, oldest first
  rx,       \* the reassemblies of the receiver
  view,     \* the reassembly given out by add_chunk_view, 0: none
  sent,     \* history: sent[p] are the messages sent by pair p
  got,      \* history: got[p] are the messages of pair p handed to the application
  harmed,   \* history: the messages that a mishap or a full table may have cost
  mishaps   \* how many mishaps have happened

vars == <<wire, rx, view, sent, got, harmed, mishaps>>

ERROR_ID == 0
HEADER_SIZE == 6
MESSAGE_MAXLEN == 8
ADDRESS_MIN == 1
ADDRESS_MAX == 4095
LENGTH_MAX == 65535

Channels == 1 .. MaxChannels

ASSUME ReceiverAssumption ==
  /\ Own \in 0 .. ADDRESS_MAX
  /\ Monitoring \in BOOLEAN
  /\ Static \in BOOLEAN
  /\ MaxChannels \in Nat \ {0}
  /\ MaxPayload \in 0 .. LENGTH_MAX
ASSUME SenderAssumption ==
  /\ ChunkLength \in HEADER_SIZE .. MESSAGE_MAXLEN
  /\ Pairs \subseteq (0 .. ADDRESS_MAX) \X (0 .. ADDRESS_MAX)
  /\ MaxSends \in Nat
ASSUME MishapsAssumption ==
  /\ Apis \subseteq {"add_chunk", "add_chunk_view"}
  /\ Mishaps \subseteq {"loss", "duplicate", "noise", "alloc", "restart", "drop"}
  /\ MaxMishaps \in Nat

Header == [id : Nat, length : Nat, crc : Nat]
NoHeader == [id |-> ERROR_ID, length |-> 0, crc |-> 0]

(***************************************************************************)
(* One CAN frame.  headed says that it is a first chunk of at least six    *)
(* bytes, a header; body is what follows the header, or all the bytes.     *)
(* num is history: which message of its pair the chunk belongs to, 0: none.*)
(***************************************************************************)
Chunk == [id : Nat, headed : BOOLEAN, head : Header, body : Seq(Nat), num : Nat]
ChunkLen(ch) == Len(ch.body) + IF ch.headed THEN HEADER_SIZE ELSE 0

Message == [id : Nat, data : Seq(Nat)]
ASSUME TrafficAssumption ==
  /\ Contents \subseteq Message
  /\ \A m \in Contents : Checksum(m.data) \in Nat
  /\ Noise \subseteq {ch \in Chunk : ch.num = 0}

(***************************************************************************)
(* uni_can_protoplexer_rx_buffer_t.  num is history again.                 *)
(***************************************************************************)
Buffer ==
  [in_use : BOOLEAN, sig : Nat, id : Nat, from : Nat, to : Nat,
   length : Nat, crc : Nat, payload : Seq(Nat), num : Nat]

FreeBuffer ==
  [in_use |-> FALSE, sig |-> 0, id |-> ERROR_ID, from |-> 0, to |-> 0,
   length |-> 0, crc |-> 0, payload |-> <<>>, num |-> 0]

Init ==
  /\ wire = [p \in Pairs |-> <<>>]
  /\ rx = [c \in Channels |-> FreeBuffer]
  /\ view = 0
  /\ sent = [p \in Pairs |-> <<>>]
  /\ got = [p \in Pairs |-> <<>>]
  /\ harmed = {}
  /\ mishaps = 0

-----------------------------------------------------------------------------
(* The identifier of a chunk; the priority, four bits from bit 25, is left *)
(* out: every value of it is valid and nothing depends on it.              *)

CanIdCreate(from, to, first) ==
  (IF first THEN 16777216 ELSE 0) + (from % 4096) * 4096 + (to % 4096)
CanIdFrom(id) == (id \div 4096) % 4096
CanIdTo(id) == id % 4096
CanIdIsFirst(id) == (id \div 16777216) % 2 = 1

Signature(id) == CanIdTo(id) + CanIdFrom(id) * 4096
PairOf(ch) == <<CanIdFrom(ch.id), CanIdTo(ch.id)>>

-----------------------------------------------------------------------------
(* Sending.                                                                *)

ChunksCount(length, size) ==
  IF size \notin HEADER_SIZE .. MESSAGE_MAXLEN THEN 0
  ELSE (HEADER_SIZE + length + size - 1) \div size

\* The part of the data that goes into chunk k = 0, 1, ...: header and data
\* are cut into pieces of the same size.
Body(data, size, k) ==
  LET begin == k * size - HEADER_SIZE
      end == (k + 1) * size - HEADER_SIZE
  IN  SubSeq(data, (IF begin < 0 THEN 0 ELSE begin) + 1,
                   IF end < Len(data) THEN end ELSE Len(data))

BuildChunk(p, m, size, k, num) ==
  [id |-> CanIdCreate(p[1], p[2], k = 0),
   headed |-> k = 0,
   head |-> IF k = 0 THEN [id |-> m.id, length |-> Len(m.data), crc |-> Checksum(m.data)]
            ELSE NoHeader,
   body |-> Body(m.data, size, k),
   num |-> num]

BuildChunks(p, m, size, num) ==
  [k \in 1 .. ChunksCount(Len(m.data), size) |-> BuildChunk(p, m, size, k - 1, num)]

-----------------------------------------------------------------------------
(* The environment of the receiver: senders and wire.                      *)

Mishap(kind) ==
  /\ kind \in Mishaps
  /\ mishaps < MaxMishaps
  /\ mishaps' = mishaps + 1

\* Message k of pair p is not expected to arrive any more: a mishap or a full table touched it.
Harm(p, k) == harmed' = harmed \union {<<p, k>>}

(***************************************************************************)
(* A sender cuts a message into chunks and hands them to its channel.      *)
(***************************************************************************)
Send(p) ==
  /\ Len(sent[p]) < MaxSends
  /\ \E m \in Contents :
       /\ sent' = [sent EXCEPT ![p] = Append(@, m)]
       /\ wire' = [wire EXCEPT ![p] = @ \o BuildChunks(p, m, ChunkLength, Len(sent[p]) + 1)]
  /\ UNCHANGED <<rx, view, got, harmed, mishaps>>

Lose(p) ==
  /\ wire[p] # <<>>
  /\ Mishap("loss")
  /\ wire' = [wire EXCEPT ![p] = Tail(@)]
  /\ Harm(p, Head(wire[p]).num)
  /\ UNCHANGED <<rx, view, sent, got>>

Duplicate(p) ==
  /\ wire[p] # <<>>
  /\ Mishap("duplicate")
  /\ wire' = [wire EXCEPT ![p] = <<Head(@)>> \o @]
  /\ Harm(p, Head(wire[p]).num)
  /\ UNCHANGED <<rx, view, sent, got>>

\* A foreign chunk gets in front of what is still on its way.  It may harm only
\* a message that has begun to arrive.
Intrude(p) ==
  /\ Mishap("noise")
  /\ \E ch \in Noise :
       /\ PairOf(ch) \notin Pairs \ {p}
       /\ wire' = [wire EXCEPT ![p] = <<ch>> \o @]
  /\ harmed' = harmed \union
       {<<p, rx[c].num>> : c \in {d \in Channels : /\ rx[d].in_use /\ d # view
                                                  /\ <<rx[d].from, rx[d].to>> = p}}
  /\ UNCHANGED <<rx, view, sent, got>>

-----------------------------------------------------------------------------
(* uni_can_protoplexer_rx_add_chunk: its parts.                            *)

\* The table after the message that was given out as a view is released.
Released == [c \in Channels |-> IF c = view THEN FreeBuffer ELSE rx[c]]

Holding(sig) == {c \in Channels : Released[c].in_use /\ Released[c].sig = sig}
Vacant == {c \in Channels : ~ Released[c].in_use}
\* rx_get_or_alloc: the reassembly of this pair, or else a free one.
Available(sig) == IF Holding(sig) # {} THEN Holding(sig) ELSE Vacant
Chosen(sig) == FirstOf(Available(sig))

NewBuffer(sig) == [FreeBuffer EXCEPT !.in_use = TRUE, !.sig = sig]
Found(sig) == IF Holding(sig) # {} THEN Released[Chosen(sig)] ELSE NewBuffer(sig)

Related(ch) == CanIdTo(ch.id) = Own \/ Monitoring

AddressValid(a) == a \in ADDRESS_MIN .. ADDRESS_MAX

\* rx_payload_alloc refuses more than the memory of a reassembly holds.
Fits(length) == (MaxPayload # 0 \/ Static) => length <= MaxPayload

\* Faulty: only the header is checked, and a message of one chunk is refused.
FirstRefusedFull(ch) == ~ ch.headed \/ Len(ch.body) >= ch.head.length
FirstRefused(ch) ==
  \/ ~ ch.headed
  \/ ~ AddressValid(CanIdTo(ch.id))
  \/ ~ AddressValid(CanIdFrom(ch.id))
  \/ Len(ch.body) > ch.head.length
  \/ ~ Fits(ch.head.length)
  \/ ch.head.id = ERROR_ID

DataRefused(b, ch) ==
  \/ b.id = ERROR_ID
  \/ Len(b.payload) + Len(ch.body) > b.length

Refused(ch) ==
  IF CanIdIsFirst(ch.id) THEN FirstRefused(ch)
  ELSE DataRefused(Found(Signature(ch.id)), ch)

\* A first chunk starts the reassembly over, whatever it held.
Filled(b, ch) ==
  IF CanIdIsFirst(ch.id)
  THEN [in_use |-> TRUE, sig |-> Signature(ch.id), id |-> ch.head.id,
        from |-> CanIdFrom(ch.id), to |-> CanIdTo(ch.id),
        length |-> ch.head.length, crc |-> ch.head.crc,
        payload |-> ch.body, num |-> ch.num]
  ELSE [b EXCEPT !.payload = @ \o ch.body]

\* Faulty: the CRC is not checked.
CompleteByLength(b) == Len(b.payload) = b.length
Complete(b) == Len(b.payload) = b.length /\ Checksum(b.payload) = b.crc

-----------------------------------------------------------------------------
(* uni_can_protoplexer_add_chunk and uni_can_protoplexer_add_chunk_view:   *)
(* the application hands the next chunk of pair p to the context.          *)

Taken(p) == wire' = [wire EXCEPT ![p] = Tail(@)]

\* An oversized frame is refused before the view is released.
AddInvalid(ch) ==
  /\ ChunkLen(ch) > MESSAGE_MAXLEN
  /\ UNCHANGED <<rx, view, got, harmed, mishaps>>

AddUnrelated(ch) ==
  /\ ~ Related(ch)
  /\ rx' = Released
  /\ view' = 0
  /\ UNCHANGED <<got, harmed, mishaps>>

AddWithoutChannel(p, ch) ==
  /\ Related(ch)
  /\ Available(Signature(ch.id)) = {}
  /\ rx' = Released
  /\ view' = 0
  /\ Harm(p, ch.num)
  /\ UNCHANGED <<got, mishaps>>

\* The reassembly is given up, also when there is no memory for the data.
AddRefused(p, ch, c) ==
  /\ \/ /\ Refused(ch)
        /\ UNCHANGED <<harmed, mishaps>>
     \/ /\ ~ Refused(ch)
        /\ CanIdIsFirst(ch.id) /\ ~ Static /\ ch.head.length > 0
        /\ Mishap("alloc")
        /\ Harm(p, ch.num)
  /\ rx' = [Released EXCEPT ![c] = FreeBuffer]
  /\ view' = 0
  /\ UNCHANGED got

\* More chunks are missing, or the CRC is wrong: the reassembly stays.
AddStored(ch, c, b) ==
  /\ ~ Refused(ch)
  /\ ~ Complete(b)
  /\ rx' = [Released EXCEPT ![c] = b]
  /\ view' = 0
  /\ UNCHANGED <<got, harmed, mishaps>>

HandOver(b) ==
  got' = [got EXCEPT ![<<b.from, b.to>>] =
            Append(@, [id |-> b.id, data |-> b.payload, num |-> b.num])]

\* The message is complete: a copy of it, or a view of it.
AddCompleted(p, ch, c, b) ==
  /\ ~ Refused(ch)
  /\ Complete(b)
  /\ \/ /\ "add_chunk" \in Apis
        /\ rx' = [Released EXCEPT ![c] = FreeBuffer]
        /\ view' = 0
        /\ \/ /\ HandOver(b)
              /\ UNCHANGED <<harmed, mishaps>>
           \/ /\ Mishap("alloc")
              /\ Harm(p, b.num)
              /\ UNCHANGED got
     \/ /\ "add_chunk_view" \in Apis
        /\ rx' = [Released EXCEPT ![c] = b]
        /\ view' = c
        /\ HandOver(b)
        /\ UNCHANGED <<harmed, mishaps>>

AddChunk(p) ==
  /\ wire[p] # <<>>
  /\ LET ch == Head(wire[p])
         sig == Signature(ch.id)
         c == Chosen(sig)
         b == Filled(Found(sig), ch)
     IN  \/ AddInvalid(ch)
         \/ /\ ChunkLen(ch) <= MESSAGE_MAXLEN
            /\ \/ AddUnrelated(ch)
               \/ AddWithoutChannel(p, ch)
               \/ /\ Related(ch)
                  /\ Available(sig) # {}
                  /\ \/ AddRefused(p, ch, c)
                     \/ AddStored(ch, c, b)
                     \/ AddCompleted(p, ch, c, b)
  /\ Taken(p)
  /\ UNCHANGED sent

\* uni_can_protoplexer_deinit, then init again.
Restart ==
  /\ Mishap("restart")
  /\ rx' = [c \in Channels |-> FreeBuffer]
  /\ view' = 0
  /\ harmed' = harmed \union
       {<< <<rx[c].from, rx[c].to>>, rx[c].num>> : c \in {d \in Channels : rx[d].in_use}}
  /\ UNCHANGED <<wire, sent, got>>

Next ==
  \/ \E p \in Pairs : Send(p) \/ Lose(p) \/ Duplicate(p) \/ Intrude(p) \/ AddChunk(p)
  \/ Restart

Spec == Init /\ [][Next]_vars

-----------------------------------------------------------------------------
(* Properties.                                                             *)

\* Every variable keeps its type.
TypeOK ==
  /\ wire \in [Pairs -> Seq(Chunk)]
  /\ rx \in [Channels -> Buffer]
  /\ view \in 0 .. MaxChannels
  /\ sent \in [Pairs -> Seq(Message)]
  /\ got \in [Pairs -> Seq([id : Nat, data : Seq(Nat), num : Nat])]
  /\ mishaps \in 0 .. MaxMishaps

(***************************************************************************)
(* The table of reassemblies between two calls: no pair has two of them,   *)
(* none is held without a header (a refused chunk gives its reassembly     *)
(* up), the data never outgrows the announced length nor the memory behind *)
(* it, and a message that is complete stays only as the view.              *)
(***************************************************************************)
TableInOrder ==
  /\ \A c, d \in Channels :
       rx[c].in_use /\ rx[d].in_use /\ rx[c].sig = rx[d].sig => c = d
  /\ \A c \in Channels : rx[c].in_use =>
       /\ rx[c].id # ERROR_ID
       /\ rx[c].sig = rx[c].to + rx[c].from * 4096
       /\ AddressValid(rx[c].from) /\ AddressValid(rx[c].to)
       /\ Len(rx[c].payload) <= rx[c].length
       /\ Fits(rx[c].length)
       /\ Complete(rx[c]) <=> view = c
  /\ \A c \in Channels : ~ rx[c].in_use => rx[c] = FreeBuffer /\ view # c

\* The inductive invariant of the receiver.
ReassemblyInvariant == TypeOK /\ TableInOrder

\* A message that the receiver accepts when all of its chunks arrive.
Acceptable(p, m) ==
  /\ p[2] = Own \/ Monitoring
  /\ AddressValid(p[1]) /\ AddressValid(p[2])
  /\ Fits(Len(m.data))
  /\ m.id # ERROR_ID

(***************************************************************************)
(* A message whose chunks all arrive and find a reassembly is handed over, *)
(* whatever happened to the messages of its pair before it: what is left   *)
(* of those in the reassembly (also after a wrong CRC) never spoils it.    *)
(* A message that finds the table full counts as harmed: the code keeps    *)
(* what is left of a broken message until its pair begins another one, and *)
(* till then it may be what fills the table and costs other pairs theirs.  *)
(***************************************************************************)
UnharmedIsDelivered ==
  \A p \in Pairs : \A k \in DOMAIN sent[p] :
    /\ Acceptable(p, sent[p][k])
    /\ <<p, k>> \notin harmed
    /\ \A q \in DOMAIN wire[p] : wire[p][q].num # k
    => [id |-> sent[p][k].id, data |-> sent[p][k].data, num |-> k]
         \in {got[p][j] : j \in DOMAIN got[p]}

(***************************************************************************)
(* What makes it so.  A message that nothing has harmed is either still to *)
(* come, all of it, or its first j chunks are in a reassembly and the rest *)
(* is what arrives next, or it has been handed over.                       *)
(***************************************************************************)
\* Where the data of the first j chunks ends.
DataEnd(m, j) ==
  LET end == j * ChunkLength - HEADER_SIZE IN IF end < Len(m.data) THEN end ELSE Len(m.data)

Count(m) == ChunksCount(Len(m.data), ChunkLength)

Belongs(ch, p, k) == PairOf(ch) = p /\ ch.num = k

\* Behind a other chunks, w has chunks j + 1 to e of message k of p, and no more of it.
Follows(w, p, m, k, a, j, e) ==
  /\ a + (e - j) <= Len(w)
  /\ \A q \in DOMAIN w : Belongs(w[q], p, k) <=> q \in a + 1 .. a + (e - j)
  /\ \A i \in 1 .. e - j : w[a + i] = BuildChunk(p, m, ChunkLength, j + i - 1, k)

\* The reassembly that holds the first j chunks.
Collected(p, m, k, j) ==
  [in_use |-> TRUE, sig |-> p[2] + p[1] * 4096, id |-> m.id, from |-> p[1], to |-> p[2],
   length |-> Len(m.data), crc |-> Checksum(m.data),
   payload |-> SubSeq(m.data, 1, DataEnd(m, j)), num |-> k]

Coming(w, p, m, k) == \E a \in 0 .. Len(w) : Follows(w, p, m, k, a, 0, Count(m))
Arriving(w, t, p, m, k) ==
  \E j \in 1 .. Count(m) - 1 :
    /\ Follows(w, p, m, k, 0, j, Count(m))
    /\ \E c \in Channels : t[c] = Collected(p, m, k, j)
HandedOver(w, g, p, m, k) ==
  /\ \A q \in DOMAIN w : ~ Belongs(w[q], p, k)
  /\ \E i \in DOMAIN g : g[i] = [id |-> m.id, data |-> m.data, num |-> k]

MessagesFollow ==
  /\ sent \in [Pairs -> Seq(Contents)]
  /\ \A p \in Pairs : \A q \in DOMAIN wire[p] :
       PairOf(wire[p][q]) \notin Pairs \ {p} /\ wire[p][q].num <= Len(sent[p])
  /\ \A p \in Pairs : \A k \in DOMAIN sent[p] :
       Acceptable(p, sent[p][k]) /\ <<p, k>> \notin harmed =>
         \/ Coming(wire[p], p, sent[p][k], k)
         \/ Arriving(wire[p], rx, p, sent[p][k], k)
         \/ HandedOver(wire[p], got[p], p, sent[p][k], k)

\* The protocol as its users see it.
Passed == [p \in Pairs |-> IF got[p] = <<>> THEN 0 ELSE got[p][Len(got[p])].num]
Delivered ==
  [p \in Pairs |-> [j \in DOMAIN got[p] |-> [id |-> got[p][j].id, data |-> got[p][j].data]]]

LossyService == INSTANCE MessageStream WITH
  Streams <- Pairs, Messages <- Contents, Lossy <- TRUE,
  sent <- sent, passed <- Passed, got <- Delivered

(***************************************************************************)
(* Over a wire that loses chunks, but repeats none, every message that is  *)
(* handed over is one of those sent by this pair, in order and only once:  *)
(* length and CRC keep chunks of two messages from making up a third.      *)
(***************************************************************************)
LossyStream == LossyService!Spec

(***************************************************************************)
(* What makes it so.  The first chunks on the wire carry the numbers of    *)
(* messages that come after all that is held or handed over, and whatever  *)
(* was collected behind a first chunk, only what its header announces is   *)
(* handed over.                                                            *)
(***************************************************************************)
Bytes == UNION {{m.data[i] : i \in DOMAIN m.data} : m \in Contents}

Firsts(w) == {i \in DOMAIN w : CanIdIsFirst(w[i].id)}

\* The header fields of x are those of message k of msgs.
Announces(x, k, msgs) ==
  /\ k \in DOMAIN msgs
  /\ x.id = msgs[k].id
  /\ x.length = Len(msgs[k].data)
  /\ x.crc = Checksum(msgs[k].data)

HandedAsAnnounced ==
  \A p \in Pairs : \A i \in DOMAIN got[p] :
    /\ Announces([id |-> got[p][i].id, length |-> Len(got[p][i].data),
                  crc |-> Checksum(got[p][i].data)], got[p][i].num, sent[p])
    /\ \A j \in DOMAIN got[p] : i < j => got[p][i].num < got[p][j].num

MessagesRise ==
  /\ sent \in [Pairs -> Seq(Contents)]
  /\ \A p \in Pairs :
       /\ \A i \in DOMAIN wire[p] : wire[p][i].body \in Seq(Bytes)
       /\ \A i \in Firsts(wire[p]) :
            /\ PairOf(wire[p][i]) = p
            /\ Announces(wire[p][i].head, wire[p][i].num, sent[p])
            /\ wire[p][i].num > Passed[p]
            /\ \A j \in Firsts(wire[p]) : i < j => wire[p][i].num < wire[p][j].num
  /\ \A c \in Channels : rx[c].in_use =>
       LET p == <<rx[c].from, rx[c].to>>
       IN  /\ p \in Pairs /\ rx[c].payload \in Seq(Bytes)
           /\ Announces(rx[c], rx[c].num, sent[p])
           /\ \A i \in Firsts(wire[p]) : rx[c].num < wire[p][i].num
           /\ c # view => rx[c].num > Passed[p]
  /\ HandedAsAnnounced

\* Losses only: what the wire carries was sent, in this order.
NoRepeats == Mishaps \cap {"duplicate", "noise"} = {}

\* The checksum tells every message from all other data of its length.
Telling ==
  \A m \in Contents : \A d \in [1 .. Len(m.data) -> Bytes] :
    Checksum(d) = Checksum(m.data) => d = m.data
=============================================================================
