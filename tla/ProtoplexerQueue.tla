-------------------------- MODULE ProtoplexerQueue --------------------------
(***************************************************************************)
(* The queued plexer (uni_can_protoplexer_queue_t): the ProtoPlexer        *)
(* protocol with a ring of chunks that wait to be sent, the outbox, and a  *)
(* ring of complete messages that wait for the application, the inbox.     *)
(*                                                                         *)
(* The halves of a queue share no state, so the model has the sending half *)
(* of every node that sends and the receiving half of one node, around the *)
(* context of module Protoplexer.  The callback rx_event runs between two  *)
(* steps: it may call every function of the queue but poll_new.            *)
(***************************************************************************)
EXTENDS Protoplexer, Ring, Order

CONSTANTS
  OutboxSize,    \* outbox_size of every sender
  InboxSize,     \* inbox_size of the receiver
  SendAttempts   \* send_attempts of every sender

VARIABLES
  outbox,    \* outbox[n]: the ring of chunks of sender n
  attempts,  \* attempts[n]: times in a row that the network refused a chunk
  inbox,     \* the ring of messages of the receiver
  busy,      \* TRUE while rx_event runs
  queued,    \* history: queued[n] are the chunks of all messages n accepted
  left,      \* history: left[n] are the chunks that left the outbox of n
  kept,      \* history: the messages that came into the inbox
  handed,    \* history: the messages that rx_event got
  dropped    \* history: the messages that came when the inbox was full

protocolVars == <<wire, rx, view, sent, got, harmed, mishaps>>
senderVars == <<outbox, attempts, queued, left>>
inboxVars == <<inbox, busy, kept, handed, dropped>>
queueVars == <<protocolVars, senderVars, inboxVars>>

ASSUME QueueAssumption ==
  /\ OutboxSize \in Nat \ {0}
  /\ InboxSize \in Nat \ {0}
  /\ SendAttempts \in Nat
  /\ Static /\ Apis = {"add_chunk_view"}

Senders == {p[1] : p \in Pairs}

InboxMessage == [id : Nat, from : Nat, to : Nat, data : Seq(Nat), num : Nat]

\* What the memory of the application holds before it is used.
NoChunk == [id |-> 0, headed |-> FALSE, head |-> NoHeader, body |-> <<>>, num |-> 0]
NoMessage == [id |-> ERROR_ID, from |-> 0, to |-> 0, data |-> <<>>, num |-> 0]

QueueInit ==
  /\ Init
  /\ outbox = [n \in Senders |-> EmptyRing(OutboxSize, NoChunk)]
  /\ attempts = [n \in Senders |-> 0]
  /\ inbox = EmptyRing(InboxSize, NoMessage)
  /\ busy = FALSE
  /\ queued = [n \in Senders |-> <<>>]
  /\ left = [n \in Senders |-> <<>>]
  /\ kept = <<>>
  /\ handed = <<>>
  /\ dropped = {}

-----------------------------------------------------------------------------
(* The sending half.                                                       *)

HasRoom(n, chunks) == outbox[n].count + Len(chunks) <= OutboxSize

(***************************************************************************)
(* uni_can_protoplexer_queue_send.  What it refuses (too much data, no     *)
(* room for all chunks) changes nothing.                                   *)
(***************************************************************************)
QueueSend(p) ==
  /\ Len(sent[p]) < MaxSends
  /\ \E m \in Contents :
       LET chunks == BuildChunks(p, m, ChunkLength, Len(sent[p]) + 1)
           n == p[1]
       IN  /\ Len(m.data) <= MaxPayload
           /\ HasRoom(n, chunks)
           /\ outbox' = [outbox EXCEPT ![n] = RingPut(@, OutboxSize, chunks)]
           /\ queued' = [queued EXCEPT ![n] = @ \o chunks]
           /\ sent' = [sent EXCEPT ![p] = Append(@, m)]
  /\ UNCHANGED <<wire, rx, view, got, harmed, mishaps, attempts, left, inboxVars>>

OldestChunk(n) == outbox[n].slots[outbox[n].head]

OutboxPop(n) ==
  /\ outbox' = [outbox EXCEPT ![n] = RingPop(@, OutboxSize)]
  /\ attempts' = [attempts EXCEPT ![n] = 0]
  /\ left' = [left EXCEPT ![n] = Append(@, OldestChunk(n))]

\* Faulty: a chunk that was refused too often is not offered any more.
PollTxSentFresh(n) ==
  /\ outbox[n].count > 0
  /\ attempts[n] < SendAttempts
  /\ OutboxPop(n)
  /\ wire' = [wire EXCEPT ![PairOf(OldestChunk(n))] = Append(@, OldestChunk(n))]
  /\ UNCHANGED <<rx, view, sent, got, harmed, mishaps, queued, inboxVars>>
\* uni_can_protoplexer_queue_poll_tx, by the answer of the network.
PollTxSent(n) ==
  /\ outbox[n].count > 0
  /\ OutboxPop(n)
  /\ wire' = [wire EXCEPT ![PairOf(OldestChunk(n))] = Append(@, OldestChunk(n))]
  /\ UNCHANGED <<rx, view, sent, got, harmed, mishaps, queued, inboxVars>>

PollTxDropped(n) ==
  /\ outbox[n].count > 0
  /\ Mishap("drop")
  /\ OutboxPop(n)
  /\ Harm(PairOf(OldestChunk(n)), OldestChunk(n).num)
  /\ UNCHANGED <<wire, rx, view, sent, got, queued, inboxVars>>

\* Faulty: after too many attempts the chunk is given up.
PollTxAgainDrops(n) ==
  /\ outbox[n].count > 0
  /\ attempts' = [attempts EXCEPT ![n] = IF @ + 1 > SendAttempts THEN 0 ELSE @ + 1]
  /\ outbox' = IF attempts[n] + 1 > SendAttempts
               THEN [outbox EXCEPT ![n] = RingPop(@, OutboxSize)] ELSE outbox
  /\ UNCHANGED <<protocolVars, queued, left, inboxVars>>
\* Reported as HW_SEND_TOO_MANY_ATTEMPTS when the count starts over; the chunk
\* stays in either case.
PollTxAgain(n) ==
  /\ outbox[n].count > 0
  /\ attempts' = [attempts EXCEPT ![n] = IF @ + 1 > SendAttempts THEN 0 ELSE @ + 1]
  /\ UNCHANGED <<protocolVars, outbox, queued, left, inboxVars>>

-----------------------------------------------------------------------------
(* The receiving half.                                                     *)

\* The message of the reassembly that became the view.
ViewedMessage ==
  [id |-> rx'[view'].id, from |-> rx'[view'].from, to |-> rx'[view'].to,
   data |-> rx'[view'].payload, num |-> rx'[view'].num]

\* Faulty: the oldest message gives way when the inbox is full.
InboxPushOver(m) ==
  /\ inbox' = [RingPut(inbox, InboxSize, <<m>>) EXCEPT
                 !.count = IF @ > InboxSize THEN InboxSize ELSE @]
  /\ kept' = Append(kept, m)
  /\ UNCHANGED dropped
InboxPush(m) ==
  \/ /\ inbox.count < InboxSize
     /\ inbox' = RingPut(inbox, InboxSize, <<m>>)
     /\ kept' = Append(kept, m)
     /\ UNCHANGED dropped
  \/ /\ inbox.count = InboxSize
     /\ dropped' = dropped \union {<< <<m.from, m.to>>, m.num>>}
     /\ UNCHANGED <<inbox, kept>>

(***************************************************************************)
(* uni_can_protoplexer_queue_add_chunk, called by the application or by    *)
(* poll_rx: a message that the chunk completes goes into the inbox.        *)
(***************************************************************************)
QueueAddChunk(p) ==
  /\ AddChunk(p)
  /\ IF ChunkLen(Head(wire[p])) <= MESSAGE_MAXLEN /\ view' # 0
     THEN InboxPush(ViewedMessage)
     ELSE UNCHANGED <<inbox, kept, dropped>>
  /\ UNCHANGED <<senderVars, busy, handed>>

\* uni_can_protoplexer_queue_poll_new until it calls rx_event ...
PollNewBegin ==
  /\ ~ busy
  /\ inbox.count > 0
  /\ busy' = TRUE
  /\ handed' = Append(handed, inbox.slots[inbox.head])
  /\ UNCHANGED <<protocolVars, senderVars, inbox, kept, dropped>>

\* ... and after rx_event has returned.
PollNewEnd ==
  /\ busy
  /\ busy' = FALSE
  /\ inbox' = RingPop(inbox, InboxSize)
  /\ UNCHANGED <<protocolVars, senderVars, kept, handed, dropped>>

\* The receiver initialises its queue again: what waits in it is lost.
QueueRestart ==
  /\ ~ busy
  /\ Restart
  /\ inbox' = EmptyRing(InboxSize, NoMessage)
  /\ kept' = handed
  /\ dropped' = dropped \union
       {<< <<m.from, m.to>>, m.num>> : m \in {RingContents(inbox, InboxSize)[k] : k \in 1 .. inbox.count}}
  /\ UNCHANGED <<senderVars, busy, handed>>

WireMishap(p) ==
  /\ Lose(p) \/ Duplicate(p) \/ Intrude(p)
  /\ UNCHANGED <<senderVars, inboxVars>>

QueueNext ==
  \/ \E p \in Pairs : QueueSend(p) \/ QueueAddChunk(p) \/ WireMishap(p)
  \/ \E n \in Senders : PollTxSent(n) \/ PollTxDropped(n) \/ PollTxAgain(n)
  \/ PollNewBegin \/ PollNewEnd \/ QueueRestart

QueueSpec == QueueInit /\ [][QueueNext]_queueVars

(***************************************************************************)
(* The main loops of the applications go on: while something waits to be   *)
(* sent, read or handed over, one of it is, as rx_event returns and the    *)
(* network does not ask for a chunk again for ever.                        *)
(***************************************************************************)
PassOn ==
  \/ \E p \in Pairs : QueueAddChunk(p)
  \/ \E n \in Senders : PollTxSent(n)
  \/ PollNewBegin \/ PollNewEnd

QueueFairSpec == QueueSpec /\ WF_queueVars(PassOn)

-----------------------------------------------------------------------------
(* Properties.                                                             *)

\* Every variable of the queues keeps its type.
QueueTypeOK ==
  /\ outbox \in [Senders -> Rings(OutboxSize, Chunk)]
  /\ attempts \in [Senders -> 0 .. SendAttempts]
  /\ inbox \in Rings(InboxSize, InboxMessage)
  /\ busy \in BOOLEAN
  /\ queued \in [Senders -> Seq(Chunk)]
  /\ left \in [Senders -> Seq(Chunk)]
  /\ kept \in Seq(InboxMessage)
  /\ handed \in Seq(InboxMessage)

(***************************************************************************)
(* The outbox is a queue of whole messages: all chunks of the messages     *)
(* that send accepted leave it once each, in order, however often the      *)
(* network refuses them and wherever the ring wraps around.                *)
(***************************************************************************)
OutboxKeepsOrder ==
  \A n \in Senders : queued[n] = left[n] \o RingContents(outbox[n], OutboxSize)

\* The messages whose rx_event has returned.
Finished == IF busy THEN SubSeq(handed, 1, Len(handed) - 1) ELSE handed

(***************************************************************************)
(* The inbox is a queue: rx_event gets every message that came into it     *)
(* once, in order, however its calls interleave with add_chunk.            *)
(***************************************************************************)
InboxKeepsOrder == kept = Finished \o RingContents(inbox, InboxSize)

(***************************************************************************)
(* "The message and its data are valid during the call": chunks that are   *)
(* added while rx_event runs never overwrite the message it was given.     *)
(***************************************************************************)
EventMessageStays ==
  busy => /\ handed # <<>>
          /\ inbox.count > 0
          /\ inbox.slots[inbox.head] = handed[Len(handed)]

\* The inductive invariant of the queues.
QueueInvariant ==
  /\ ReassemblyInvariant
  /\ QueueTypeOK
  /\ OutboxKeepsOrder
  /\ InboxKeepsOrder
  /\ EventMessageStays

\* The queued protocol as its users see it.
Owned(p, msgs) == {j \in DOMAIN msgs : <<msgs[j].from, msgs[j].to>> = p}
HandedTo(p) == Picked(handed, Owned(p, handed))
QueuePassed ==
  [p \in Pairs |-> IF HandedTo(p) = <<>> THEN 0 ELSE HandedTo(p)[Len(HandedTo(p))].num]
QueueDelivered ==
  [p \in Pairs |-> [j \in DOMAIN HandedTo(p) |->
                     [id |-> HandedTo(p)[j].id, data |-> HandedTo(p)[j].data]]]

LossyQueue == INSTANCE MessageStream WITH
  Streams <- Pairs, Messages <- Contents, Lossy <- TRUE,
  sent <- sent, passed <- QueuePassed, got <- QueueDelivered

(***************************************************************************)
(* From send to rx_event: dropped chunks, lost chunks, a full inbox and a  *)
(* restart cost messages, but what rx_event gets was sent, in order and    *)
(* only once.                                                              *)
(***************************************************************************)
LossyQueueStream == LossyQueue!Spec

(***************************************************************************)
(* What makes it so.  The first chunks in an outbox carry the numbers of   *)
(* messages that come after all of their pair on the wire, in the table    *)
(* and handed over; the messages in the inbox come after those given to    *)
(* rx_event.                                                               *)
(***************************************************************************)
Ahead(p, k) ==
  /\ Passed[p] < k
  /\ \A j \in Firsts(wire[p]) : wire[p][j].num < k
  /\ \A c \in Channels : rx[c].in_use /\ <<rx[c].from, rx[c].to>> = p => rx[c].num < k

OutboxRises ==
  \A n \in Senders :
    LET w == RingContents(outbox[n], OutboxSize)
    IN  \A i \in DOMAIN w :
          LET p == PairOf(w[i])
          IN  /\ p \in Pairs /\ p[1] = n /\ w[i].body \in Seq(Bytes)
              /\ i \in Firsts(w) =>
                   /\ Announces(w[i].head, w[i].num, sent[p])
                   /\ Ahead(p, w[i].num)
                   /\ \A j \in Firsts(w) : i < j /\ PairOf(w[j]) = p => w[i].num < w[j].num

KeptRises ==
  /\ \A j \in DOMAIN kept :
       LET p == <<kept[j].from, kept[j].to>>
       IN  /\ p \in Pairs /\ kept[j].data \in Seq(Bytes)
           /\ Announces([id |-> kept[j].id, length |-> Len(kept[j].data),
                         crc |-> Checksum(kept[j].data)], kept[j].num, sent[p])
           /\ kept[j].num <= Passed[p]
           /\ \A i \in Owned(p, kept) : j < i => kept[j].num < kept[i].num
           /\ j > Len(handed) => QueuePassed[p] < kept[j].num
  /\ \A p \in Pairs : QueuePassed[p] \in 0 .. Passed[p]

QueueRises == MessagesRise /\ OutboxRises /\ KeptRises

(***************************************************************************)
(* A message that no mishap touched and for which the inbox had room is    *)
(* handed over when nothing of it is on its way any more, whatever         *)
(* happened to the messages before it.                                     *)
(***************************************************************************)
UndroppedIsHanded ==
  \A p \in Pairs : \A k \in DOMAIN sent[p] :
    /\ Acceptable(p, sent[p][k])
    /\ <<p, k>> \notin harmed \union dropped
    /\ \A q \in DOMAIN wire[p] : wire[p][q].num # k
    /\ \A i \in DOMAIN RingContents(outbox[p[1]], OutboxSize) :
         LET ch == RingContents(outbox[p[1]], OutboxSize)[i] IN PairOf(ch) = p => ch.num # k
    /\ inbox.count = 0
    => \E j \in DOMAIN handed :
         /\ handed[j].from = p[1] /\ handed[j].to = p[2] /\ handed[j].num = k
         /\ handed[j].data = sent[p][k].data

(***************************************************************************)
(* What makes it so.  The chunks under way to the receiver are those on    *)
(* the wire, then those in the outbox: a message that nothing has harmed   *)
(* keeps its place in them until it is handed over, and what the protocol  *)
(* hands over comes into the inbox or finds it full.                       *)
(***************************************************************************)
Underway(p) == wire[p] \o RingContents(outbox[p[1]], OutboxSize)

Matches(x, p, e) == x.from = p[1] /\ x.to = p[2] /\ x.num = e.num /\ x.data = e.data

MessagesPass ==
  /\ sent \in [Pairs -> Seq(Contents)]
  /\ \A p \in Pairs : \A q \in DOMAIN wire[p] :
       PairOf(wire[p][q]) \notin Pairs \ {p} /\ wire[p][q].num <= Len(sent[p])
  /\ \A n \in Senders : \A i \in DOMAIN RingContents(outbox[n], OutboxSize) :
       LET ch == RingContents(outbox[n], OutboxSize)[i]
       IN  PairOf(ch) \in Pairs /\ PairOf(ch)[1] = n /\ ch.num <= Len(sent[PairOf(ch)])
  /\ \A p \in Pairs : \A k \in DOMAIN sent[p] :
       Acceptable(p, sent[p][k]) /\ <<p, k>> \notin harmed =>
         \/ Coming(Underway(p), p, sent[p][k], k)
         \/ Arriving(Underway(p), rx, p, sent[p][k], k)
         \/ HandedOver(Underway(p), got[p], p, sent[p][k], k)
  /\ \A p \in Pairs : \A i \in DOMAIN got[p] :
       <<p, got[p][i].num>> \in dropped \/ \E j \in DOMAIN kept : Matches(kept[j], p, got[p][i])

(***************************************************************************)
(* Once the applications have nothing more to send every chunk leaves the  *)
(* outbox and every message the inbox, however often the network asks for  *)
(* a chunk again.  With UndroppedIsHanded: without mishaps and with room   *)
(* in the inbox every accepted message reaches rx_event.                   *)
(***************************************************************************)
QueuesDrain ==
  <>[](/\ \A p \in Pairs : wire[p] = <<>>
       /\ \A n \in Senders : outbox[n].count = 0
       /\ inbox.count = 0)
=============================================================================
