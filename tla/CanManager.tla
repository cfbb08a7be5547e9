----------------------------- MODULE CanManager -----------------------------
(***************************************************************************)
(* APP::CanManager, the object between the windows of the tool and a CAN   *)
(* channel.  Three threads meet in it: the user interface, which connects, *)
(* disconnects and sends; the worker, which receives and transmits; and    *)
(* the receive thread of the channel, which wakes the worker up.           *)
(*                                                                         *)
(* m_thread_abort is a plain bool that two threads write; the model reads  *)
(* and writes it in one step, as the build for this hardware does.  A      *)
(* thread that waits for the condition variable may wake up spuriously.    *)
(***************************************************************************)
EXTENDS Naturals, Sequences, Order

CONSTANTS
  MaxConnects,   \* how often the user connects at most
  MaxFrames,     \* how many frames arrive at most
  MaxSends,      \* how many messages the user sends at most
  Kinds,         \* what the user sends: raw, plexed, or plexed but not valid
  Mishaps,       \* kinds of mishap that may happen
  MaxMishaps     \* how many mishaps happen at most

ASSUME CanManagerAssumption ==
  /\ MaxConnects \in Nat /\ MaxFrames \in Nat /\ MaxSends \in Nat /\ MaxMishaps \in Nat
  /\ Kinds \subseteq {"raw", "plexed", "invalid"}
  /\ Mishaps \subseteq {"device", "open", "plexer"}

Backends == {"RawCan", "ProtoPlexer"}

VARIABLES
  ui,         \* where the user interface is in Connect or Disconnect
  then,       \* what follows the Disconnect that runs: nothing, connecting, an error
  state,      \* m_state
  abort,      \* m_thread_abort
  chan,       \* m_can_channel is set; a channel that is set is open
  backend,    \* m_backend_active
  plexer,     \* m_pp_inited
  subscribed, \* a window has subscribed to received packets
  worker,     \* where the worker is; none: not joinable
  again,      \* the variable of threadFunctionOperating
  frame,      \* the received frame in the hands of the worker
  receiver,   \* the receive thread of the channel: idle, or about to call the handler
  rxq,        \* the receive queue of the channel
  txq,        \* m_tx_queue
  epoch,      \* history: how often a connection was made
  arrived,    \* history: the frames that came in
  published,  \* history: the frames that subscribers got
  queued,     \* history: the messages given to SendMessage and SendProtoPlexer
  sent,       \* history: the messages given to the channel
  mishaps     \* how many mishaps have happened

uiVars == <<ui, then, state, epoch>>
connection == <<chan, backend, plexer>>
workerVars == <<worker, again, frame>>
rxVars == <<receiver, rxq, arrived, published>>
txVars == <<txq, queued, sent>>
vars == <<uiVars, abort, connection, subscribed, workerVars, rxVars, txVars, mishaps>>

Item == [num : Nat, kind : Kinds, epoch : Nat]

Init ==
  /\ ui = "idle" /\ then = "nothing" /\ state = "STANDBY" /\ epoch = 0
  /\ abort = FALSE
  /\ chan = FALSE /\ backend = "RawCan" /\ plexer = FALSE
  /\ subscribed = FALSE
  /\ worker = "none" /\ again = FALSE /\ frame = 0
  /\ receiver = "idle" /\ rxq = <<>> /\ arrived = <<>> /\ published = <<>>
  /\ txq = <<>> /\ queued = <<>> /\ sent = <<>>
  /\ mishaps = 0

Mishap(kind) ==
  /\ kind \in Mishaps
  /\ mishaps < MaxMishaps
  /\ mishaps' = mishaps + 1

\* ThreadNotify: a worker that waits starts over, everybody else hears nothing.
Notify ==
  IF worker = "waiting"
  THEN worker' = "looping" /\ again' = TRUE
  ELSE UNCHANGED <<worker, again>>

-----------------------------------------------------------------------------
(* The user interface: Connect and Disconnect.                             *)

Disconnecting(next) == ui' = "notifying" /\ then' = next

DisconnectBegin ==
  /\ ui = "idle"
  /\ abort' = TRUE
  /\ Disconnecting("nothing")
  /\ UNCHANGED <<state, epoch, connection, subscribed, workerVars, rxVars, txVars, mishaps>>

ConnectBegin ==
  /\ ui = "idle"
  /\ epoch < MaxConnects
  /\ abort' = TRUE
  /\ Disconnecting("connect")
  /\ UNCHANGED <<state, epoch, connection, subscribed, workerVars, rxVars, txVars, mishaps>>

\* Faulty: the worker is woken up before it is told to stop.
DisconnectNotifyFirst ==
  /\ ui = "notifying"
  /\ \/ /\ abort
        /\ Notify
        /\ abort' = FALSE
        /\ UNCHANGED ui
     \/ /\ ~ abort
        /\ abort' = TRUE
        /\ ui' = "joining"
        /\ UNCHANGED <<worker, again>>
  /\ UNCHANGED <<then, state, epoch, connection, subscribed, frame, rxVars, txVars, mishaps>>
DisconnectNotify ==
  /\ ui = "notifying"
  /\ Notify
  /\ ui' = "joining"
  /\ UNCHANGED <<then, state, epoch, abort, connection, subscribed, frame, rxVars, txVars, mishaps>>

\* Faulty: the worker is not waited for.
DisconnectNoJoin ==
  /\ ui = "joining"
  /\ ui' = "closing"
  /\ UNCHANGED <<then, state, epoch, abort, connection, subscribed, workerVars, rxVars, txVars, mishaps>>
DisconnectJoin ==
  /\ ui = "joining"
  /\ worker \in {"none", "ended"}
  /\ worker' = "none"
  /\ ui' = "closing"
  /\ UNCHANGED <<then, state, epoch, abort, connection, subscribed, again, frame, rxVars, txVars, mishaps>>

\* The channel joins its own thread and drops what it has received.
DisconnectClose ==
  /\ ui = "closing"
  /\ receiver = "idle"
  /\ chan' = FALSE
  /\ plexer' = FALSE
  /\ rxq' = <<>>
  /\ ui' = "clearing"
  /\ UNCHANGED <<then, state, epoch, abort, backend, subscribed, workerVars, receiver, arrived,
                 published, txVars, mishaps>>

\* Faulty: messages that wait are kept for the next connection.
DisconnectKeepQueue ==
  /\ ui = "clearing"
  /\ backend' = "RawCan"
  /\ state' = IF then = "error" THEN "CAN_ERROR" ELSE "STANDBY"
  /\ ui' = IF then = "connect" THEN "connecting" ELSE "idle"
  /\ UNCHANGED <<then, epoch, abort, chan, plexer, subscribed, workerVars, rxVars, txVars, mishaps>>
\* ... and whoever called Disconnect goes on.
DisconnectEnd ==
  /\ ui = "clearing"
  /\ txq' = <<>>
  /\ backend' = "RawCan"
  /\ state' = IF then = "error" THEN "CAN_ERROR" ELSE "STANDBY"
  /\ ui' = IF then = "connect" THEN "connecting" ELSE "idle"
  /\ UNCHANGED <<then, epoch, abort, chan, plexer, subscribed, workerVars, rxVars, queued, sent, mishaps>>

\* The device is gone from the list.
ConnectNoDevice ==
  /\ ui = "connecting"
  /\ Mishap("device")
  /\ state' = "CAN_ERROR"
  /\ ui' = "idle"
  /\ UNCHANGED <<then, epoch, abort, connection, subscribed, workerVars, rxVars, txVars>>

\* The channel cannot be created, initialised or opened.
ConnectNotOpened ==
  /\ ui = "connecting"
  /\ Mishap("open")
  /\ state' = "CONNECTING"
  /\ abort' = TRUE
  /\ Disconnecting("error")
  /\ UNCHANGED <<epoch, connection, subscribed, workerVars, rxVars, txVars>>

\* The channel is open and its receive thread runs.
ConnectOpened ==
  /\ ui = "connecting"
  /\ state' = "CONNECTING"
  /\ chan' = TRUE
  /\ epoch' = epoch + 1
  /\ ui' = "choosing"
  /\ UNCHANGED <<then, abort, backend, plexer, subscribed, workerVars, rxVars, txVars, mishaps>>

\* Faulty: the channel stays open when the plexer fails.
ConnectPlexerFailsOpen ==
  /\ ui = "choosing"
  /\ Mishap("plexer")
  /\ state' = "CAN_ERROR"
  /\ ui' = "idle"
  /\ backend' = "ProtoPlexer"
  /\ UNCHANGED <<then, epoch, abort, chan, plexer, subscribed, workerVars, rxVars, txVars>>
ConnectPlexerFails ==
  /\ ui = "choosing"
  /\ Mishap("plexer")
  /\ backend' = "ProtoPlexer"
  /\ abort' = TRUE
  /\ Disconnecting("error")
  /\ UNCHANGED <<state, epoch, chan, plexer, subscribed, workerVars, rxVars, txVars>>

ConnectBackend ==
  /\ ui = "choosing"
  /\ \E b \in Backends : backend' = b /\ plexer' = (b = "ProtoPlexer")
  /\ state' = "OPERATING"
  /\ ui' = "spawning"
  /\ UNCHANGED <<then, epoch, abort, chan, subscribed, workerVars, rxVars, txVars, mishaps>>

ConnectSpawn ==
  /\ ui = "spawning"
  /\ worker' = "starting"
  /\ ui' = "idle"
  /\ UNCHANGED <<then, state, epoch, abort, connection, subscribed, again, frame, rxVars, txVars, mishaps>>

ConnectDisconnect ==
  \/ DisconnectBegin \/ DisconnectNotify \/ DisconnectJoin \/ DisconnectClose \/ DisconnectEnd
  \/ ConnectBegin \/ ConnectNoDevice \/ ConnectNotOpened \/ ConnectOpened
  \/ ConnectPlexerFails \/ ConnectBackend \/ ConnectSpawn

-----------------------------------------------------------------------------
(* The user interface: sending and subscribing.                            *)

TxLocked == worker = "draining"
SubscribersLocked == worker \in {"publishing", "decoded"}

\* SendMessage and SendProtoPlexer push and notify under m_tx_queue_mtx.
Send ==
  /\ ui = "idle"
  /\ Len(queued) < MaxSends
  /\ ~ TxLocked
  /\ \E kind \in Kinds :
       LET item == [num |-> Len(queued) + 1, kind |-> kind, epoch |-> epoch]
       IN  txq' = Append(txq, item) /\ queued' = Append(queued, item)
  /\ Notify
  /\ UNCHANGED <<uiVars, abort, connection, subscribed, frame, rxVars, sent, mishaps>>

Subscribe ==
  /\ ui = "idle"
  /\ ~ subscribed /\ ~ SubscribersLocked
  /\ subscribed' = TRUE
  /\ UNCHANGED <<uiVars, abort, connection, workerVars, rxVars, txVars, mishaps>>

\* Faulty: a handler may be running.
UnsubscribeAtOnce ==
  /\ ui = "idle"
  /\ subscribed
  /\ subscribed' = FALSE
  /\ UNCHANGED <<uiVars, abort, connection, workerVars, rxVars, txVars, mishaps>>
\* ReceiveUnsubscribe waits until no handler runs.
Unsubscribe ==
  /\ ui = "idle"
  /\ subscribed /\ ~ SubscribersLocked
  /\ subscribed' = FALSE
  /\ UNCHANGED <<uiVars, abort, connection, workerVars, rxVars, txVars, mishaps>>

-----------------------------------------------------------------------------
(* The worker.                                                             *)

To(place) == worker' = place /\ UNCHANGED <<again, frame>>
shared == <<uiVars, connection, subscribed, mishaps>>

WorkerBegin ==
  /\ worker = "starting"
  /\ abort' = FALSE
  /\ To("checking")
  /\ UNCHANGED <<shared, rxVars, txVars>>

\* The condition of the loop in threadFunction.
WorkerCheck ==
  /\ worker = "checking"
  /\ To(IF abort THEN "ended" ELSE "entering")
  /\ UNCHANGED <<shared, abort, rxVars, txVars>>

WorkerWait ==
  /\ worker = "entering"
  /\ To("waiting")
  /\ UNCHANGED <<shared, abort, rxVars, txVars>>

WorkerSpurious ==
  /\ worker = "waiting"
  /\ worker' = "looping" /\ again' = TRUE
  /\ UNCHANGED <<frame, shared, abort, rxVars, txVars>>

\* The condition of the loop in threadFunctionOperating.
WorkerLoop ==
  /\ worker = "looping"
  /\ IF again /\ ~ abort
     THEN worker' = "receiving" /\ again' = FALSE
     ELSE worker' = "checking" /\ UNCHANGED again
  /\ UNCHANGED <<frame, shared, abort, rxVars, txVars>>

WorkerReceiveNone ==
  /\ worker = "receiving"
  /\ rxq = <<>>
  /\ To("transmitting")
  /\ UNCHANGED <<shared, abort, rxVars, txVars>>

WorkerReceive ==
  /\ worker = "receiving"
  /\ rxq # <<>>
  /\ frame' = Head(rxq) /\ rxq' = Tail(rxq)
  /\ worker' = IF subscribed THEN "publishing" ELSE "received"
  /\ UNCHANGED <<again, shared, abort, receiver, arrived, published, txVars>>

\* The handler of the subscriber runs under m_receive_subs_mutex.
WorkerPublish ==
  /\ worker = "publishing"
  /\ published' = Append(published, frame)
  /\ To("received")
  /\ UNCHANGED <<shared, abort, receiver, rxq, arrived, txVars>>

\* Faulty: one frame for each notification.
WorkerReceivedOnce ==
  /\ worker = "received"
  /\ worker' \in {"transmitting"}
       \union (IF backend = "ProtoPlexer" /\ subscribed THEN {"decoded"} ELSE {})
  /\ UNCHANGED <<again, frame, shared, abort, rxVars, txVars>>
\* With the plexer the frame may complete a message, which is published as well.
WorkerReceived ==
  /\ worker = "received"
  /\ again' = TRUE
  /\ worker' \in {"transmitting"}
       \union (IF backend = "ProtoPlexer" /\ subscribed THEN {"decoded"} ELSE {})
  /\ UNCHANGED <<frame, shared, abort, rxVars, txVars>>

WorkerDecoded ==
  /\ worker = "decoded"
  /\ To("transmitting")
  /\ UNCHANGED <<shared, abort, rxVars, txVars>>

\* The worker takes m_tx_queue_mtx and keeps it until the queue is empty.
WorkerLock ==
  /\ worker = "transmitting"
  /\ To("draining")
  /\ UNCHANGED <<shared, abort, rxVars, txVars>>

Sendable(item) == item.kind = "raw" \/ (item.kind = "plexed" /\ backend = "ProtoPlexer")

\* Faulty: the item stays in the queue.
WorkerTransmitPeek ==
  /\ worker = "draining"
  /\ txq # <<>>
  /\ Sendable(Head(txq))
  /\ sent' = Append(sent, [item |-> Head(txq), epoch |-> epoch])
  /\ again' = TRUE /\ worker' = "looping"
  /\ UNCHANGED <<frame, shared, abort, rxVars, txq, queued>>
WorkerTransmit ==
  /\ worker = "draining"
  /\ txq # <<>>
  /\ Sendable(Head(txq))
  /\ txq' = Tail(txq)
  /\ sent' = Append(sent, [item |-> Head(txq), epoch |-> epoch])
  /\ again' = TRUE
  /\ UNCHANGED <<worker, frame, shared, abort, rxVars, queued>>

WorkerSkip ==
  /\ worker = "draining"
  /\ txq # <<>>
  /\ ~ Sendable(Head(txq))
  /\ txq' = Tail(txq)
  /\ UNCHANGED <<workerVars, shared, abort, rxVars, queued, sent>>

WorkerUnlock ==
  /\ worker = "draining"
  /\ txq = <<>>
  /\ To("looping")
  /\ UNCHANGED <<shared, abort, rxVars, txVars>>

Work ==
  \/ WorkerBegin \/ WorkerCheck \/ WorkerWait \/ WorkerLoop
  \/ WorkerReceiveNone \/ WorkerReceive \/ WorkerPublish \/ WorkerReceived \/ WorkerDecoded
  \/ WorkerLock \/ WorkerTransmit \/ WorkerSkip \/ WorkerUnlock

-----------------------------------------------------------------------------
(* The receive thread of the channel.                                      *)

Arrive ==
  /\ chan
  /\ receiver = "idle"
  /\ Len(arrived) < MaxFrames
  /\ arrived' = Append(arrived, Len(arrived) + 1)
  /\ rxq' = Append(rxq, Len(arrived) + 1)
  /\ receiver' = "announcing"
  /\ UNCHANGED <<uiVars, abort, connection, subscribed, workerVars, published, txVars, mishaps>>

\* receive_handler
Announce ==
  /\ receiver = "announcing"
  /\ receiver' = "idle"
  /\ Notify
  /\ UNCHANGED <<uiVars, abort, connection, subscribed, frame, rxq, arrived, published, txVars, mishaps>>

Next ==
  \/ ConnectDisconnect \/ Send \/ Subscribe \/ Unsubscribe
  \/ Work \/ WorkerSpurious
  \/ Arrive \/ Announce

Spec == Init /\ [][Next]_vars

(***************************************************************************)
(* Fairness: the threads run.  A Connect or Disconnect that was begun goes *)
(* on; nobody has to click, no frame has to arrive and no thread has to    *)
(* wake up by itself.                                                      *)
(***************************************************************************)
FairSpec ==
  /\ Spec
  /\ WF_vars(ui # "idle" /\ ConnectDisconnect)
  /\ WF_vars(Work)
  /\ WF_vars(Announce)

-----------------------------------------------------------------------------
(* Properties.                                                             *)

TypeOK ==
  /\ ui \in {"idle", "notifying", "joining", "closing", "clearing", "connecting",
             "choosing", "spawning"}
  /\ then \in {"nothing", "connect", "error"}
  /\ state \in {"STANDBY", "CONNECTING", "OPERATING", "CAN_ERROR"}
  /\ abort \in BOOLEAN /\ chan \in BOOLEAN /\ plexer \in BOOLEAN
  /\ subscribed \in BOOLEAN /\ again \in BOOLEAN
  /\ backend \in Backends
  /\ worker \in {"none", "starting", "checking", "entering", "waiting", "looping", "receiving",
                 "publishing", "received", "decoded", "transmitting", "draining", "ended"}
  /\ receiver \in {"idle", "announcing"}
  /\ frame \in Nat /\ epoch \in Nat
  /\ rxq \in Seq(Nat) /\ arrived \in Seq(Nat) /\ published \in Seq(Nat)
  /\ txq \in Seq(Item) /\ queued \in Seq(Item)
  /\ sent \in Seq([item : Item, epoch : Nat])
  /\ mishaps \in 0 .. MaxMishaps

(***************************************************************************)
(* The worker uses the channel only while it is open, and the plexer only  *)
(* while it is initialised: Disconnect tears both down after the join.     *)
(***************************************************************************)
WorkerHasConnection ==
  worker \notin {"none", "ended"} => chan /\ (backend = "ProtoPlexer" => plexer)

(***************************************************************************)
(* What the window shows is so: OPERATING means an open channel and a      *)
(* worker that has not ended, STANDBY and CAN_ERROR mean that neither is   *)
(* left, nor a frame, a plexer or a call of the receive handler, whichever *)
(* way Connect failed.                                                     *)
(***************************************************************************)
StateTellsTheTruth ==
  ui = "idle" =>
    \/ state = "OPERATING" /\ chan /\ worker \notin {"none", "ended"}
    \/ /\ state \in {"STANDBY", "CAN_ERROR"}
       /\ ~ chan /\ ~ plexer /\ worker = "none" /\ receiver = "idle" /\ rxq = <<>>

(***************************************************************************)
(* A message leaves in the connection it was queued in: what was sent      *)
(* while there was no connection, or what a connection left behind, never  *)
(* appears on the bus of the next one.                                     *)
(***************************************************************************)
SentInItsConnection == \A k \in DOMAIN sent : sent[k].item.epoch = sent[k].epoch

(***************************************************************************)
(* No handler runs after ReceiveUnsubscribe has returned: the window that  *)
(* it belongs to may be gone.                                              *)
(***************************************************************************)
HandlerHasWindow == worker \in {"publishing", "decoded"} => subscribed

(***************************************************************************)
(* The invariant behind these: what Connect and Disconnect have torn down  *)
(* or built up at each of their steps.                                     *)
(***************************************************************************)
NoWorkerWhileConnecting ==
  ui \in {"closing", "clearing", "connecting", "choosing", "spawning"} => worker = "none"
Disconnected ==
  /\ ui \in {"clearing", "connecting"} => ~ chan /\ ~ plexer
  /\ ui \in {"connecting", "choosing", "spawning"} => txq = <<>>
  /\ ~ chan => receiver = "idle" /\ rxq = <<>>
Connected ==
  /\ ui \in {"choosing", "spawning"} => chan
  /\ ui = "spawning" => state = "OPERATING" /\ (backend = "ProtoPlexer" => plexer)
NoOrderToStop ==
  ui = "idle" /\ worker \notin {"none", "starting"} => ~ abort /\ worker # "ended"
QueuedInThisConnection == \A k \in DOMAIN txq : txq[k].epoch = epoch

ManagerInvariant ==
  /\ TypeOK
  /\ WorkerHasConnection /\ StateTellsTheTruth /\ SentInItsConnection /\ HandlerHasWindow
  /\ NoWorkerWhileConnecting /\ Disconnected /\ Connected /\ NoOrderToStop
  /\ QueuedInThisConnection

\* Both directions as message streams.
Both == {"in", "out"}
Numbers(s) == [k \in DOMAIN s |-> s[k].num]
SentNumbers == [k \in DOMAIN sent |-> sent[k].item.num]
Stream == INSTANCE MessageStream WITH
  Streams <- Both, Messages <- 1 .. MaxFrames + MaxSends, Lossy <- TRUE,
  sent <- [p \in Both |-> IF p = "in" THEN arrived ELSE Numbers(queued)],
  passed <- [p \in Both |-> LastOr0(IF p = "in" THEN published ELSE SentNumbers)],
  got <- [p \in Both |-> IF p = "in" THEN published ELSE SentNumbers]

(***************************************************************************)
(* Frames reach the subscriber and messages reach the channel in order and *)
(* at most once, over any number of connections.                           *)
(***************************************************************************)
PassesInOrder == Stream!Spec

(***************************************************************************)
(* Why it is so: on both ways what is further on is older, the frame that  *)
(* the worker is about to publish included.                                *)
(***************************************************************************)
Number == Nat \ {0}
InHand == IF worker = "publishing" THEN <<frame>> ELSE <<>>
FramesInOrder ==
  /\ Len(arrived) <= MaxFrames /\ \A k \in DOMAIN arrived : arrived[k] = k
  /\ rxq \in Seq(Number) /\ InHand \in Seq(Number) /\ published \in Seq(Number)
  /\ UpTo(rxq, Len(arrived), Number) /\ UpTo(InHand, Len(arrived), Number)
  /\ UpTo(published, Len(arrived), Number)
  /\ Rising(rxq, Number)
  /\ Before(published, InHand, Number) /\ Before(published, rxq, Number)
  /\ Before(InHand, rxq, Number)
MessagesInOrder ==
  /\ Len(queued) <= MaxSends /\ \A k \in DOMAIN queued : queued[k].num = k
  /\ Numbers(txq) \in Seq(Number) /\ SentNumbers \in Seq(Number)
  /\ UpTo(Numbers(txq), Len(queued), Number) /\ UpTo(SentNumbers, Len(queued), Number)
  /\ Rising(Numbers(txq), Number)
  /\ Before(SentNumbers, Numbers(txq), Number)

(***************************************************************************)
(* A worker that has been woken up receives and transmits everything there *)
(* is before it waits again, unless it is told to stop.                    *)
(***************************************************************************)
AwakeWorkerReceives ==
  (worker = "looping" /\ again /\ rxq # <<>>) ~> (rxq = <<>> \/ abort)
AwakeWorkerTransmits ==
  (worker = "looping" /\ again /\ txq # <<>>) ~> (txq = <<>> \/ abort)
AwakeWorkerServes == AwakeWorkerReceives /\ AwakeWorkerTransmits

(***************************************************************************)
(* Disconnect, and Connect, return if they find the worker waiting and if  *)
(* the worker does not take the order to stop for an old one.              *)
(***************************************************************************)
WaitingWorkerStops ==
  (ui = "notifying" /\ abort /\ worker = "waiting") ~> (ui = "idle")

(***************************************************************************)
(* "Always publish raw CAN chunks (even in ProtoPlexer mode), so UI can    *)
(* show both": a frame that the channel has received does not stay in its  *)
(* queue while the connection lasts.                                       *)
(***************************************************************************)
AlwaysPublishes ==
  (rxq # <<>> /\ ui = "idle") ~> (rxq = <<>> \/ ui # "idle")
=============================================================================
