-------------------------- MODULE CanManagerProofs --------------------------
(***************************************************************************)
(* The inductive invariant of CanManager: for any number of connections,   *)
(* frames, messages and mishaps the worker has a connection, the state     *)
(* tells the truth, no handler outlives its window and no message leaks    *)
(* from one connection into another.  And both ways through it are lossy   *)
(* message streams.                                                        *)
(***************************************************************************)
EXTENDS CanManager, DataProofs

\* Nothing is connected at first.
LEMMA ManagerInit == Init => ManagerInvariant
<1> SUFFICES ASSUME Init PROVE ManagerInvariant
  OBVIOUS
<1>1. <<>> \in Seq(Nat) /\ <<>> \in Seq(Item) /\ <<>> \in Seq([item : Item, epoch : Nat])
  BY SMT
<1>2. /\ abort \in BOOLEAN /\ chan \in BOOLEAN /\ plexer \in BOOLEAN
      /\ subscribed \in BOOLEAN /\ again \in BOOLEAN
  BY Zenon DEF Init
<1>3. TypeOK
  BY <1>1, <1>2, CanManagerAssumption, SMT DEF Init, TypeOK, Backends
<1>. QED
  BY <1>3, SMT DEF Init, ManagerInvariant, WorkerHasConnection, StateTellsTheTruth,
    SentInItsConnection, HandlerHasWindow, NoWorkerWhileConnecting, Disconnected, Connected,
    NoOrderToStop, QueuedInThisConnection

\* What is left of a queue whose messages belong to this connection belongs to it.
LEMMA TailKeepsEpoch ==
  ASSUME NEW q \in Seq(Item), q # <<>>, NEW e, \A k \in DOMAIN q : q[k].epoch = e
  PROVE  /\ Tail(q) \in Seq(Item) /\ Head(q) \in Item /\ Head(q).epoch = e
         /\ \A k \in DOMAIN Tail(q) : Tail(q)[k].epoch = e
<1>1. Len(q) \in Nat /\ Len(q) > 0 /\ DOMAIN q = 1 .. Len(q)
  BY SMT
<1>2. Tail(q) \in Seq(Item) /\ Len(Tail(q)) = Len(q) - 1
  BY <1>1, SMT
<1>3. DOMAIN Tail(q) = 1 .. Len(q) - 1
  BY <1>1, <1>2, SMT
<1>4. \A k \in DOMAIN Tail(q) : Tail(q)[k] = q[k + 1] /\ k + 1 \in DOMAIN q
  BY <1>1, <1>2, <1>3, SMT
<1>. QED
  BY <1>1, <1>2, <1>4, SMT

\* So does a longer queue.
LEMMA AppendKeepsEpoch ==
  ASSUME NEW q \in Seq(Item), NEW x \in Item, NEW e, x.epoch = e,
         \A k \in DOMAIN q : q[k].epoch = e
  PROVE  /\ Append(q, x) \in Seq(Item)
         /\ \A k \in DOMAIN Append(q, x) : Append(q, x)[k].epoch = e
  BY SMT

\* What has been sent stays what it is.
LEMMA AppendKeepsSent ==
  ASSUME NEW q \in Seq([item : Item, epoch : Nat]), NEW x \in [item : Item, epoch : Nat],
         x.item.epoch = x.epoch, \A k \in DOMAIN q : q[k].item.epoch = q[k].epoch
  PROVE  /\ Append(q, x) \in Seq([item : Item, epoch : Nat])
         /\ \A k \in DOMAIN Append(q, x) : Append(q, x)[k].item.epoch = Append(q, x)[k].epoch
  BY SMT

\* Connect and Disconnect tear down and build up in this order.
LEMMA ConnectDisconnectKeeps == ManagerInvariant /\ ConnectDisconnect => ManagerInvariant'
<1> SUFFICES ASSUME ManagerInvariant, ConnectDisconnect PROVE ManagerInvariant'
  OBVIOUS
<1> USE CanManagerAssumption DEF ManagerInvariant, TypeOK, Backends, WorkerHasConnection,
      StateTellsTheTruth, SentInItsConnection, HandlerHasWindow, NoWorkerWhileConnecting,
      Disconnected, Connected, NoOrderToStop, QueuedInThisConnection,
      uiVars, connection, workerVars, rxVars, txVars, shared
<1>1. CASE DisconnectBegin
  BY <1>1, SMT DEF DisconnectBegin, Disconnecting
<1>2. CASE ConnectBegin
  BY <1>2, SMT DEF ConnectBegin, Disconnecting
<1>3. CASE DisconnectNotify
  <2>1. again' \in BOOLEAN
    BY <1>3, Zenon DEF DisconnectNotify, Notify
  <2> QED
    BY <1>3, <2>1, SMT DEF DisconnectNotify, Notify
<1>4. CASE DisconnectJoin
  BY <1>4, SMT DEF DisconnectJoin
<1>5. CASE DisconnectClose
  <2>1. chan' \in BOOLEAN /\ plexer' \in BOOLEAN
    BY <1>5, Zenon DEF DisconnectClose
  <2> QED
    BY <1>5, <2>1, SMT DEF DisconnectClose
<1>6. CASE DisconnectEnd
  BY <1>6, SMT DEF DisconnectEnd
<1>7. CASE ConnectNoDevice
  BY <1>7, SMT DEF ConnectNoDevice, Mishap
<1>8. CASE ConnectNotOpened
  BY <1>8, SMT DEF ConnectNotOpened, Disconnecting, Mishap
<1>9. CASE ConnectOpened
  BY <1>9, SMT DEF ConnectOpened
<1>10. CASE ConnectPlexerFails
  BY <1>10, SMT DEF ConnectPlexerFails, Disconnecting, Mishap
<1>11. CASE ConnectBackend
  <2>1. /\ backend' \in Backends /\ plexer' \in BOOLEAN
        /\ backend' = "ProtoPlexer" => plexer'
    BY <1>11, Zenon DEF ConnectBackend
  <2> QED
    BY <1>11, <2>1, SMT DEF ConnectBackend
<1>12. CASE ConnectSpawn
  BY <1>12, SMT DEF ConnectSpawn
<1> QED
  BY <1>1, <1>2, <1>3, <1>4, <1>5, <1>6, <1>7, <1>8, <1>9, <1>10, <1>11, <1>12 DEF ConnectDisconnect

\* The worker leaves the connection alone.
LEMMA WorkKeeps == ManagerInvariant /\ Work => ManagerInvariant'
<1> SUFFICES ASSUME ManagerInvariant, Work PROVE ManagerInvariant'
  OBVIOUS
<1> USE CanManagerAssumption DEF ManagerInvariant, TypeOK, Backends, WorkerHasConnection,
      StateTellsTheTruth, SentInItsConnection, HandlerHasWindow, NoWorkerWhileConnecting,
      Disconnected, Connected, NoOrderToStop, QueuedInThisConnection,
      uiVars, connection, workerVars, rxVars, txVars, shared
<1>1. CASE WorkerBegin
  <2>1. abort' \in BOOLEAN
    BY <1>1, Zenon DEF WorkerBegin, To
  <2> QED
    BY <1>1, <2>1, SMT DEF WorkerBegin, To
<1>2. CASE WorkerCheck
  BY <1>2, SMT DEF WorkerCheck, To
<1>3. CASE WorkerWait
  BY <1>3, SMT DEF WorkerWait, To
<1>4. CASE WorkerLoop
  <2>1. again' \in BOOLEAN
    BY <1>4, Zenon DEF WorkerLoop
  <2> QED
    BY <1>4, <2>1, SMT DEF WorkerLoop
<1>5. CASE WorkerReceiveNone
  BY <1>5, SMT DEF WorkerReceiveNone, To
<1>6. CASE WorkerReceive
  BY <1>6, SMT DEF WorkerReceive
<1>7. CASE WorkerPublish
  BY <1>7, SMT DEF WorkerPublish, To
<1>8. CASE WorkerReceived
  BY <1>8, SMT DEF WorkerReceived
<1>9. CASE WorkerDecoded
  BY <1>9, SMT DEF WorkerDecoded, To
<1>10. CASE WorkerLock
  BY <1>10, SMT DEF WorkerLock, To
<1>11. CASE WorkerTransmit
  <2> DEFINE entry == [item |-> Head(txq), epoch |-> epoch]
  <2>1. txq \in Seq(Item) /\ txq # <<>> /\ txq' = Tail(txq) /\ epoch' = epoch
    BY <1>11, SMT DEF WorkerTransmit
  <2>2. txq' \in Seq(Item) /\ QueuedInThisConnection' /\ Head(txq) \in Item /\ Head(txq).epoch = epoch
    BY <2>1, TailKeepsEpoch, SMTT(30)
  <2>3. entry \in [item : Item, epoch : Nat] /\ entry.item.epoch = entry.epoch
    BY <2>2, SMT
  <2>4. sent' = Append(sent, entry)
    BY <1>11, SMT DEF WorkerTransmit
  <2> HIDE DEF entry
  <2>5. /\ sent \in Seq([item : Item, epoch : Nat])
        /\ \A k \in DOMAIN sent : sent[k].item.epoch = sent[k].epoch
    BY SMT
  <2>6. /\ Append(sent, entry) \in Seq([item : Item, epoch : Nat])
        /\ \A k \in DOMAIN Append(sent, entry) :
             Append(sent, entry)[k].item.epoch = Append(sent, entry)[k].epoch
    BY <2>3, <2>5, AppendKeepsSent
  <2>7. sent' \in Seq([item : Item, epoch : Nat]) /\ SentInItsConnection'
    BY <2>4, <2>6
  <2>8. again' \in BOOLEAN
    BY <1>11, Zenon DEF WorkerTransmit
  <2> QED
    BY <1>11, <2>2, <2>7, <2>8, SMT DEF WorkerTransmit
<1>12. CASE WorkerSkip
  <2>1. txq \in Seq(Item) /\ txq # <<>> /\ txq' = Tail(txq)
    BY <1>12, SMT DEF WorkerSkip
  <2>2. txq' \in Seq(Item) /\ QueuedInThisConnection'
    BY <2>1, TailKeepsEpoch, <1>12, SMT DEF WorkerSkip
  <2> QED
    BY <1>12, <2>2, SMT DEF WorkerSkip
<1>13. CASE WorkerUnlock
  BY <1>13, SMT DEF WorkerUnlock, To
<1> QED
  BY <1>1, <1>2, <1>3, <1>4, <1>5, <1>6, <1>7, <1>8, <1>9, <1>10, <1>11, <1>12, <1>13 DEF Work

\* Nor do senders, windows and the receive thread touch it.
LEMMA OthersKeep == ManagerInvariant /\ (Send \/ Subscribe \/ Unsubscribe \/ WorkerSpurious \/ Arrive \/ Announce)
   => ManagerInvariant'
<1> SUFFICES ASSUME ManagerInvariant,
                    Send \/ Subscribe \/ Unsubscribe \/ WorkerSpurious \/ Arrive \/ Announce
             PROVE  ManagerInvariant'
  OBVIOUS
<1> USE CanManagerAssumption DEF ManagerInvariant, TypeOK, Backends, WorkerHasConnection,
      StateTellsTheTruth, SentInItsConnection, HandlerHasWindow, NoWorkerWhileConnecting,
      Disconnected, Connected, NoOrderToStop, QueuedInThisConnection,
      uiVars, connection, workerVars, rxVars, txVars, shared
<1>1. CASE Send
  <2> PICK kind \in Kinds :
         txq' = Append(txq, [num |-> Len(queued) + 1, kind |-> kind, epoch |-> epoch])
      /\ queued' = Append(queued, [num |-> Len(queued) + 1, kind |-> kind, epoch |-> epoch])
    BY <1>1, Zenon DEF Send
  <2> DEFINE item == [num |-> Len(queued) + 1, kind |-> kind, epoch |-> epoch]
  <2>1. item \in Item /\ item.epoch = epoch
    BY SMT DEF Item
  <2>2. txq' = Append(txq, item) /\ queued' = Append(queued, item) /\ epoch' = epoch
    BY <1>1, SMT DEF Send
  <2> HIDE DEF item
  <2>3. txq \in Seq(Item) /\ queued \in Seq(Item) /\ \A k \in DOMAIN txq : txq[k].epoch = epoch
    BY SMT
  <2>4. Append(txq, item) \in Seq(Item) /\ Append(queued, item) \in Seq(Item)
    BY <2>1, <2>3, SMT
  <2>5. txq' \in Seq(Item) /\ queued' \in Seq(Item)
    BY <2>2, <2>4
  <2>6. \A k \in DOMAIN Append(txq, item) : Append(txq, item)[k].epoch = epoch
    BY <2>1, <2>3, AppendKeepsEpoch
  <2>7. QueuedInThisConnection'
    BY <2>2, <2>6
  <2>8. again' \in BOOLEAN
    BY <1>1, Zenon DEF Send, Notify
  <2>9. ui' = "idle" /\ ui = "idle"
    BY <1>1, SMT DEF Send
  <2>10. /\ Notify
         /\ UNCHANGED <<uiVars, abort, connection, subscribed, frame, rxVars, sent, mishaps>>
    BY <1>1, Zenon DEF Send
  <2>11. TypeOK'
    BY <2>5, <2>8, <2>10, SMT DEF Notify
  <2>12. SentInItsConnection' /\ Disconnected' /\ Connected'
    BY <2>9, <2>10, SMT
  <2>13. WorkerHasConnection' /\ StateTellsTheTruth' /\ HandlerHasWindow'
    BY <2>9, <2>10, SMT DEF Notify
  <2>14. NoWorkerWhileConnecting' /\ NoOrderToStop'
    BY <2>9, <2>10, SMT DEF Notify
  <2> QED
    BY <2>7, <2>11, <2>12, <2>13, <2>14
<1>2. CASE Subscribe
  BY <1>2, SMT DEF Subscribe, SubscribersLocked
<1>3. CASE Unsubscribe
  <2>1. subscribed' \in BOOLEAN
    BY <1>3, Zenon DEF Unsubscribe
  <2> QED
    BY <1>3, <2>1, SMT DEF Unsubscribe, SubscribersLocked
<1>4. CASE WorkerSpurious
  <2>1. again' \in BOOLEAN
    BY <1>4, Zenon DEF WorkerSpurious
  <2> QED
    BY <1>4, <2>1, SMT DEF WorkerSpurious
<1>5. CASE Arrive
  BY <1>5, SMT DEF Arrive
<1>6. CASE Announce
  <2>1. again' \in BOOLEAN
    BY <1>6, Zenon DEF Announce, Notify
  <2> QED
    BY <1>6, <2>1, SMT DEF Announce, Notify
<1> QED
  BY <1>1, <1>2, <1>3, <1>4, <1>5, <1>6

\* The named parts hold in every reachable state.
THEOREM ManagerInductive == Spec => []ManagerInvariant
<1>1. ManagerInvariant /\ [Next]_vars => ManagerInvariant'
  <2> SUFFICES ASSUME ManagerInvariant, [Next]_vars PROVE ManagerInvariant'
    OBVIOUS
  <2>1. CASE ConnectDisconnect
    BY <2>1, ConnectDisconnectKeeps
  <2>2. CASE Work
    BY <2>2, WorkKeeps
  <2>3. CASE Send \/ Subscribe \/ Unsubscribe \/ WorkerSpurious \/ Arrive \/ Announce
    BY <2>3, OthersKeep
  <2>4. CASE UNCHANGED vars
    BY <2>4, SMT DEF vars, uiVars, connection, workerVars, rxVars, txVars, ManagerInvariant, TypeOK,
      WorkerHasConnection, StateTellsTheTruth, SentInItsConnection, HandlerHasWindow,
      NoWorkerWhileConnecting, Disconnected, Connected, NoOrderToStop, QueuedInThisConnection
  <2> QED
    BY <2>1, <2>2, <2>3, <2>4 DEF Next
<1> QED
  BY ManagerInit, <1>1, PTL DEF Spec

\* The worker never runs without an open channel, nor decodes without a plexer:
\* Disconnect joins it before it closes the channel.
THEOREM WorkerKeepsConnection == Spec => []WorkerHasConnection
  BY ManagerInductive, PTL DEF ManagerInvariant

\* Whenever no Connect or Disconnect runs the state that the window shows is so.
THEOREM StateIsTrue == Spec => []StateTellsTheTruth
  BY ManagerInductive, PTL DEF ManagerInvariant

\* What is transmitted was queued in the same connection.
THEOREM StaysInItsConnection == Spec => []SentInItsConnection
  BY ManagerInductive, PTL DEF ManagerInvariant

\* ReceiveUnsubscribe waits for a handler that runs.
THEOREM NoHandlerWithoutWindow == Spec => []HandlerHasWindow
  BY ManagerInductive, PTL DEF ManagerInvariant

-----------------------------------------------------------------------------
(* Frames on their way to the subscriber.                                  *)

\* Queues that are emptied, and a worker that lets go of its frame, leave the
\* others in order.
LEMMA FramesDropped ==
  ASSUME FramesInOrder, UNCHANGED <<arrived, published>>,
         rxq' \in {rxq, <<>>}, InHand' \in {InHand, <<>>}
  PROVE  FramesInOrder'
<1>1. <<>> \in Seq(Number)
  OBVIOUS
<1> HIDE DEF InHand
<1>2. CASE rxq' = rxq /\ InHand' = InHand
  BY <1>2 DEF FramesInOrder
<1>3. CASE rxq' = rxq /\ InHand' = <<>>
  BY <1>1, <1>3, EmptyInOrder DEF FramesInOrder
<1>4. CASE rxq' = <<>> /\ InHand' = InHand
  BY <1>1, <1>4, EmptyInOrder DEF FramesInOrder
<1>5. CASE rxq' = <<>> /\ InHand' = <<>>
  BY <1>1, <1>5, EmptyInOrder DEF FramesInOrder
<1> QED
  BY <1>2, <1>3, <1>4, <1>5

\* A frame that arrives has a higher number than all that came before it.
LEMMA ArriveInOrder == TypeOK /\ FramesInOrder /\ Arrive => FramesInOrder'
<1> SUFFICES ASSUME TypeOK, FramesInOrder, Arrive PROVE FramesInOrder'
  OBVIOUS
<1> DEFINE n == Len(arrived)
<1>1. /\ n \in Nat /\ n + 1 \in Nat /\ n < MaxFrames
      /\ arrived' = Append(arrived, n + 1) /\ Len(arrived') = n + 1
      /\ rxq' = Append(rxq, n + 1) /\ UNCHANGED <<published, worker, frame>>
      /\ rxq \in Seq(Nat) /\ arrived \in Seq(Nat) /\ published \in Seq(Nat)
  BY DEF Arrive, TypeOK, workerVars
<1>2. n + 1 <= MaxFrames /\ \A k \in DOMAIN arrived' : arrived'[k] = k
  BY <1>1, CanManagerAssumption DEF FramesInOrder
<1>3. InHand' = InHand
  BY <1>1 DEF InHand
<1>4. InHand \in Seq(Nat) /\ n + 1 \in Number
  BY <1>1 DEF FramesInOrder, Number
<1> HIDE DEF n
<1>5. n + 1 > n /\ n + 1 >= n /\ n + 1 <= n + 1
  BY <1>1
<1>6. UpTo(rxq, n, Number) /\ UpTo(InHand, n, Number) /\ UpTo(published, n, Number)
  BY DEF FramesInOrder, n
<1>7. UpTo(rxq', n + 1, Number) /\ UpTo(InHand, n + 1, Number) /\ UpTo(published, n + 1, Number)
  BY <1>1, <1>4, <1>5, <1>6, NewestInOrder
<1>8. /\ Before(rxq, <<n + 1>>, Number) /\ Before(InHand, <<n + 1>>, Number)
      /\ Before(published, <<n + 1>>, Number)
  BY <1>1, <1>4, <1>5, <1>6, NewestInOrder
<1>9. Rising(rxq', Number) /\ Before(published, rxq', Number) /\ Before(InHand, rxq', Number)
  BY <1>1, <1>4, <1>8, AppendInOrder DEF FramesInOrder
<1>10. rxq' \in Seq(Number)
  BY <1>1, <1>4 DEF FramesInOrder
<1> QED
  BY <1>1, <1>2, <1>3, <1>7, <1>9, <1>10 DEF FramesInOrder

\* The frame that the worker takes is the oldest one of the channel.
LEMMA ReceiveInOrder == TypeOK /\ FramesInOrder /\ WorkerReceive => FramesInOrder'
<1> SUFFICES ASSUME TypeOK, FramesInOrder, WorkerReceive PROVE FramesInOrder'
  OBVIOUS
<1> DEFINE e == Head(rxq)
           rest == Tail(rxq)
<1>1. /\ rxq' = rest /\ rxq # <<>> /\ frame' = e /\ UNCHANGED <<arrived, published>>
      /\ worker' = IF subscribed THEN "publishing" ELSE "received"
      /\ rxq \in Seq(Nat) /\ published \in Seq(Nat)
  BY DEF WorkerReceive, TypeOK
<1>2. rest \in Seq(Number) /\ <<e>> \in Seq(Number) /\ <<>> \in Seq(Number)
  BY <1>1 DEF FramesInOrder
<1>3. /\ UpTo(rest, Len(arrived), Number) /\ UpTo(<<e>>, Len(arrived), Number)
      /\ Rising(rest, Number) /\ Before(<<e>>, rest, Number)
      /\ Before(published, rest, Number) /\ Before(published, <<e>>, Number)
  BY <1>1, TailInOrder DEF FramesInOrder
<1> HIDE DEF e, rest
<1>4. InHand' \in {<<e>>, <<>>}
  BY <1>1 DEF InHand
<1>5. CASE InHand' = <<e>>
  BY <1>1, <1>2, <1>3, <1>5 DEF FramesInOrder
<1>6. CASE InHand' = <<>>
  BY <1>1, <1>2, <1>3, <1>6, EmptyInOrder DEF FramesInOrder
<1> QED
  BY <1>4, <1>5, <1>6

\* What it publishes is newer than all that was published.
LEMMA PublishInOrder ==
  ASSUME TypeOK, FramesInOrder, WorkerPublish
  PROVE  /\ FramesInOrder'
         /\ published' = Append(published, frame)
         /\ frame \in LastOr0(published) + 1 .. Len(arrived)
         /\ arrived[frame] = frame
<1>1. /\ published' = Append(published, frame) /\ UNCHANGED <<rxq, arrived>>
      /\ InHand = <<frame>> /\ InHand' = <<>>
      /\ rxq \in Seq(Nat) /\ published \in Seq(Nat) /\ arrived \in Seq(Nat)
      /\ frame \in Nat /\ Len(arrived) \in Nat
  BY DEF WorkerPublish, To, InHand, TypeOK
<1>2. /\ UpTo(<<frame>>, Len(arrived), Number) /\ Before(published, <<frame>>, Number)
      /\ Before(<<frame>>, rxq, Number) /\ <<frame>> \in Seq(Number) /\ <<>> \in Seq(Number)
  BY <1>1 DEF FramesInOrder
<1>3. DOMAIN <<frame>> = {1} /\ <<frame>>[1] = frame
  OBVIOUS
<1>4. frame \in Number /\ frame > 0 /\ frame <= Len(arrived)
  <2>1. frame \in Number
    BY <1>2, <1>3
  <2> QED
    BY <1>2, <1>3, <2>1 DEF UpTo, Number
<1>5. UpTo(published', Len(arrived), Number)
  <2>1. UpTo(published, Len(arrived), Number) /\ Len(arrived) >= Len(arrived)
    BY <1>1 DEF FramesInOrder
  <2> QED
    BY <1>1, <1>4, <2>1, NewestInOrder
<1>6. Before(published', rxq, Number)
  BY <1>1, <1>2, AppendInOrder DEF FramesInOrder
<1>7. published' \in Seq(Number)
  BY <1>1, <1>4 DEF FramesInOrder
<1>8. FramesInOrder'
  BY <1>1, <1>2, <1>5, <1>6, <1>7, EmptyInOrder DEF FramesInOrder
<1>9. \A k \in DOMAIN published : published[k] \in Number
  BY DEF FramesInOrder
<1>10. LastOr0(published) \in Nat /\ LastOr0(published) < frame
  BY <1>1, <1>2, <1>4, <1>9, LastIsHighest
<1>11. frame \in DOMAIN arrived
  BY <1>1, <1>4
<1>12. arrived[frame] = frame
  BY <1>11 DEF FramesInOrder
<1> QED
  BY <1>1, <1>4, <1>8, <1>10, <1>12

-----------------------------------------------------------------------------
(* Messages on their way to the channel.                                   *)

\* The numbers of a queue follow what happens to it.
LEMMA NumbersFollow ==
  ASSUME NEW q \in Seq(Item), NEW x \in Item
  PROVE  /\ Numbers(q) \in Seq(Nat) /\ Len(Numbers(q)) = Len(q)
         /\ Numbers(Append(q, x)) = Append(Numbers(q), x.num)
         /\ q # <<>> => /\ Numbers(q) # <<>> /\ Head(Numbers(q)) = Head(q).num
                        /\ Numbers(Tail(q)) = Tail(Numbers(q))
<1>1. \A y \in Item : y.num \in Nat
  BY DEF Item
<1>2. /\ Len(q) \in Nat /\ DOMAIN q = 1 .. Len(q)
      /\ \A k \in DOMAIN q : q[k] \in Item
  OBVIOUS
<1>3. Numbers(q) \in Seq(Nat) /\ Len(Numbers(q)) = Len(q)
  BY <1>1, <1>2 DEF Numbers
<1>4. Numbers(Append(q, x)) = Append(Numbers(q), x.num)
  <2> DEFINE a == Append(q, x)
             l == Numbers(a)
             r == Append(Numbers(q), x.num)
  <2>1. /\ a \in Seq(Item) /\ DOMAIN a = 1 .. Len(q) + 1 /\ a[Len(q) + 1] = x
        /\ \A k \in 1 .. Len(q) : a[k] = q[k]
    OBVIOUS
  <2>2. /\ r \in Seq(Nat) /\ DOMAIN r = 1 .. Len(q) + 1 /\ r[Len(q) + 1] = x.num
        /\ \A k \in 1 .. Len(q) : r[k] = Numbers(q)[k]
    BY <1>1, <1>3
  <2>3. \A k \in 1 .. Len(q) : Numbers(q)[k] = q[k].num
    BY <1>2 DEF Numbers
  <2> HIDE DEF a, r
  <2>4. DOMAIN l = 1 .. Len(q) + 1 /\ \A k \in 1 .. Len(q) + 1 : l[k] = a[k].num
    BY <2>1 DEF Numbers
  <2>5. \A k \in 1 .. Len(q) + 1 : k \in 1 .. Len(q) \/ k = Len(q) + 1
    BY <1>2
  <2>6. \A k \in 1 .. Len(q) + 1 : l[k] = r[k]
    BY <2>1, <2>2, <2>3, <2>4, <2>5
  <2>7. l = [k \in 1 .. Len(q) + 1 |-> l[k]] /\ r = [k \in 1 .. Len(q) + 1 |-> r[k]]
    BY <2>1, <2>2 DEF Numbers
  <2> HIDE DEF l
  <2>8. l = r
    BY <2>6, <2>7, Zenon
  <2> QED
    BY <2>8 DEF l, r, a
<1>5. ASSUME q # <<>>
      PROVE  /\ Numbers(q) # <<>> /\ Head(Numbers(q)) = Head(q).num
             /\ Numbers(Tail(q)) = Tail(Numbers(q))
  <2>1. Len(q) >= 1 /\ 1 \in DOMAIN q
    BY <1>2, <1>5
  <2>2. Numbers(q) # <<>> /\ Head(Numbers(q)) = Numbers(q)[1] /\ Head(q) = q[1]
    BY <1>3, <2>1
  <2>3. Numbers(q)[1] = q[1].num
    BY <2>1 DEF Numbers
  <2> DEFINE t == Tail(q)
             l == Numbers(t)
             r == Tail(Numbers(q))
  <2>4. /\ DOMAIN t = 1 .. Len(q) - 1
        /\ \A k \in 1 .. Len(q) - 1 : t[k] = q[k + 1] /\ k + 1 \in DOMAIN q
    BY <1>2, <1>5
  <2>5. /\ r \in Seq(Nat) /\ DOMAIN r = 1 .. Len(q) - 1
        /\ \A k \in 1 .. Len(q) - 1 : r[k] = Numbers(q)[k + 1]
    BY <1>2, <1>3, <2>1, <2>2
  <2> HIDE DEF t, r
  <2>6. DOMAIN l = 1 .. Len(q) - 1 /\ \A k \in 1 .. Len(q) - 1 : l[k] = t[k].num
    BY <2>4 DEF Numbers
  <2>7. \A k \in 1 .. Len(q) - 1 : l[k] = r[k]
    BY <2>4, <2>5, <2>6 DEF Numbers
  <2>8. l = [k \in 1 .. Len(q) - 1 |-> l[k]] /\ r = [k \in 1 .. Len(q) - 1 |-> r[k]]
    BY <2>4, <2>5 DEF Numbers
  <2> HIDE DEF l
  <2>9. l = r
    BY <2>7, <2>8, Zenon
  <2> QED
    BY <2>2, <2>3, <2>9 DEF l, r, t
<1> QED
  BY <1>3, <1>4, <1>5

\* So do the numbers of what was sent.
LEMMA SentNumbersFollow ==
  ASSUME sent \in Seq([item : Item, epoch : Nat]),
         NEW x \in [item : Item, epoch : Nat], sent' = Append(sent, x)
  PROVE  SentNumbers' = Append(SentNumbers, x.item.num) /\ SentNumbers \in Seq(Nat)
<1>1. \A y \in [item : Item, epoch : Nat] : y.item.num \in Nat
  BY DEF Item
<1>2. /\ Len(sent) \in Nat /\ DOMAIN sent = 1 .. Len(sent)
      /\ \A k \in DOMAIN sent : sent[k] \in [item : Item, epoch : Nat]
  BY LenProperties, ElementOfSeq
<1>3. /\ SentNumbers \in Seq(Nat) /\ Len(SentNumbers) = Len(sent)
      /\ \A k \in 1 .. Len(sent) : SentNumbers[k] = sent[k].item.num
  BY <1>1, <1>2 DEF SentNumbers
<1> DEFINE l == SentNumbers'
           r == Append(SentNumbers, x.item.num)
<1>4. /\ DOMAIN sent' = 1 .. Len(sent) + 1 /\ sent'[Len(sent) + 1] = x
      /\ \A k \in 1 .. Len(sent) : sent'[k] = sent[k]
  OBVIOUS
<1>5. /\ r \in Seq(Nat) /\ DOMAIN r = 1 .. Len(sent) + 1 /\ r[Len(sent) + 1] = x.item.num
      /\ \A k \in 1 .. Len(sent) : r[k] = SentNumbers[k]
  BY <1>1, <1>3
<1> HIDE DEF r
<1>6. DOMAIN l = 1 .. Len(sent) + 1 /\ \A k \in 1 .. Len(sent) + 1 : l[k] = sent'[k].item.num
  BY <1>4 DEF SentNumbers
<1>7. \A k \in 1 .. Len(sent) + 1 : k \in 1 .. Len(sent) \/ k = Len(sent) + 1
  BY <1>2
<1>8. \A k \in 1 .. Len(sent) + 1 : l[k] = r[k]
  <2>1. \A k \in 1 .. Len(sent) : l[k] = r[k]
    <3> SUFFICES ASSUME NEW k \in 1 .. Len(sent) PROVE l[k] = r[k]
      OBVIOUS
    <3>1. k \in 1 .. Len(sent) + 1
      BY <1>2
    <3>2. l[k] = sent'[k].item.num /\ sent'[k] = sent[k] /\ r[k] = SentNumbers[k]
      BY <1>4, <1>5, <1>6, <3>1
    <3> QED
      BY <1>3, <3>2
  <2>2. l[Len(sent) + 1] = r[Len(sent) + 1]
    BY <1>2, <1>4, <1>5, <1>6
  <2> QED
    BY <1>7, <2>1, <2>2
<1>9. l = [k \in 1 .. Len(sent) + 1 |-> l[k]] /\ r = [k \in 1 .. Len(sent) + 1 |-> r[k]]
  BY <1>4, <1>5 DEF SentNumbers
<1> HIDE DEF l
<1>10. l = r
  BY <1>8, <1>9, Zenon
<1> QED
  BY <1>3, <1>10 DEF l, r

\* A queue that is emptied leaves what was sent in order.
LEMMA MessagesDropped ==
  ASSUME MessagesInOrder, UNCHANGED <<queued, sent>>, txq' \in {txq, <<>>}
  PROVE  MessagesInOrder'
<1>1. CASE txq' = txq
  BY <1>1 DEF MessagesInOrder, Numbers, SentNumbers
<1>2. CASE txq' = <<>>
  <2>1. Numbers(txq') = <<>> /\ <<>> \in Seq(Number)
    BY <1>2 DEF Numbers
  <2>2. SentNumbers' = SentNumbers
    BY DEF SentNumbers
  <2> HIDE DEF SentNumbers, Numbers
  <2> QED
    BY <2>1, <2>2, EmptyInOrder DEF MessagesInOrder
<1> QED
  BY <1>1, <1>2

\* A message that is queued has a higher number than all before it.
LEMMA SendInOrder ==
  ASSUME TypeOK, MessagesInOrder, Send
  PROVE  /\ MessagesInOrder'
         /\ Numbers(queued)' = Append(Numbers(queued), Len(queued) + 1)
         /\ Len(queued) + 1 \in 1 .. MaxSends
<1> DEFINE n == Len(queued)
<1>1. PICK kind \in Kinds :
        /\ txq' = Append(txq, [num |-> n + 1, kind |-> kind, epoch |-> epoch])
        /\ queued' = Append(queued, [num |-> n + 1, kind |-> kind, epoch |-> epoch])
  BY Zenon DEF Send
<1> DEFINE item == [num |-> n + 1, kind |-> kind, epoch |-> epoch]
<1>2. /\ n \in Nat /\ n + 1 \in Nat /\ n < MaxSends /\ UNCHANGED sent
      /\ txq \in Seq(Item) /\ queued \in Seq(Item)
  BY DEF Send, TypeOK
<1>3. item \in Item /\ item.num = n + 1
  BY <1>2 DEF Item, TypeOK
<1>4. txq' = Append(txq, item) /\ queued' = Append(queued, item)
  BY <1>1
<1> HIDE DEF item
<1>5. /\ Numbers(txq') = Append(Numbers(txq), n + 1)
      /\ Numbers(queued') = Append(Numbers(queued), n + 1)
      /\ Numbers(txq) \in Seq(Nat)
  BY <1>2, <1>3, <1>4, NumbersFollow
<1>6. SentNumbers' = SentNumbers /\ SentNumbers \in Seq(Nat)
  <2>1. SentNumbers \in Seq(Number)
    BY DEF MessagesInOrder
  <2> QED
    BY <1>2, <2>1 DEF SentNumbers, Number
<1>7. Len(queued') = n + 1 /\ n + 1 <= MaxSends /\ \A k \in DOMAIN queued' : queued'[k].num = k
  <2>1. n + 1 <= MaxSends
    BY <1>2, CanManagerAssumption
  <2>2. \A k \in DOMAIN queued' : (k \in DOMAIN queued /\ queued'[k] = queued[k]) \/ (k = n + 1 /\ queued'[k] = item)
    BY <1>2, <1>3, <1>4
  <2> QED
    BY <1>2, <1>3, <1>4, <2>1, <2>2 DEF MessagesInOrder
<1>8. /\ UpTo(Numbers(txq), n, Number) /\ UpTo(SentNumbers, n, Number)
      /\ Rising(Numbers(txq), Number) /\ Before(SentNumbers, Numbers(txq), Number)
      /\ Numbers(txq) \in Seq(Number)
  BY DEF MessagesInOrder
<1> DEFINE q == Numbers(txq)
<1> HIDE DEF n, q
<1>9. n + 1 > n /\ n + 1 >= n /\ n + 1 <= n + 1 /\ n + 1 \in Number
  BY <1>2 DEF Number
<1>10. Append(q, n + 1) \in Seq(Number)
  BY <1>8, <1>9 DEF q
<1>11. /\ UpTo(Append(q, n + 1), n + 1, Number) /\ UpTo(SentNumbers, n + 1, Number)
       /\ Before(q, <<n + 1>>, Number) /\ Before(SentNumbers, <<n + 1>>, Number)
  BY <1>2, <1>5, <1>6, <1>8, <1>9, NewestInOrder DEF q
<1>12. Rising(Append(q, n + 1), Number) /\ Before(SentNumbers, Append(q, n + 1), Number)
  BY <1>2, <1>5, <1>6, <1>8, <1>11, AppendInOrder DEF q
<1>13. MessagesInOrder'
  <2>1. Numbers(txq)' = Append(q, n + 1)
    BY <1>5 DEF q, Numbers
  <2> QED
    BY <1>6, <1>7, <1>10, <1>11, <1>12, <2>1 DEF MessagesInOrder
<1>14. Numbers(queued)' = Append(Numbers(queued), n + 1)
  BY <1>5 DEF Numbers
<1>15. n + 1 \in 1 .. MaxSends
  BY <1>2, CanManagerAssumption
<1> QED
  BY <1>13, <1>14, <1>15 DEF n

\* What leaves the queue is its oldest message.
LEMMA TransmitQueue ==
  ASSUME TypeOK, MessagesInOrder, txq # <<>>
  PROVE  LET q == Numbers(txq)
             e == Head(txq).num
         IN  /\ q \in Seq(Nat) /\ SentNumbers \in Seq(Nat)
             /\ e \in Number /\ e <= Len(queued) /\ Len(queued) \in Nat
             /\ Numbers(Tail(txq)) = Tail(q) /\ Tail(q) \in Seq(Number) /\ Tail(q) \in Seq(Nat)
             /\ UpTo(Tail(q), Len(queued), Number)
             /\ Rising(Tail(q), Number) /\ Before(<<e>>, Tail(q), Number)
             /\ Before(SentNumbers, Tail(q), Number) /\ Before(SentNumbers, <<e>>, Number)
<1> DEFINE q == Numbers(txq)
           e == Head(txq).num
<1>1. txq \in Seq(Item) /\ Head(txq) \in Item /\ Len(queued) \in Nat
  BY DEF TypeOK
<1>2. q \in Seq(Nat) /\ q # <<>> /\ Head(q) = e /\ Numbers(Tail(txq)) = Tail(q)
  BY <1>1, NumbersFollow
<1>3. q \in Seq(Number) /\ SentNumbers \in Seq(Number)
  BY DEF MessagesInOrder
<1>4. SentNumbers \in Seq(Nat)
  BY <1>3 DEF Number
<1>5. /\ UpTo(q, Len(queued), Number) /\ Rising(q, Number) /\ Before(SentNumbers, q, Number)
  BY DEF MessagesInOrder
<1> HIDE DEF q, e
<1>6. Head(q) \in Number /\ Tail(q) \in Seq(Number) /\ Tail(q) \in Seq(Nat)
  BY <1>2, <1>3
<1>7. /\ UpTo(Tail(q), Len(queued), Number) /\ UpTo(<<e>>, Len(queued), Number)
      /\ Rising(Tail(q), Number) /\ Before(<<e>>, Tail(q), Number)
      /\ Before(SentNumbers, Tail(q), Number) /\ Before(SentNumbers, <<e>>, Number)
  BY <1>2, <1>4, <1>5, TailInOrder
<1>8. e <= Len(queued)
  <2>1. DOMAIN <<e>> = {1} /\ <<e>>[1] = e
    OBVIOUS
  <2> QED
    BY <1>2, <1>6, <1>7, <2>1 DEF UpTo
<1> QED
  BY <1>1, <1>2, <1>4, <1>6, <1>7, <1>8 DEF q, e

\* A message that cannot be sent is left out.
LEMMA SkipInOrder == TypeOK /\ MessagesInOrder /\ WorkerSkip => MessagesInOrder'
<1> SUFFICES ASSUME TypeOK, MessagesInOrder, WorkerSkip PROVE MessagesInOrder'
  OBVIOUS
<1>1. txq' = Tail(txq) /\ txq # <<>> /\ UNCHANGED <<queued, sent>>
  BY DEF WorkerSkip
<1> DEFINE q == Numbers(txq)
<1>2. /\ Numbers(Tail(txq)) = Tail(q) /\ Tail(q) \in Seq(Number)
      /\ UpTo(Tail(q), Len(queued), Number) /\ Rising(Tail(q), Number)
      /\ Before(SentNumbers, Tail(q), Number)
  BY <1>1, TransmitQueue
<1>3. Numbers(txq)' = Tail(q) /\ SentNumbers' = SentNumbers
  BY <1>1, <1>2 DEF Numbers, SentNumbers
<1> HIDE DEF q
<1> QED
  BY <1>1, <1>2, <1>3 DEF MessagesInOrder

\* What is sent was queued after all that was sent before.
LEMMA TransmitInOrder ==
  ASSUME TypeOK, MessagesInOrder, WorkerTransmit
  PROVE  LET e == Head(txq).num
         IN  /\ MessagesInOrder'
             /\ SentNumbers' = Append(SentNumbers, e) /\ SentNumbers \in Seq(Nat)
             /\ e \in LastOr0(SentNumbers) + 1 .. Len(queued)
             /\ Numbers(queued)[e] = e
<1> DEFINE q == Numbers(txq)
           e == Head(txq).num
           x == [item |-> Head(txq), epoch |-> epoch]
<1>1. txq' = Tail(txq) /\ txq # <<>> /\ UNCHANGED queued /\ sent' = Append(sent, x)
  BY DEF WorkerTransmit
<1>2. /\ q \in Seq(Nat) /\ SentNumbers \in Seq(Nat)
      /\ e \in Number /\ e <= Len(queued) /\ Len(queued) \in Nat
      /\ Numbers(Tail(txq)) = Tail(q) /\ Tail(q) \in Seq(Number) /\ Tail(q) \in Seq(Nat)
      /\ UpTo(Tail(q), Len(queued), Number)
      /\ Rising(Tail(q), Number) /\ Before(<<e>>, Tail(q), Number)
      /\ Before(SentNumbers, Tail(q), Number) /\ Before(SentNumbers, <<e>>, Number)
  BY <1>1, TransmitQueue
<1>3. SentNumbers' = Append(SentNumbers, e)
  <2>1. x \in [item : Item, epoch : Nat] /\ x.item.num = e
    BY <1>1 DEF TypeOK
  <2>2. sent \in Seq([item : Item, epoch : Nat])
    BY DEF TypeOK
  <2> HIDE DEF x, e
  <2> QED
    BY <1>1, <2>1, <2>2, SentNumbersFollow
<1>4. Numbers(txq)' = Tail(q)
  BY <1>1, <1>2 DEF Numbers
<1>5. e \in DOMAIN queued /\ DOMAIN queued = 1 .. Len(queued)
  <2>1. queued \in Seq(Item)
    BY DEF TypeOK
  <2> HIDE DEF e
  <2> QED
    BY <1>2, <2>1 DEF Number
<1>6. Numbers(queued)[e] = e
  BY <1>5 DEF Numbers, MessagesInOrder
<1> DEFINE r == Tail(q)
<1> HIDE DEF q, e, x, r
<1>7. UpTo(SentNumbers', Len(queued), Number)
  <2>1. UpTo(SentNumbers, Len(queued), Number) /\ Len(queued) >= Len(queued) /\ e \in Nat
    BY <1>2 DEF MessagesInOrder, Number
  <2> QED
    BY <1>2, <1>3, <2>1, NewestInOrder
<1>8. Before(SentNumbers', r, Number)
  BY <1>2, <1>3, AppendInOrder DEF r, Number
<1>9. SentNumbers' \in Seq(Number)
  <2>1. SentNumbers \in Seq(Number)
    BY DEF MessagesInOrder
  <2> QED
    BY <1>2, <1>3, <2>1
<1>10. MessagesInOrder'
  BY <1>1, <1>2, <1>4, <1>7, <1>8, <1>9 DEF MessagesInOrder, r
<1>11. LastOr0(SentNumbers) \in Nat /\ LastOr0(SentNumbers) < e
  <2>1. \A k \in DOMAIN SentNumbers : SentNumbers[k] \in Number
    BY DEF MessagesInOrder
  <2>2. e > 0 /\ e \in Nat
    BY <1>2 DEF Number
  <2> QED
    BY <1>2, <2>1, <2>2, LastIsHighest
<1> QED
  BY <1>2, <1>3, <1>6, <1>10, <1>11 DEF e, Number

-----------------------------------------------------------------------------
(* Both ways as message streams.                                           *)

InVars == <<arrived, published>>
OutVars == <<queued, sent>>

\* A step that none of the two streams notices.
LEMMA Unnoticed == UNCHANGED InVars /\ UNCHANGED OutVars => UNCHANGED Stream!vars
  BY DEF InVars, OutVars, Stream!vars, Numbers, SentNumbers

\* Connect and Disconnect only drop what is on its way.
LEMMA ConnectDisconnectInOrder ==
  ASSUME TypeOK, FramesInOrder, MessagesInOrder, ConnectDisconnect
  PROVE  FramesInOrder' /\ MessagesInOrder' /\ UNCHANGED InVars /\ UNCHANGED OutVars
<1>1. UNCHANGED <<arrived, published, queued, sent>> /\ rxq' \in {rxq, <<>>} /\ txq' \in {txq, <<>>}
  BY DEF ConnectDisconnect, DisconnectBegin, DisconnectNotify, DisconnectJoin, DisconnectClose,
    DisconnectEnd, ConnectBegin, ConnectNoDevice, ConnectNotOpened, ConnectOpened,
    ConnectPlexerFails, ConnectBackend, ConnectSpawn, rxVars, txVars
<1>2. frame' = frame /\ (worker' = worker \/ worker' # "publishing")
  BY DEF ConnectDisconnect, DisconnectBegin, DisconnectNotify, DisconnectJoin, DisconnectClose,
    DisconnectEnd, ConnectBegin, ConnectNoDevice, ConnectNotOpened, ConnectOpened,
    ConnectPlexerFails, ConnectBackend, ConnectSpawn, Notify, workerVars
<1>3. InHand' \in {InHand, <<>>}
  BY <1>2 DEF InHand
<1> QED
  BY <1>1, <1>3, FramesDropped, MessagesDropped DEF InVars, OutVars

\* The steps of the worker that move neither a frame nor a message.
WorkElsewhere ==
  \/ WorkerBegin \/ WorkerCheck \/ WorkerWait \/ WorkerLoop \/ WorkerReceiveNone
  \/ WorkerReceived \/ WorkerDecoded \/ WorkerLock \/ WorkerUnlock

LEMMA ElsewhereInOrder ==
  ASSUME TypeOK, FramesInOrder, MessagesInOrder,
         WorkElsewhere \/ WorkerSpurious \/ Announce \/ Subscribe \/ Unsubscribe \/ UNCHANGED vars
  PROVE  FramesInOrder' /\ MessagesInOrder' /\ UNCHANGED InVars /\ UNCHANGED OutVars
<1>1. UNCHANGED <<arrived, published, queued, sent, rxq, txq>>
  BY DEF WorkElsewhere, WorkerBegin, WorkerCheck, WorkerWait, WorkerLoop, WorkerReceiveNone,
    WorkerReceived, WorkerDecoded, WorkerLock, WorkerUnlock, WorkerSpurious, Announce, Subscribe,
    Unsubscribe, vars, rxVars, txVars
<1>2. frame' = frame /\ (worker' = worker \/ worker' # "publishing")
  BY DEF WorkElsewhere, WorkerBegin, WorkerCheck, WorkerWait, WorkerLoop, WorkerReceiveNone,
    WorkerReceived, WorkerDecoded, WorkerLock, WorkerUnlock, WorkerSpurious, Announce, Subscribe,
    Unsubscribe, vars, workerVars, To, Notify
<1>3. InHand' \in {InHand, <<>>}
  BY <1>2 DEF InHand
<1> QED
  BY <1>1, <1>3, FramesDropped, MessagesDropped DEF InVars, OutVars

\* A step on one way leaves the other as it is.
LEMMA OtherWay ==
  /\ FramesInOrder /\ UNCHANGED <<arrived, published, rxq, worker, frame>> => FramesInOrder'
  /\ MessagesInOrder /\ UNCHANGED <<queued, sent, txq>> => MessagesInOrder'
<1>1. ASSUME FramesInOrder, UNCHANGED <<arrived, published, rxq, worker, frame>> PROVE FramesInOrder'
  BY <1>1 DEF FramesInOrder, InHand
<1>2. ASSUME MessagesInOrder, UNCHANGED <<queued, sent, txq>> PROVE MessagesInOrder'
  BY <1>2, MessagesDropped
<1> QED
  BY <1>1, <1>2

\* Every step keeps the order, and is a step of one of the streams or of none.
LEMMA StepInOrder ==
  ASSUME TypeOK, FramesInOrder, MessagesInOrder, [Next]_vars
  PROVE  FramesInOrder' /\ MessagesInOrder' /\ [Stream!Next]_(Stream!vars)
<1> DEFINE given == [p \in Both |-> IF p = "in" THEN arrived ELSE Numbers(queued)]
           passed == [p \in Both |-> LastOr0(IF p = "in" THEN published ELSE SentNumbers)]
           got == [p \in Both |-> IF p = "in" THEN published ELSE SentNumbers]
<1> USE DEF Both
<1>1. CASE ConnectDisconnect
  BY <1>1, ConnectDisconnectInOrder, Unnoticed
<1>2. CASE WorkElsewhere \/ WorkerSpurious \/ Announce \/ Subscribe \/ Unsubscribe \/ UNCHANGED vars
  BY <1>2, ElsewhereInOrder, Unnoticed
<1>3. CASE WorkerReceive
  <2>1. UNCHANGED InVars /\ UNCHANGED OutVars /\ UNCHANGED <<queued, sent, txq>>
    BY <1>3 DEF WorkerReceive, InVars, OutVars, txVars
  <2> QED
    BY <1>3, <2>1, ReceiveInOrder, OtherWay, Unnoticed
<1>4. CASE WorkerSkip
  <2>1. /\ UNCHANGED InVars /\ UNCHANGED OutVars
        /\ UNCHANGED <<arrived, published, rxq, worker, frame>>
    BY <1>4 DEF WorkerSkip, InVars, OutVars, rxVars, workerVars
  <2> QED
    BY <1>4, <2>1, SkipInOrder, OtherWay, Unnoticed
<1>5. CASE Arrive
  <2>1. FramesInOrder' /\ MessagesInOrder'
    BY <1>5, ArriveInOrder, OtherWay DEF Arrive, txVars
  <2>2. /\ arrived' = Append(arrived, Len(arrived) + 1) /\ UNCHANGED <<published, queued, sent>>
        /\ Len(arrived) + 1 \in 1 .. MaxFrames + MaxSends
    BY <1>5, CanManagerAssumption DEF Arrive, txVars, TypeOK
  <2>3. UNCHANGED <<Numbers(queued), SentNumbers>>
    BY <2>2 DEF Numbers, SentNumbers
  <2>4. given' = [given EXCEPT !["in"] = Append(@, Len(arrived) + 1)]
    BY <2>2, <2>3
  <2>5. UNCHANGED <<passed, got>>
    BY <2>2, <2>3
  <2>6. Stream!Send("in")
    BY <2>2, <2>4, <2>5 DEF Stream!Send
  <2> QED
    BY <2>1, <2>6 DEF Stream!Next
<1>6. CASE WorkerPublish
  <2>1. /\ FramesInOrder' /\ published' = Append(published, frame)
        /\ frame \in LastOr0(published) + 1 .. Len(arrived) /\ arrived[frame] = frame
    BY <1>6, PublishInOrder
  <2>2. /\ UNCHANGED <<arrived, queued, sent, txq>> /\ published \in Seq(Nat) /\ frame \in Nat
    BY <1>6 DEF WorkerPublish, txVars, TypeOK
  <2>3. UNCHANGED <<Numbers(queued), SentNumbers>>
    BY <2>2 DEF Numbers, SentNumbers
  <2>4. LastOr0(published') = frame
    BY <2>1, <2>2 DEF LastOr0
  <2>5. passed' = [passed EXCEPT !["in"] = frame]
    BY <2>3, <2>4
  <2>6. got' = [got EXCEPT !["in"] = Append(@, given["in"][frame])]
    BY <2>1, <2>3
  <2>7. UNCHANGED given
    BY <2>2, <2>3
  <2>8. Stream!Deliver("in")
    BY <2>1, <2>5, <2>6, <2>7 DEF Stream!Deliver
  <2> QED
    BY <2>1, <2>2, <2>8, OtherWay DEF Stream!Next
<1>7. CASE Send
  <2>1. /\ MessagesInOrder' /\ Numbers(queued)' = Append(Numbers(queued), Len(queued) + 1)
        /\ Len(queued) + 1 \in 1 .. MaxSends
    BY <1>7, SendInOrder
  <2>2. /\ UNCHANGED <<arrived, published, rxq, frame, sent>>
        /\ worker' = worker \/ worker' # "publishing"
    BY <1>7 DEF Send, rxVars, Notify
  <2>3. FramesInOrder'
    <3>1. InHand' \in {InHand, <<>>}
      BY <2>2 DEF InHand
    <3> QED
      BY <2>2, <3>1, FramesDropped
  <2>4. SentNumbers' = SentNumbers
    BY <2>2 DEF SentNumbers
  <2>5. given' = [given EXCEPT !["out"] = Append(@, Len(queued) + 1)]
    BY <2>1, <2>2
  <2>6. UNCHANGED <<passed, got>>
    BY <2>2, <2>4
  <2>7. Len(queued) + 1 \in 1 .. MaxFrames + MaxSends
    BY <2>1, CanManagerAssumption
  <2>8. Stream!Send("out")
    BY <2>5, <2>6, <2>7 DEF Stream!Send
  <2> QED
    BY <2>1, <2>3, <2>8 DEF Stream!Next
<1>8. CASE WorkerTransmit
  <2> DEFINE e == Head(txq).num
  <2>1. /\ MessagesInOrder' /\ SentNumbers' = Append(SentNumbers, e) /\ SentNumbers \in Seq(Nat)
        /\ e \in LastOr0(SentNumbers) + 1 .. Len(queued) /\ Numbers(queued)[e] = e
    BY <1>8, TransmitInOrder
  <2> HIDE DEF e
  <2>2. UNCHANGED <<arrived, published, rxq, worker, frame, queued>>
    BY <1>8 DEF WorkerTransmit, rxVars
  <2>3. Len(Numbers(queued)) = Len(queued) /\ UNCHANGED Numbers(queued)
    BY <2>2 DEF Numbers, TypeOK
  <2>4. LastOr0(SentNumbers') = e
    BY <2>1 DEF LastOr0
  <2>5. passed' = [passed EXCEPT !["out"] = e]
    BY <2>2, <2>4 DEF LastOr0
  <2>6. got' = [got EXCEPT !["out"] = Append(@, given["out"][e])]
    BY <2>1, <2>2
  <2>7. UNCHANGED given
    BY <2>2, <2>3
  <2>8. Stream!Deliver("out")
    BY <2>1, <2>3, <2>5, <2>6, <2>7 DEF Stream!Deliver
  <2> QED
    BY <2>1, <2>2, <2>8, OtherWay DEF Stream!Next
<1> QED
  BY <1>1, <1>2, <1>3, <1>4, <1>5, <1>6, <1>7, <1>8 DEF Next, Work, WorkElsewhere

(***************************************************************************)
(* CanManager implements two lossy message streams: frames reach the       *)
(* subscriber and messages reach the channel in order and at most once,    *)
(* over any number of connections.                                         *)
(***************************************************************************)
THEOREM ManagerIsStream == Spec => PassesInOrder
<1>1. Init => FramesInOrder /\ MessagesInOrder
  <2> SUFFICES ASSUME Init PROVE FramesInOrder /\ MessagesInOrder
    OBVIOUS
  <2>1. /\ arrived = <<>> /\ published = <<>> /\ rxq = <<>> /\ InHand = <<>>
        /\ queued = <<>> /\ Numbers(txq) = <<>> /\ SentNumbers = <<>>
    BY DEF Init, InHand, Numbers, SentNumbers
  <2>2. Len(arrived) <= MaxFrames /\ Len(queued) <= MaxSends /\ <<>> \in Seq(Number)
    BY <2>1, CanManagerAssumption
  <2> QED
    BY <2>1, <2>2, EmptyInOrder DEF FramesInOrder, MessagesInOrder
<1>2. Init => Stream!Init
  <2> SUFFICES ASSUME Init PROVE Stream!Init
    OBVIOUS
  <2>1. arrived = <<>> /\ published = <<>> /\ Numbers(queued) = <<>> /\ SentNumbers = <<>>
    BY DEF Init, Numbers, SentNumbers
  <2>2. LastOr0(<<>>) = 0
    BY DEF LastOr0
  <2> QED
    BY <2>1, <2>2 DEF Stream!Init
<1>3. TypeOK /\ FramesInOrder /\ MessagesInOrder /\ [Next]_vars
        => FramesInOrder' /\ MessagesInOrder' /\ [Stream!Next]_(Stream!vars)
  BY StepInOrder
<1>4. Spec => []TypeOK
  <2>1. ManagerInvariant => TypeOK
    BY DEF ManagerInvariant
  <2> QED
    BY <2>1, ManagerInductive, PTL
<1> QED
  BY <1>1, <1>2, <1>3, <1>4, PTL DEF Spec, PassesInOrder, Stream!Spec
=============================================================================
