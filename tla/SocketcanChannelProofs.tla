------------------------ MODULE SocketcanChannelProofs ------------------------
(***************************************************************************)
(* The inductive invariant of the SocketCAN channel, and that the channel  *)
(* is a lossy message stream, for any number of consumers, frames,         *)
(* openings and mishaps.                                                   *)
(***************************************************************************)
EXTENDS SocketcanChannel, DataProofs

\* A channel is made closed, without thread, descriptors or messages.
LEMMA ChannelInit == Init => ChannelInvariant
<1> SUFFICES ASSUME Init PROVE ChannelInvariant
  OBVIOUS
<1>1. <<>> \in Seq(Nat)
  BY SMT
<1>2. /\ fd \in BOOLEAN /\ started \in BOOLEAN
      /\ stopSeen \in BOOLEAN /\ bell \in BOOLEAN
  BY Zenon DEF Init
<1>3. TypeOK
  BY <1>1, <1>2, SocketcanAssumption, SMT DEF Init, TypeOK
<1>4. OwnerHolds /\ SetForStop
  BY SMT DEF Init, OwnerHolds, SetForStop, Together
<1> QED
  BY <1>3, <1>4 DEF ChannelInvariant

\* Whatever step of Open or Close the owner takes, descriptors, flag and thread
\* match the place it gets to.
LEMMA OwnerKeeps == ChannelInvariant /\ Owner => ChannelInvariant'
<1> SUFFICES ASSUME ChannelInvariant, Owner PROVE ChannelInvariant'
  OBVIOUS
<1> USE SocketcanAssumption DEF ChannelInvariant, TypeOK, OwnerHolds, SetForStop, Together,
      NoThreadYet, ownerVars, resources, threadVars, consumerVars, busVars
<1>1. CASE OpenBegin
  BY <1>1, SMT DEF OpenBegin, MayCall, ClearQueue
<1>2. CASE OpenRefused
  BY <1>2, SMT DEF OpenRefused
<1>3. CASE OpenFails
  BY <1>3, SMT DEF OpenFails, Mishap
<1>4. CASE OpenDescriptors
  BY <1>4, SMT DEF OpenDescriptors
<1>5. CASE StopSignal
  BY <1>5, SMT DEF StopSignal
<1>6. CASE StopJoin
  <2>1. started' \in BOOLEAN
    BY <1>6, Zenon DEF StopJoin
  <2> QED
    BY <1>6, <2>1, SMT DEF StopJoin
<1>7. CASE OpenThread
  <2>1. stopSeen' \in BOOLEAN
    BY <1>7, Zenon DEF OpenThread
  <2> QED
    BY <1>7, <2>1, SMT DEF OpenThread
<1>8. CASE OpenEnd
  BY <1>8, SMT DEF OpenEnd
<1>9. CASE CloseBegin
  BY <1>9, SMT DEF CloseBegin, MayCall
<1>10. CASE CloseEnd
  <2>1. fd' \in BOOLEAN
    BY <1>10, Zenon DEF CloseEnd
  <2> QED
    BY <1>10, <2>1, SMT DEF CloseEnd, ClearQueue
<1> QED
  BY <1>1, <1>2, <1>3, <1>4, <1>5, <1>6, <1>7, <1>8, <1>9, <1>10 DEF Owner

\* The receive thread starts, polls, reads and ends without disturbing what the
\* owner relies on.
LEMMA ThreadKeeps == ChannelInvariant /\ Thread => ChannelInvariant'
<1> SUFFICES ASSUME ChannelInvariant, Thread PROVE ChannelInvariant'
  OBVIOUS
<1> USE SocketcanAssumption DEF ChannelInvariant, TypeOK, OwnerHolds, SetForStop, Together,
      NoThreadYet, ownerVars, resources, threadVars, consumerVars, busVars
<1>1. CASE ThreadBegin
  BY <1>1, SMT DEF ThreadBegin
<1>2. CASE ThreadPoll
  BY <1>2, SMT DEF ThreadPoll
<1>3. CASE ThreadSkip
  BY <1>3, SMT DEF ThreadSkip, Mishap
<1>4. CASE ThreadPush
  BY <1>4, SMT DEF ThreadPush
<1>5. CASE ThreadHandler
  BY <1>5, SMT DEF ThreadHandler
<1>6. CASE ThreadDrained
  BY <1>6, SMT DEF ThreadDrained
<1> QED
  BY <1>1, <1>2, <1>3, <1>4, <1>5, <1>6 DEF Thread

\* Consumers and the bus only touch the queues.
LEMMA OthersKeep ==
  ChannelInvariant /\ (Arrive \/ ArriveError \/ \E c \in Consumers : Consume(c))
    => ChannelInvariant'
<1> SUFFICES ASSUME ChannelInvariant, Arrive \/ ArriveError \/ \E c \in Consumers : Consume(c)
             PROVE  ChannelInvariant'
  OBVIOUS
<1> USE SocketcanAssumption DEF ChannelInvariant, TypeOK, OwnerHolds, SetForStop, Together,
      NoThreadYet, ownerVars, resources, threadVars, consumerVars, busVars
<1>1. CASE Arrive
  BY <1>1, SMT DEF Arrive
<1>2. CASE ArriveError
  BY <1>2, SMT DEF ArriveError, Mishap
<1>3. CASE \E c \in Consumers : Consume(c)
  <2> PICK c \in Consumers : Consume(c)
    BY <1>3
  <2>1. CASE Wake(c)
    <3>1. bell' \in BOOLEAN
      BY <2>1, Zenon DEF Wake
    <3> QED
      BY <2>1, <3>1, SMT DEF Wake
  <2>2. CASE ReceiveEmpty(c)
    BY <2>2, SMT DEF ReceiveEmpty
  <2>3. CASE ReceivePop(c)
    BY <2>3, SMT DEF ReceivePop
  <2> QED
    BY <2>1, <2>2, <2>3 DEF Consume
<1> QED
  BY <1>1, <1>2, <1>3

(***************************************************************************)
(* The invariant of CanChannelSocketcan: descriptors, thread and flag fit  *)
(* the place of the owner in Open and Close, and the eventfd is set only   *)
(* for a stop.                                                             *)
(***************************************************************************)
THEOREM ChannelInOrder == Spec => []ChannelInvariant
<1>1. Init => ChannelInvariant
  BY ChannelInit
<1>2. ChannelInvariant /\ [Next]_vars => ChannelInvariant'
  <2> SUFFICES ASSUME ChannelInvariant, [Next]_vars PROVE ChannelInvariant'
    OBVIOUS
  <2>1. CASE Next
    BY <2>1, OwnerKeeps, ThreadKeeps, OthersKeep DEF Next
  <2>2. CASE UNCHANGED vars
    BY <2>2, SMT DEF vars, ownerVars, resources, threadVars, consumerVars, busVars,
       ChannelInvariant, TypeOK, OwnerHolds, SetForStop, Together, NoThreadYet
  <2> QED
    BY <2>1, <2>2
<1> QED
  BY <1>1, <1>2, PTL DEF Spec

(***************************************************************************)
(* Between two calls Open and Close leave everything or nothing behind.    *)
(***************************************************************************)
THEOREM OpensWholly == Spec => []AllOrNothing
<1>1. ChannelInvariant => AllOrNothing
  BY DEF ChannelInvariant, OwnerHolds, Together, AllOrNothing
<1> QED
  BY <1>1, ChannelInOrder, PTL

(***************************************************************************)
(* Neither descriptor is closed while the receive thread uses it.          *)
(***************************************************************************)
THEOREM DescriptorsOutliveThread == Spec => []ThreadHasDescriptors
<1>1. ChannelInvariant => ThreadHasDescriptors
  BY SMT DEF ChannelInvariant, TypeOK, OwnerHolds, Together, NoThreadYet, ThreadHasDescriptors
<1> QED
  BY <1>1, ChannelInOrder, PTL

(***************************************************************************)
(* The receive thread ends only when Close waits for it.                   *)
(***************************************************************************)
THEOREM ThreadEndsOnRequest == Spec => []EndsOnRequest
<1>1. ChannelInvariant => EndsOnRequest
  BY SMT DEF ChannelInvariant, OwnerHolds, SetForStop, EndsOnRequest
<1> QED
  BY <1>1, ChannelInOrder, PTL

-----------------------------------------------------------------------------
(* The channel as a message stream.                                        *)

\* At first no frame has arrived.
LEMMA QueuesInit == Init => QueuesInOrder
<1> SUFFICES ASSUME Init PROVE QueuesInOrder
  OBVIOUS
<1>1. arrived = <<>> /\ taken = <<>> /\ queue = <<>> /\ sock = <<>>
  BY DEF Init
<1>2. Len(arrived) <= MaxFrames
  BY <1>1, SocketcanAssumption
<1> QED
  BY <1>1, <1>2, EmptyInOrder DEF QueuesInOrder

\* A frame that arrives has a higher number than all that came before it.
LEMMA ArriveInOrder == TypeOK /\ QueuesInOrder /\ Arrive => QueuesInOrder'
<1> SUFFICES ASSUME TypeOK, QueuesInOrder, Arrive PROVE QueuesInOrder'
  OBVIOUS
<1> DEFINE n == Len(arrived)
<1>1. /\ n \in Nat /\ n + 1 \in Nat /\ n < MaxFrames
      /\ arrived' = Append(arrived, n + 1) /\ Len(arrived') = n + 1
      /\ sock' = Append(sock, n + 1) /\ UNCHANGED <<queue, taken>>
      /\ sock \in Seq(Nat) /\ queue \in Seq(Nat) /\ taken \in Seq(Nat) /\ arrived \in Seq(Nat)
  BY DEF Arrive, TypeOK, consumerVars
<1>2. n + 1 <= MaxFrames /\ \A k \in DOMAIN arrived' : arrived'[k] = k
  BY <1>1, SocketcanAssumption, SMTT(30) DEF QueuesInOrder
<1> HIDE DEF n
<1>3. n + 1 > n /\ n + 1 >= n /\ n + 1 <= n + 1
  BY <1>1
<1>4. UpTo(queue, n, Frame) /\ UpTo(sock, n, Frame) /\ UpTo(taken, n, Frame)
  BY DEF QueuesInOrder, n
<1>5. UpTo(queue, n + 1, Frame) /\ UpTo(sock', n + 1, Frame) /\ UpTo(taken, n + 1, Frame)
  BY <1>1, <1>3, <1>4, NewestInOrder
<1>6. /\ Before(queue, <<n + 1>>, Frame) /\ Before(sock, <<n + 1>>, Frame)
      /\ Before(taken, <<n + 1>>, Frame)
  BY <1>1, <1>3, <1>4, NewestInOrder
<1>7. Rising(sock', Frame) /\ Before(taken, sock', Frame) /\ Before(queue, sock', Frame)
  BY <1>1, <1>6, AppendInOrder DEF QueuesInOrder
<1> QED
  BY <1>1, <1>2, <1>5, <1>7 DEF QueuesInOrder

\* An error frame is none that has a place in the order.
LEMMA ArriveErrorInOrder == TypeOK /\ QueuesInOrder /\ ArriveError => QueuesInOrder'
<1> SUFFICES ASSUME TypeOK, QueuesInOrder, ArriveError PROVE QueuesInOrder'
  OBVIOUS
<1>1. /\ sock' = Append(sock, 0) /\ UNCHANGED <<queue, taken, arrived>>
      /\ sock \in Seq(Nat) /\ queue \in Seq(Nat) /\ taken \in Seq(Nat) /\ Len(arrived) \in Nat
  BY DEF ArriveError, TypeOK, consumerVars
<1>2. 0 \in Nat /\ 0 \notin Frame /\ Len(arrived) >= Len(arrived)
  BY <1>1 DEF Frame
<1>3. /\ UpTo(queue, Len(arrived), Frame) /\ UpTo(sock, Len(arrived), Frame)
      /\ UpTo(taken, Len(arrived), Frame)
  BY DEF QueuesInOrder
<1>4. /\ UpTo(sock', Len(arrived), Frame) /\ Before(sock, <<0>>, Frame)
      /\ Before(queue, <<0>>, Frame) /\ Before(taken, <<0>>, Frame)
  BY <1>1, <1>2, <1>3, NewestInOrder
<1>5. Rising(sock', Frame) /\ Before(taken, sock', Frame) /\ Before(queue, sock', Frame)
  BY <1>1, <1>2, <1>4, AppendInOrder DEF QueuesInOrder
<1> QED
  BY <1>1, <1>4, <1>5 DEF QueuesInOrder

\* What the receive thread skips leaves the order as it is.
LEMMA SkipInOrder == TypeOK /\ QueuesInOrder /\ ThreadSkip => QueuesInOrder'
<1> SUFFICES ASSUME TypeOK, QueuesInOrder, ThreadSkip PROVE QueuesInOrder'
  OBVIOUS
<1>1. /\ sock' = Tail(sock) /\ UNCHANGED <<queue, taken, arrived>> /\ sock # <<>>
      /\ sock \in Seq(Nat) /\ queue \in Seq(Nat) /\ taken \in Seq(Nat)
  BY DEF ThreadSkip, TypeOK, consumerVars
<1>2. /\ UpTo(sock', Len(arrived), Frame) /\ Rising(sock', Frame)
      /\ Before(taken, sock', Frame) /\ Before(queue, sock', Frame)
  BY <1>1, TailInOrder DEF QueuesInOrder
<1> QED
  BY <1>1, <1>2 DEF QueuesInOrder

\* The frame that the receive thread puts into the queue is the oldest in the
\* socket and the newest in the queue.
LEMMA PushInOrder == TypeOK /\ QueuesInOrder /\ ThreadPush => QueuesInOrder'
<1> SUFFICES ASSUME TypeOK, QueuesInOrder, ThreadPush PROVE QueuesInOrder'
  OBVIOUS
<1> DEFINE e == Head(sock)
           rest == Tail(sock)
<1>1. /\ sock' = rest /\ queue' = Append(queue, e) /\ UNCHANGED <<taken, arrived>> /\ sock # <<>>
      /\ sock \in Seq(Nat) /\ queue \in Seq(Nat) /\ taken \in Seq(Nat)
      /\ e # 0 /\ e \in Nat /\ rest \in Seq(Nat)
      /\ Len(arrived) \in Nat
  BY DEF ThreadPush, TypeOK, consumerVars
<1>2. /\ UpTo(rest, Len(arrived), Frame) /\ UpTo(<<e>>, Len(arrived), Frame)
      /\ Rising(rest, Frame) /\ Before(<<e>>, rest, Frame)
      /\ Before(taken, rest, Frame) /\ Before(queue, rest, Frame)
      /\ Before(taken, <<e>>, Frame) /\ Before(queue, <<e>>, Frame)
  BY <1>1, TailInOrder DEF QueuesInOrder
<1> HIDE DEF e, rest
<1>3. e \in Frame /\ e <= Len(arrived)
  <2>1. DOMAIN <<e>> = {1} /\ <<e>>[1] = e
    OBVIOUS
  <2> QED
    BY <1>1, <1>2, <2>1 DEF UpTo, Frame
<1>4. \A k \in DOMAIN queue' : queue'[k] \in Frame
  BY <1>1, <1>3 DEF QueuesInOrder
<1>5. UpTo(queue', Len(arrived), Frame)
  <2>1. UpTo(queue, Len(arrived), Frame) /\ Len(arrived) >= Len(arrived)
    BY <1>1 DEF QueuesInOrder
  <2> QED
    BY <1>1, <1>3, <2>1, NewestInOrder
<1>6. Rising(queue', Frame) /\ Before(taken, queue', Frame) /\ Before(queue', rest, Frame)
  BY <1>1, <1>2, AppendInOrder DEF QueuesInOrder
<1> QED
  BY <1>1, <1>2, <1>4, <1>5, <1>6 DEF QueuesInOrder

\* The message that a consumer takes is the oldest in the queue and newer than
\* all that were taken.
LEMMA PopInOrder ==
  ASSUME TypeOK, QueuesInOrder, NEW c \in Consumers, ReceivePop(c)
  PROVE  /\ QueuesInOrder'
         /\ Head(queue) \in LastOr0(taken) + 1 .. Len(arrived)
         /\ arrived[Head(queue)] = Head(queue)
<1> DEFINE e == Head(queue)
           rest == Tail(queue)
<1>1. /\ queue' = rest /\ taken' = Append(taken, e) /\ UNCHANGED <<sock, arrived>> /\ queue # <<>>
      /\ sock \in Seq(Nat) /\ queue \in Seq(Nat) /\ taken \in Seq(Nat) /\ arrived \in Seq(Nat)
      /\ e \in Nat /\ rest \in Seq(Nat) /\ e = queue[1] /\ 1 \in DOMAIN queue
      /\ Len(arrived) \in Nat
  BY DEF ReceivePop, TypeOK, busVars
<1>2. /\ UpTo(rest, Len(arrived), Frame) /\ UpTo(<<e>>, Len(arrived), Frame)
      /\ Rising(rest, Frame) /\ Before(<<e>>, rest, Frame)
      /\ Before(taken, rest, Frame) /\ Before(taken, <<e>>, Frame)
      /\ Before(rest, sock, Frame) /\ Before(<<e>>, sock, Frame)
  BY <1>1, TailInOrder DEF QueuesInOrder
<1>3. \A k \in DOMAIN rest : rest[k] \in Frame
  BY <1>1 DEF QueuesInOrder
<1>4. e \in Frame
  BY <1>1 DEF QueuesInOrder
<1> HIDE DEF e, rest
<1>5. e > 0 /\ e <= Len(arrived)
  <2>1. DOMAIN <<e>> = {1} /\ <<e>>[1] = e
    OBVIOUS
  <2> QED
    BY <1>1, <1>2, <1>4, <2>1 DEF UpTo, Frame
<1>6. \A k \in DOMAIN taken' : taken'[k] \in Frame
  <2>1. taken' = Append(taken, e) /\ taken \in Seq(Nat) /\ e \in Nat
    BY <1>1
  <2>2. \A k \in DOMAIN taken' : (k \in DOMAIN taken /\ taken'[k] = taken[k]) \/ taken'[k] = e
    BY <2>1
  <2> QED
    BY <2>2, <1>4 DEF QueuesInOrder
<1>7. UpTo(taken', Len(arrived), Frame)
  <2>1. UpTo(taken, Len(arrived), Frame) /\ Len(arrived) >= Len(arrived)
    BY <1>1 DEF QueuesInOrder
  <2> QED
    BY <1>1, <1>5, <2>1, NewestInOrder
<1>8. Before(taken', rest, Frame) /\ Before(taken', sock, Frame)
  BY <1>1, <1>2, AppendInOrder DEF QueuesInOrder
<1>9. QueuesInOrder'
  BY <1>1, <1>2, <1>3, <1>6, <1>7, <1>8 DEF QueuesInOrder
<1>10. LastOr0(taken) \in Nat /\ LastOr0(taken) < e
  BY <1>1, <1>2, <1>4, <1>5, LastIsHighest DEF QueuesInOrder
<1>11. e \in DOMAIN arrived
  BY <1>1, <1>5
<1>12. arrived[e] = e
  BY <1>11 DEF QueuesInOrder
<1> QED
  BY <1>1, <1>5, <1>9, <1>10, <1>12 DEF e

\* Open and Close empty the queue and the socket or leave them alone.
LEMMA OwnerInOrder ==
  ASSUME QueuesInOrder, Owner
  PROVE  QueuesInOrder' /\ UNCHANGED <<arrived, taken>>
<1>1. UNCHANGED <<arrived, taken>> /\ queue' \in {queue, <<>>} /\ sock' \in {sock, <<>>}
  BY DEF Owner, OpenBegin, OpenRefused, OpenFails, OpenDescriptors, StopSignal, StopJoin,
    OpenThread, OpenEnd, CloseBegin, CloseEnd, ClearQueue, consumerVars, busVars
<1>2. CASE queue' = queue /\ sock' = sock
  BY <1>1, <1>2 DEF QueuesInOrder
<1>3. CASE queue' = queue /\ sock' = <<>>
  BY <1>1, <1>3, EmptyInOrder DEF QueuesInOrder
<1>4. CASE queue' = <<>> /\ sock' = sock
  BY <1>1, <1>4, EmptyInOrder DEF QueuesInOrder
<1>5. CASE queue' = <<>> /\ sock' = <<>>
  BY <1>1, <1>5, EmptyInOrder DEF QueuesInOrder
<1> QED
  BY <1>1, <1>2, <1>3, <1>4, <1>5

\* Every step keeps the order, and is a step of the stream or none.
LEMMA StepInOrder ==
  ASSUME TypeOK, QueuesInOrder, [Next]_vars
  PROVE  QueuesInOrder' /\ [Stream!Next]_(Stream!vars)
<1> DEFINE S == {"bus"}
           sent == [p \in S |-> arrived]
           passed == [p \in S |-> LastOr0(taken)]
           got == [p \in S |-> taken]
<1>1. ASSUME UNCHANGED <<arrived, taken>> PROVE [Stream!Next]_(Stream!vars)
  BY <1>1 DEF Stream!vars
<1>2. CASE Owner
  BY <1>2, <1>1, OwnerInOrder
<1>3. CASE Thread
  <2>1. UNCHANGED <<arrived, taken>>
    BY <1>3 DEF Thread, ThreadBegin, ThreadPoll, ThreadSkip, ThreadPush, ThreadHandler,
      ThreadDrained, consumerVars, busVars
  <2>2. CASE ThreadSkip
    BY <2>1, <2>2, <1>1, SkipInOrder
  <2>3. CASE ThreadPush
    BY <2>1, <2>3, <1>1, PushInOrder
  <2>4. CASE ThreadBegin \/ ThreadPoll \/ ThreadHandler \/ ThreadDrained
    <3>1. UNCHANGED <<arrived, taken, queue, sock>>
      BY <2>4 DEF ThreadBegin, ThreadPoll, ThreadHandler, ThreadDrained, consumerVars, busVars
    <3> QED
      BY <2>1, <3>1, <1>1 DEF QueuesInOrder
  <2> QED
    BY <1>3, <2>2, <2>3, <2>4 DEF Thread
<1>4. CASE Arrive
  <2>1. QueuesInOrder'
    BY <1>4, ArriveInOrder
  <2>2. /\ arrived' = Append(arrived, Len(arrived) + 1) /\ UNCHANGED taken
        /\ Len(arrived) + 1 \in 1 .. MaxFrames
    BY <1>4, SocketcanAssumption DEF Arrive, consumerVars, TypeOK
  <2>3. sent' = [sent EXCEPT !["bus"] = Append(@, Len(arrived) + 1)]
    BY <2>2
  <2>4. UNCHANGED <<passed, got>>
    BY <2>2
  <2>5. Stream!Send("bus")
    BY <2>2, <2>3, <2>4 DEF Stream!Send
  <2> QED
    BY <2>1, <2>5 DEF Stream!Next
<1>5. CASE ArriveError
  BY <1>5, <1>1, ArriveErrorInOrder DEF ArriveError, consumerVars
<1>6. CASE \E c \in Consumers : Consume(c)
  <2> PICK c \in Consumers : Consume(c)
    BY <1>6
  <2>1. CASE Wake(c) \/ ReceiveEmpty(c)
    <3>1. UNCHANGED <<arrived, taken, queue, sock>>
      BY <2>1 DEF Wake, ReceiveEmpty, busVars
    <3> QED
      BY <3>1, <1>1 DEF QueuesInOrder
  <2>2. CASE ReceivePop(c)
    <3> DEFINE e == Head(queue)
    <3>1. /\ QueuesInOrder' /\ e \in LastOr0(taken) + 1 .. Len(arrived) /\ arrived[e] = e
      BY <2>2, PopInOrder
    <3>2. taken' = Append(taken, e) /\ UNCHANGED arrived /\ taken \in Seq(Nat) /\ e \in Nat
      BY <2>2 DEF ReceivePop, busVars, TypeOK
    <3> HIDE DEF e
    <3>3. LastOr0(taken') = e
      BY <3>2 DEF LastOr0
    <3>4. passed' = [passed EXCEPT !["bus"] = e]
      BY <3>3
    <3>5. got' = [got EXCEPT !["bus"] = Append(@, sent["bus"][e])]
      BY <3>1, <3>2
    <3>6. UNCHANGED sent
      BY <3>2
    <3>7. Stream!Deliver("bus")
      BY <3>1, <3>4, <3>5, <3>6 DEF Stream!Deliver
    <3> QED
      BY <3>1, <3>7 DEF Stream!Next
  <2> QED
    BY <2>1, <2>2 DEF Consume
<1>7. CASE UNCHANGED vars
  BY <1>7, <1>1 DEF vars, consumerVars, busVars, QueuesInOrder
<1> QED
  BY <1>2, <1>3, <1>4, <1>5, <1>6, <1>7 DEF Next

(***************************************************************************)
(* The channel implements a lossy message stream: consumers get the frames *)
(* in the order of their arrival and none twice, whatever Open, Close, the *)
(* receive thread and the consumers do in between.                         *)
(***************************************************************************)
THEOREM ChannelIsStream == Spec => ReceivesInOrder
<1>1. Init => Stream!Init
  <2> SUFFICES ASSUME Init PROVE Stream!Init
    OBVIOUS
  <2>1. arrived = <<>> /\ taken = <<>> /\ LastOr0(taken) = 0
    BY DEF Init, LastOr0
  <2> QED
    BY <2>1 DEF Stream!Init
<1>2. TypeOK /\ QueuesInOrder /\ [Next]_vars => QueuesInOrder' /\ [Stream!Next]_(Stream!vars)
  BY StepInOrder
<1>3. Spec => []TypeOK
  <2>1. ChannelInvariant => TypeOK
    BY DEF ChannelInvariant
  <2> QED
    BY <2>1, ChannelInOrder, PTL
<1> QED
  BY <1>1, <1>2, <1>3, QueuesInit, PTL DEF Spec, ReceivesInOrder, Stream!Spec
=============================================================================
