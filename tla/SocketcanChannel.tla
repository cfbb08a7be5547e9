-------------------------- MODULE SocketcanChannel --------------------------
(***************************************************************************)
(* A channel of the SocketCAN backend (CanChannelSocketcan) with what it   *)
(* stands on: CanChannelBase, which owns the receive thread, and the       *)
(* SharedQueue between this thread and the callers of ReceiveMessage.      *)
(*                                                                         *)
(* Three kinds of threads meet: the owner, which calls Open and Close (the *)
(* destructor calls Close as well), the receive thread, and consumers.  A  *)
(* consumer is the application: woken up by the receive handler it calls   *)
(* ReceiveMessage until it returns null.                                   *)
(***************************************************************************)
EXTENDS Naturals, Sequences, Order

CONSTANTS
  Consumers,     \* threads that call ReceiveMessage
  Quiesce,       \* TRUE: no consumer is in a call while the owner is in one
  MaxOpens,      \* how often the channel is opened at most
  MaxFrames,     \* how many frames arrive on the bus at most
  Mishaps,       \* kinds of mishap that may happen
  MaxMishaps     \* how many mishaps happen at most

ASSUME SocketcanAssumption ==
  /\ Quiesce \in BOOLEAN
  /\ MaxOpens \in Nat /\ MaxFrames \in Nat /\ MaxMishaps \in Nat
  /\ Mishaps \subseteq {"open", "alloc", "error"}

VARIABLES
  owner,     \* where the owner is in Open or Close
  call,      \* which of the two calls threadStop
  fd,        \* _fd is open
  efd,       \* _thread_fd: none, or an eventfd that is quiet or set
  started,   \* _thread_started
  thread,    \* where the receive thread is; none: not joinable
  stopSeen,  \* the last poll reported the eventfd
  sock,      \* frames in the socket, 0 for an error frame
  queue,     \* m_receive_queue
  bell,      \* the receive handler was called since a consumer woke up
  consumer,  \* where each consumer is
  opens,     \* how often the channel was opened
  arrived,   \* history: the frames that came in over the socket
  taken,     \* history: the messages that consumers got
  mishaps    \* how many mishaps have happened

ownerVars == <<owner, call, opens>>
resources == <<fd, efd, started>>
threadVars == <<thread, stopSeen>>
consumerVars == <<bell, consumer, taken>>
busVars == <<sock, arrived>>
vars == <<ownerVars, resources, threadVars, consumerVars, busVars, queue, mishaps>>

Init ==
  /\ owner = "idle" /\ call = "Close" /\ opens = 0
  /\ fd = FALSE /\ efd = "none" /\ started = FALSE
  /\ thread = "none" /\ stopSeen = FALSE
  /\ sock = <<>> /\ arrived = <<>>
  /\ queue = <<>> /\ bell = FALSE
  /\ consumer = [c \in Consumers |-> "asleep"] /\ taken = <<>>
  /\ mishaps = 0

Mishap(kind) ==
  /\ kind \in Mishaps
  /\ mishaps < MaxMishaps
  /\ mishaps' = mishaps + 1

\* SharedQueue::clear drops the pointers; nobody frees the messages.
ClearQueue == queue' = <<>>

-----------------------------------------------------------------------------
(* The owner.  threadStop is called by Close and, through threadStart, by  *)
(* Open before there is a thread.                                          *)

MayCall == owner = "idle" /\ (Quiesce => \A c \in Consumers : consumer[c] # "popping")

OpenBegin ==
  /\ MayCall
  /\ opens < MaxOpens
  /\ ClearQueue
  /\ owner' = "opening" /\ call' = "Open" /\ opens' = opens + 1
  /\ UNCHANGED <<resources, threadVars, consumerVars, busVars, mishaps>>

\* The channel is open already.
OpenRefused ==
  /\ owner = "opening"
  /\ fd
  /\ owner' = "idle"
  /\ UNCHANGED <<call, opens, resources, threadVars, consumerVars, busVars, queue, mishaps>>

\* The interface, the socket, bind or eventfd fails: what was opened is closed.
OpenFails ==
  /\ owner = "opening"
  /\ Mishap("open")
  /\ owner' = "idle"
  /\ UNCHANGED <<call, opens, resources, threadVars, consumerVars, busVars, queue>>

OpenDescriptors ==
  /\ owner = "opening"
  /\ ~ fd
  /\ fd' = TRUE /\ efd' = "quiet"
  /\ owner' = "stopping"
  /\ UNCHANGED <<call, opens, started, threadVars, consumerVars, busVars, queue, mishaps>>

\* threadStop: wake the thread up, if there is one ...
StopSignal ==
  /\ owner = "stopping"
  /\ efd' = IF started /\ efd # "none" THEN "set" ELSE efd
  /\ owner' = "joining"
  /\ UNCHANGED <<call, opens, fd, started, threadVars, consumerVars, busVars, queue, mishaps>>

\* Faulty: the thread is detached.
StopDetach ==
  /\ owner = "joining"
  /\ started' = FALSE
  /\ owner' = IF call = "Open" THEN "starting" ELSE "closing"
  /\ UNCHANGED <<call, opens, fd, efd, threadVars, consumerVars, busVars, queue, mishaps>>
\* ... and wait for its end.
StopJoin ==
  /\ owner = "joining"
  /\ thread \in {"none", "ended"}
  /\ thread' = "none"
  /\ started' = FALSE
  /\ owner' = IF call = "Open" THEN "starting" ELSE "closing"
  /\ UNCHANGED <<call, opens, fd, efd, stopSeen, consumerVars, busVars, queue, mishaps>>

\* Faulty: the thread is not marked as started.
OpenThreadUnmarked ==
  /\ owner = "starting"
  /\ thread' = "new" /\ stopSeen' = FALSE
  /\ owner' = "idle"
  /\ UNCHANGED <<call, opens, resources, consumerVars, busVars, queue, mishaps>>
OpenThread ==
  /\ owner = "starting"
  /\ thread' = "new" /\ stopSeen' = FALSE
  /\ owner' = "marking"
  /\ UNCHANGED <<call, opens, resources, consumerVars, busVars, queue, mishaps>>

OpenEnd ==
  /\ owner = "marking"
  /\ started' = TRUE
  /\ owner' = "idle"
  /\ UNCHANGED <<call, opens, fd, efd, threadVars, consumerVars, busVars, queue, mishaps>>

CloseBegin ==
  /\ MayCall
  /\ owner' = "stopping" /\ call' = "Close"
  /\ UNCHANGED <<opens, resources, threadVars, consumerVars, busVars, queue, mishaps>>

CloseEnd ==
  /\ owner = "closing"
  /\ fd' = FALSE /\ efd' = "none" /\ sock' = <<>>
  /\ ClearQueue
  /\ owner' = "idle"
  /\ UNCHANGED <<call, opens, started, threadVars, consumerVars, arrived, mishaps>>

Owner ==
  \/ OpenBegin \/ OpenRefused \/ OpenFails \/ OpenDescriptors \/ StopSignal \/ StopJoin
  \/ OpenThread \/ OpenEnd \/ CloseBegin \/ CloseEnd

-----------------------------------------------------------------------------
(* The receive thread.                                                     *)

ThreadBegin ==
  /\ thread = "new"
  /\ thread' = IF efd = "none" THEN "ended" ELSE "poll"
  /\ UNCHANGED <<ownerVars, resources, stopSeen, consumerVars, busVars, queue, mishaps>>

ThreadPoll ==
  /\ thread = "poll"
  /\ sock # <<>> \/ efd = "set"
  /\ stopSeen' = (efd = "set")
  /\ thread' = IF sock # <<>> THEN "read" ELSE "ended"
  /\ UNCHANGED <<ownerVars, resources, consumerVars, busVars, queue, mishaps>>

\* An error frame, or no memory for the message.
ThreadSkip ==
  /\ thread = "read"
  /\ sock # <<>>
  /\ sock' = Tail(sock)
  /\ \/ Head(sock) = 0 /\ UNCHANGED mishaps
     \/ Head(sock) # 0 /\ Mishap("alloc")
  /\ UNCHANGED <<ownerVars, resources, threadVars, consumerVars, arrived, queue>>

ThreadPush ==
  /\ thread = "read"
  /\ sock # <<>>
  /\ Head(sock) # 0
  /\ sock' = Tail(sock)
  /\ queue' = Append(queue, Head(sock))
  /\ thread' = "handler"
  /\ UNCHANGED <<ownerVars, resources, stopSeen, consumerVars, arrived, mishaps>>

\* Faulty: the handler is called for the last frame in the socket only.
ThreadHandlerLast ==
  /\ thread = "handler"
  /\ bell' = (bell \/ sock = <<>>)
  /\ thread' = "read"
  /\ UNCHANGED <<ownerVars, resources, stopSeen, consumer, taken, busVars, queue, mishaps>>
ThreadHandler ==
  /\ thread = "handler"
  /\ bell' = TRUE
  /\ thread' = "read"
  /\ UNCHANGED <<ownerVars, resources, stopSeen, consumer, taken, busVars, queue, mishaps>>

\* read fails: the socket is empty.
ThreadDrained ==
  /\ thread = "read"
  /\ sock = <<>>
  /\ thread' = IF stopSeen THEN "ended" ELSE "poll"
  /\ UNCHANGED <<ownerVars, resources, stopSeen, consumerVars, busVars, queue, mishaps>>

Thread ==
  ThreadBegin \/ ThreadPoll \/ ThreadSkip \/ ThreadPush \/ ThreadHandler \/ ThreadDrained

-----------------------------------------------------------------------------
(* The consumers.  ReceiveMessage looks whether the queue is empty and     *)
(* pops in two critical sections; pop blocks on an empty queue.            *)

Wake(c) ==
  /\ consumer[c] = "asleep"
  /\ bell
  /\ bell' = FALSE
  /\ consumer' = [consumer EXCEPT ![c] = "draining"]
  /\ UNCHANGED <<ownerVars, resources, threadVars, taken, busVars, queue, mishaps>>

ReceiveEmpty(c) ==
  /\ consumer[c] = "draining"
  /\ Quiesce => owner = "idle"
  /\ consumer' = [consumer EXCEPT ![c] = IF queue = <<>> THEN "asleep" ELSE "popping"]
  /\ UNCHANGED <<ownerVars, resources, threadVars, bell, taken, busVars, queue, mishaps>>

\* Faulty: the newest message first.
ReceivePopLast(c) ==
  /\ consumer[c] = "popping"
  /\ queue # <<>>
  /\ taken' = Append(taken, queue[Len(queue)])
  /\ queue' = SubSeq(queue, 1, Len(queue) - 1)
  /\ consumer' = [consumer EXCEPT ![c] = "draining"]
  /\ UNCHANGED <<ownerVars, resources, threadVars, bell, busVars, mishaps>>
ReceivePop(c) ==
  /\ consumer[c] = "popping"
  /\ queue # <<>>
  /\ taken' = Append(taken, Head(queue))
  /\ queue' = Tail(queue)
  /\ consumer' = [consumer EXCEPT ![c] = "draining"]
  /\ UNCHANGED <<ownerVars, resources, threadVars, bell, busVars, mishaps>>

Consume(c) == Wake(c) \/ ReceiveEmpty(c) \/ ReceivePop(c)

-----------------------------------------------------------------------------
(* The bus, which reaches a socket that is open.                           *)

Arrive ==
  /\ fd
  /\ Len(arrived) < MaxFrames
  /\ arrived' = Append(arrived, Len(arrived) + 1)
  /\ sock' = Append(sock, Len(arrived) + 1)
  /\ UNCHANGED <<ownerVars, resources, threadVars, consumerVars, queue, mishaps>>

ArriveError ==
  /\ fd
  /\ Mishap("error")
  /\ sock' = Append(sock, 0)
  /\ UNCHANGED <<ownerVars, resources, threadVars, consumerVars, arrived, queue>>

Next ==
  \/ Owner \/ Thread \/ Arrive \/ ArriveError
  \/ \E c \in Consumers : Consume(c)

Spec == Init /\ [][Next]_vars

(***************************************************************************)
(* Fairness: the threads run.  A call that the owner has begun goes on;    *)
(* nobody has to begin one, and no frame has to arrive.                    *)
(***************************************************************************)
FairSpec ==
  /\ Spec
  /\ WF_vars(owner # "idle" /\ Owner)
  /\ WF_vars(Thread)
  /\ \A c \in Consumers : WF_vars(Consume(c))

-----------------------------------------------------------------------------
(* Properties.                                                             *)

TypeOK ==
  /\ owner \in {"idle", "opening", "stopping", "joining", "starting", "marking", "closing"}
  /\ call \in {"Open", "Close"}
  /\ fd \in BOOLEAN /\ efd \in {"none", "quiet", "set"} /\ started \in BOOLEAN
  /\ thread \in {"none", "new", "poll", "read", "handler", "ended"}
  /\ stopSeen \in BOOLEAN
  /\ sock \in Seq(Nat) /\ arrived \in Seq(Nat)
  /\ queue \in Seq(Nat) /\ taken \in Seq(Nat)
  /\ bell \in BOOLEAN
  /\ consumer \in [Consumers -> {"asleep", "draining", "popping"}]
  /\ opens \in 0 .. MaxOpens
  /\ mishaps \in 0 .. MaxMishaps

(***************************************************************************)
(* Between two calls of the owner a channel is open or closed and nothing  *)
(* in between, however the calls before ended: socket, eventfd, thread and *)
(* the flag _thread_started are there all together or not at all.          *)
(***************************************************************************)
AllOrNothing ==
  owner = "idle" => /\ fd <=> efd # "none"
                    /\ fd <=> started
                    /\ fd <=> thread # "none"

(***************************************************************************)
(* The receive thread only ever uses descriptors that are open: neither is *)
(* closed, nor given to somebody else by the system, while it runs.        *)
(***************************************************************************)
ThreadHasDescriptors ==
  thread \in {"new", "poll", "read", "handler"} => fd /\ efd # "none"

(***************************************************************************)
(* "a value left in the descriptor would end the new thread at once": the  *)
(* receive thread of an open channel ends only when the owner stops it.    *)
(***************************************************************************)
EndsOnRequest ==
  thread = "ended" => owner = "joining" /\ call = "Close"

(***************************************************************************)
(* What keeps the three true: for every place the owner can be at, what    *)
(* there is of socket, eventfd, flag and thread, and who has set the       *)
(* eventfd.                                                                *)
(***************************************************************************)
Together == (fd <=> efd # "none") /\ (fd <=> started) /\ (fd <=> thread # "none")
NoThreadYet == fd /\ efd = "quiet" /\ ~ started /\ thread = "none"
OwnerHolds ==
  /\ owner = "idle" => Together
  /\ owner = "opening" => Together /\ call = "Open"
  /\ owner \in {"stopping", "joining"} => IF call = "Open" THEN NoThreadYet ELSE Together
  /\ owner = "starting" => NoThreadYet /\ call = "Open"
  /\ owner = "marking" => fd /\ efd = "quiet" /\ thread # "none" /\ call = "Open"
  /\ owner = "closing" => ~ started /\ thread = "none" /\ call = "Close" /\ (fd <=> efd # "none")
SetForStop ==
  /\ efd = "set" => owner \in {"joining", "closing"} /\ call = "Close"
  /\ thread # "none" /\ stopSeen => efd = "set"
  /\ thread = "ended" => efd = "set"

\* The inductive invariant of the channel.
ChannelInvariant == TypeOK /\ OwnerHolds /\ SetForStop

(***************************************************************************)
(* "a stop request made right after Open() would otherwise find nothing to *)
(* write to and wait for the thread forever": every call of Open and Close *)
(* returns, wherever the thread is when it is made.                        *)
(***************************************************************************)
CallsReturn == owner # "idle" ~> owner = "idle"

(***************************************************************************)
(* A consumer that receives until null after each call of the receive      *)
(* handler leaves nothing behind: every message that stays in the queue of *)
(* an open channel is taken.                                               *)
(***************************************************************************)
QueueEmpties == queue # <<>> ~> queue = <<>>

\* The channel as a message stream: what comes in over the socket is what
\* consumers get.
Stream == INSTANCE MessageStream WITH
  Streams <- {"bus"}, Messages <- 1 .. MaxFrames, Lossy <- TRUE,
  sent <- [p \in {"bus"} |-> arrived],
  passed <- [p \in {"bus"} |-> LastOr0(taken)],
  got <- [p \in {"bus"} |-> taken]

(***************************************************************************)
(* Consumers get frames in the order they came in and none of them twice,  *)
(* also across closing and opening again.                                  *)
(***************************************************************************)
ReceivesInOrder == Stream!Spec

(***************************************************************************)
(* Why it is so: the messages taken, the queue and the socket hold frames  *)
(* in the order of their arrival, and what is further on arrived earlier.  *)
(***************************************************************************)
Frame == Nat \ {0}
QueuesInOrder ==
  /\ Len(arrived) <= MaxFrames /\ \A k \in DOMAIN arrived : arrived[k] = k
  /\ \A k \in DOMAIN taken : taken[k] \in Frame
  /\ \A k \in DOMAIN queue : queue[k] \in Frame
  /\ UpTo(queue, Len(arrived), Frame) /\ UpTo(sock, Len(arrived), Frame)
  /\ UpTo(taken, Len(arrived), Frame)
  /\ Rising(queue, Frame) /\ Rising(sock, Frame)
  /\ Before(taken, queue, Frame) /\ Before(taken, sock, Frame) /\ Before(queue, sock, Frame)
=============================================================================
