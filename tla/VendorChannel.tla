--------------------------- MODULE VendorChannel ---------------------------
(***************************************************************************)
(* A channel of one of the Windows backends (PEAK, Waveshare, Vector,      *)
(* Marathon, IXXAT) behind the adapter that makes it a channel of the C    *)
(* interface: CanChannelAdapter, CanChannelBase with its thread and the    *)
(* class of the backend.  The vendor library is external: a call of it     *)
(* succeeds or fails, and the frames it has received wait in its own queue *)
(* until the thread reads them.                                            *)
(*                                                                         *)
(* Two threads meet: the owner, which creates, initialises, opens, closes  *)
(* and destroys the channel in the order of CanManager and receives in     *)
(* between, and the thread of the channel, which reads the library, fills  *)
(* the queue and calls the receive handler.                                *)
(***************************************************************************)
EXTENDS Naturals, Sequences, Order

CONSTANTS
  MaxOpens,      \* how often the channel is opened at most
  MaxFrames,     \* how many frames arrive on the bus at most
  Mishaps,       \* kinds of mishap that may happen
  MaxMishaps     \* how many mishaps happen at most

ASSUME VendorAssumption ==
  /\ MaxOpens \in Nat /\ MaxFrames \in Nat /\ MaxMishaps \in Nat
  /\ Mishaps \subseteq {"driver", "error", "status"}

Backends == {"peak", "waveshare", "vector", "marathon", "ixxat"}

\* CanChannelIxxat::DeInit releases all but the event.
IxxatDeInit ==
  {"reader", "writer", "control", "line", "channel", "socket", "bal", "device", "manager"}

(***************************************************************************)
(* What a class does with its library.  init and open: what each call      *)
(* acquires when it succeeds, in the order of the code; the first one that *)
(* fails ends Init or Open.  close: what Close gives back after it has     *)
(* joined the thread; deinit: what DeInit gives back.                      *)
(***************************************************************************)
Peak == [init |-> <<>>, open |-> << {}, {"line"} >>, close |-> {"line"}, deinit |-> {}]
Waveshare ==
  [init |-> <<>>, open |-> << {}, {"device"}, {}, {}, {"line"} >>,
   close |-> {"device", "line"}, deinit |-> {}]
Vector ==
  [init |-> << {"port"}, {}, {}, {"handle"} >>, open |-> << {"line"}, {} >>,
   close |-> {"line"}, deinit |-> {}]
Marathon ==
  [init |-> << {"channel"}, {} >>, open |-> << {"line"} >>,
   close |-> {"line"}, deinit |-> {"channel"}]
Ixxat ==
  [init |-> << {"manager"}, {"device"}, {"bal"}, {"socket"}, {"control"}, {}, {"channel"},
               {}, {"reader"}, {"writer", "event"}, {}, {}, {}, {} >>,
   open |-> << {} >>, close |-> {},
   deinit |-> IxxatDeInit]

Class ==
  [peak |-> Peak, waveshare |-> Waveshare, vector |-> Vector, marathon |-> Marathon,
   ixxat |-> Ixxat]
Granted(calls, k) == UNION {calls[i] : i \in 1 .. k}

(***************************************************************************)
(* The thread of a class.  uses: what of the library; waits: for an event, *)
(* else it asks for frames; drains: reads on until nothing is left; many:  *)
(* takes several frames with one call; skips: what is no data frame.       *)
(***************************************************************************)
PeakThread ==
  [uses |-> {"line"}, waits |-> TRUE, drains |-> TRUE, many |-> FALSE, skips |-> TRUE]
WaveshareThread ==
  [uses |-> {"device", "line"}, waits |-> FALSE, drains |-> TRUE, many |-> TRUE, skips |-> FALSE]
VectorThread ==
  [uses |-> {"handle", "line"}, waits |-> TRUE, drains |-> TRUE, many |-> FALSE, skips |-> TRUE]
MarathonThread ==
  [uses |-> {"channel", "line"}, waits |-> FALSE, drains |-> FALSE, many |-> FALSE,
   skips |-> FALSE]
IxxatThread ==
  [uses |-> {"reader", "event"}, waits |-> TRUE, drains |-> FALSE, many |-> TRUE, skips |-> TRUE]

ThreadOf ==
  [peak |-> PeakThread, waveshare |-> WaveshareThread, vector |-> VectorThread,
   marathon |-> MarathonThread, ixxat |-> IxxatThread]

Other == 0                  \* an error frame or an event that is no frame
Garbage == MaxFrames + 1    \* a frame made from memory that nobody has written

VARIABLES
  backend,   \* the class of the channel
  object,    \* none, made, ready (Init succeeded), failed (Init did not), gone
  owner,     \* where the owner is in a call
  call,      \* which call
  held,      \* what the channel holds of the vendor library
  abort,     \* _thread_abort
  thread,    \* where the thread is; none: not joinable
  next,      \* where it goes on after the frames at hand
  again,     \* check_again of the IXXAT thread
  batch,     \* the frames at hand: read from the library, not yet in the queue
  event,     \* none: not registered, or an auto-reset event that is quiet or set
  loaded,    \* the handler that adapter_receive_handler has read
  func,      \* receive_func of the adapter
  cookie,    \* receive_cookie of the adapter
  driver,    \* frames in the queue of the vendor library
  queue,     \* m_receive_queue
  opens,     \* how often the channel was opened
  called,    \* history: the calls of the receive handler
  arrived,   \* history: the frames that came in over the bus
  taken,     \* history: the frames that the owner has received, without garbage
  mishaps    \* how many mishaps have happened

ownerVars == <<backend, object, owner, call, opens>>
threadVars == <<thread, next, again, batch, loaded>>
handlerVars == <<func, cookie>>
busVars == <<driver, event, arrived>>
vars == <<ownerVars, held, abort, threadVars, handlerVars, busVars, queue, called, taken, mishaps>>

Init ==
  /\ backend \in Backends
  /\ object = "none" /\ owner = "idle" /\ call = "none" /\ opens = 0
  /\ held = {} /\ abort = FALSE
  /\ thread = "none" /\ next = "reading" /\ again = FALSE /\ batch = <<>> /\ loaded = "none"
  /\ func = "none" /\ cookie = "none" /\ called = {}
  /\ driver = <<>> /\ event = "none" /\ arrived = <<>>
  /\ queue = <<>> /\ taken = <<>> /\ mishaps = 0

Mishap(kind) ==
  /\ kind \in Mishaps
  /\ mishaps < MaxMishaps
  /\ mishaps' = mishaps + 1

Exists == object \in {"made", "ready", "failed"}

-----------------------------------------------------------------------------
(* The owner: create, init, set_receive_handler, open, close, destroy.     *)

Create ==
  /\ object = "none"
  /\ object' = "made"
  /\ UNCHANGED <<backend, owner, call, opens, held, abort, threadVars, handlerVars, busVars, queue,
                 called, taken, mishaps>>

\* IXXAT gives its event to the reader; a failing call leaves what was acquired before it.
InitChannel ==
  LET calls == Class[backend].init IN
  /\ object = "made" /\ owner = "idle"
  /\ \E k \in 0 .. Len(calls) :
       /\ held' = held \union Granted(calls, k)
       /\ IF k = Len(calls) THEN object' = "ready" /\ UNCHANGED mishaps
                            ELSE object' = "failed" /\ Mishap("driver")
  /\ event' = IF "event" \in held' THEN "quiet" ELSE "none"
  /\ UNCHANGED <<backend, owner, call, opens, abort, threadVars, handlerVars, driver, arrived, queue,
                 called, taken>>

\* Faulty: the handler of a running channel is set.
SetHandlerRunning ==
  /\ object = "ready" /\ owner = "idle" /\ func = "none"
  /\ \/ func' = "app" /\ UNCHANGED cookie
     \/ cookie' = "app" /\ UNCHANGED func
  /\ owner' = "setting"
  /\ UNCHANGED <<backend, object, call, opens, held, abort, threadVars, busVars, queue, called, taken,
                 mishaps>>
\* Two plain stores, the order of which is left to the build; no thread sees them.
SetHandler ==
  /\ object = "ready" /\ owner = "idle" /\ func = "none"
  /\ thread = "none"
  /\ \/ func' = "app" /\ UNCHANGED cookie
     \/ cookie' = "app" /\ UNCHANGED func
  /\ owner' = "setting"
  /\ UNCHANGED <<backend, object, call, opens, held, abort, threadVars, busVars, queue, called, taken,
                 mishaps>>

HandlerSet ==
  /\ owner = "setting"
  /\ func' = "app" /\ cookie' = "app"
  /\ owner' = "idle"
  /\ UNCHANGED <<backend, object, call, opens, held, abort, threadVars, busVars, queue, called, taken,
                 mishaps>>

OpenBegin ==
  LET calls == Class[backend].open IN
  /\ object = "ready" /\ owner = "idle" /\ opens < MaxOpens
  /\ call' = "Open" /\ opens' = opens + 1
  /\ queue' = <<>>
  /\ \E k \in 0 .. Len(calls) :
       /\ held' = held \union Granted(calls, k)
       /\ IF k = Len(calls) THEN owner' = "stopping" /\ UNCHANGED mishaps
                            ELSE owner' = "idle" /\ Mishap("driver")
  /\ UNCHANGED <<backend, object, abort, threadVars, handlerVars, busVars, called, taken>>

AfterStop == IF call = "Open" THEN "spawning" ELSE "closing"

\* Faulty: without a thread there is nothing to close.
StopNothingDone ==
  /\ owner = "stopping"
  /\ thread = "none"
  /\ owner' = IF call = "Open" THEN "spawning" ELSE IF call = "Close" THEN "idle" ELSE "freeing"
  /\ UNCHANGED <<backend, object, call, opens, held, abort, threadVars, handlerVars, busVars, queue,
                 called, taken, mishaps>>
StopNothing ==
  /\ owner = "stopping"
  /\ thread = "none"
  /\ owner' = AfterStop
  /\ UNCHANGED <<backend, object, call, opens, held, abort, threadVars, handlerVars, busVars, queue,
                 called, taken, mishaps>>

\* Faulty: the thread is joined before it is told to stop.
StopRequestLate ==
  /\ owner = "stopping"
  /\ thread # "none"
  /\ owner' = "joining"
  /\ UNCHANGED <<backend, object, call, opens, held, abort, threadVars, handlerVars, busVars, queue,
                 called, taken, mishaps>>
StopRequest ==
  /\ owner = "stopping"
  /\ thread # "none"
  /\ abort' = TRUE
  /\ owner' = "joining"
  /\ UNCHANGED <<backend, object, call, opens, held, threadVars, handlerVars, busVars, queue, called,
                 taken, mishaps>>

StopJoin ==
  /\ owner = "joining"
  /\ thread = "ended"
  /\ thread' = "none"
  /\ owner' = AfterStop
  /\ UNCHANGED <<backend, object, call, opens, held, abort, next, again, batch, loaded, handlerVars,
                 busVars, queue, called, taken, mishaps>>

Spawn ==
  /\ owner = "spawning"
  /\ abort' = FALSE
  /\ thread' = "new" /\ again' = FALSE
  /\ owner' = IF backend = "ixxat" THEN "starting" ELSE "idle"
  /\ UNCHANGED <<backend, object, call, opens, held, next, batch, loaded, handlerVars, busVars, queue,
                 called, taken, mishaps>>

\* Only IXXAT: the result is not looked at.
StartLine ==
  /\ owner = "starting"
  /\ \/ held' = held \union {"line"} /\ UNCHANGED mishaps
     \/ UNCHANGED held /\ Mishap("driver")
  /\ owner' = "idle"
  /\ UNCHANGED <<backend, object, call, opens, abort, threadVars, handlerVars, busVars, queue, called,
                 taken>>

\* Faulty: the library is closed before the thread is stopped.
CloseBeginReleasing ==
  /\ Exists /\ owner = "idle"
  /\ call' \in {"Close", "Destroy"}
  /\ owner' = "stopping"
  /\ held' = held \ (Class[backend].close \union {"line"})
  /\ UNCHANGED <<backend, object, opens, abort, threadVars, handlerVars, busVars, queue, called, taken,
                 mishaps>>
\* close, or destroy, whose destructor closes.  IXXAT takes the line down before it stops.
CloseBegin ==
  /\ Exists /\ owner = "idle"
  /\ call' \in {"Close", "Destroy"}
  /\ owner' = "stopping"
  /\ held' = IF backend = "ixxat" THEN held \ {"line"} ELSE held
  /\ UNCHANGED <<backend, object, opens, abort, threadVars, handlerVars, busVars, queue, called, taken,
                 mishaps>>

\* What happens to frames that the library still has is its affair.
CloseEnd ==
  /\ owner = "closing"
  /\ queue' = <<>>
  /\ held' = held \ Class[backend].close
  /\ driver' = <<>> \/ (backend \notin {"peak", "waveshare"} /\ UNCHANGED driver)
  /\ owner' = IF call = "Destroy" THEN "freeing" ELSE "idle"
  /\ UNCHANGED <<backend, object, call, opens, abort, threadVars, handlerVars, event, arrived, called,
                 taken, mishaps>>

DeInit ==
  /\ owner = "freeing"
  /\ held' = held \ Class[backend].deinit
  /\ driver' = <<>>
  /\ object' = "gone" /\ owner' = "idle"
  /\ UNCHANGED <<backend, call, opens, abort, threadVars, handlerVars, event, arrived, queue, called,
                 taken, mishaps>>

\* Faulty: the newest message first.
ReceiveLast ==
  /\ Exists /\ owner = "idle"
  /\ queue # <<>>
  /\ taken' = IF queue[Len(queue)] = Garbage THEN taken ELSE Append(taken, queue[Len(queue)])
  /\ queue' = SubSeq(queue, 1, Len(queue) - 1)
  /\ UNCHANGED <<ownerVars, held, abort, threadVars, handlerVars, busVars, called, mishaps>>
\* adapter_receive_to copies the message and frees the object it came in.
Receive ==
  /\ Exists /\ owner = "idle"
  /\ queue # <<>>
  /\ taken' = IF Head(queue) = Garbage THEN taken ELSE Append(taken, Head(queue))
  /\ queue' = Tail(queue)
  /\ UNCHANGED <<ownerVars, held, abort, threadVars, handlerVars, busVars, called, mishaps>>

InCall ==
  \/ HandlerSet \/ StopNothing \/ StopRequest \/ StopJoin \/ Spawn \/ StartLine \/ CloseEnd \/ DeInit
Owner ==
  Create \/ InitChannel \/ SetHandler \/ OpenBegin \/ CloseBegin \/ Receive \/ InCall

-----------------------------------------------------------------------------
(* The thread.                                                             *)

\* PEAK and Vector register their event now: a frame that came before does not set it.
ThreadBegin ==
  /\ thread = "new"
  /\ event' = IF backend \in {"peak", "vector"} THEN "quiet" ELSE event
  /\ thread' = "looping"
  /\ UNCHANGED <<ownerVars, held, abort, next, again, batch, loaded, handlerVars, driver, arrived,
                 queue, called, taken, mishaps>>

LoopCheck ==
  /\ thread = "looping"
  /\ thread' = IF abort THEN "ended" ELSE IF again THEN "reading" ELSE "waiting"
  /\ event' = IF abort /\ backend = "peak" THEN "none" ELSE event
  /\ UNCHANGED <<ownerVars, held, abort, next, again, batch, loaded, handlerVars, driver, arrived,
                 queue, called, taken, mishaps>>

Signalled == IF ThreadOf[backend].waits THEN event = "set" ELSE driver # <<>>

WaitSignal ==
  /\ thread = "waiting"
  /\ Signalled
  /\ event' = IF ThreadOf[backend].waits THEN "quiet" ELSE event
  /\ thread' = "reading"
  /\ UNCHANGED <<ownerVars, held, abort, next, again, batch, loaded, handlerVars, driver, arrived,
                 queue, called, taken, mishaps>>

WaitTimeout ==
  /\ thread = "waiting"
  /\ ~ Signalled
  /\ thread' = "looping"
  /\ UNCHANGED <<ownerVars, held, abort, next, again, batch, loaded, handlerVars, busVars, queue,
                 called, taken, mishaps>>

\* Faulty: one frame for every signal.
ReadOne ==
  /\ thread = "reading"
  /\ driver # <<>>
  /\ batch' = <<Head(driver)>>
  /\ driver' = Tail(driver)
  /\ next' = "looping"
  /\ again' = FALSE
  /\ thread' = "pushing"
  /\ UNCHANGED <<ownerVars, held, abort, loaded, handlerVars, event, arrived, queue, called, taken,
                 mishaps>>
ReadSome ==
  /\ thread = "reading"
  /\ driver # <<>>
  /\ \E k \in 1 .. IF ThreadOf[backend].many THEN Len(driver) ELSE 1 :
       /\ batch' = SubSeq(driver, 1, k)
       /\ driver' = SubSeq(driver, k + 1, Len(driver))
  /\ next' = IF ThreadOf[backend].drains THEN "reading" ELSE "looping"
  /\ again' = (backend = "ixxat")
  /\ thread' = "pushing"
  /\ UNCHANGED <<ownerVars, held, abort, loaded, handlerVars, event, arrived, queue, called, taken,
                 mishaps>>

ReadNone ==
  /\ thread = "reading"
  /\ driver = <<>>
  /\ again' = FALSE
  /\ thread' = "looping"
  /\ UNCHANGED <<ownerVars, held, abort, next, batch, loaded, handlerVars, busVars, queue, called,
                 taken, mishaps>>

\* PEAK and Vector: the read reports something else than success or an empty queue, and what is
\* then looked at, and handed on if it happens to look like a frame, was never written.  PEAK
\* goes on unless the queue is reported empty as well; Vector leaves its loop.
ReadReport ==
  /\ thread = "reading"
  /\ backend \in {"peak", "vector"}
  /\ Mishap("status")
  /\ batch' \in {<<Other>>, <<Garbage>>}
  /\ next' = IF backend = "peak" /\ driver # <<>> THEN "reading" ELSE "looping"
  /\ thread' = "pushing"
  /\ UNCHANGED <<ownerVars, held, abort, again, loaded, handlerVars, busVars, queue, called, taken>>

PushSkip ==
  /\ thread = "pushing"
  /\ batch # <<>>
  /\ Head(batch) = Other
  /\ batch' = Tail(batch)
  /\ UNCHANGED <<ownerVars, held, abort, thread, next, again, loaded, handlerVars, busVars, queue,
                 called, taken, mishaps>>

Push ==
  /\ thread = "pushing"
  /\ batch # <<>>
  /\ Head(batch) # Other
  /\ queue' = Append(queue, Head(batch))
  /\ batch' = Tail(batch)
  /\ thread' = "handler"
  /\ UNCHANGED <<ownerVars, held, abort, next, again, loaded, handlerVars, busVars, called, taken,
                 mishaps>>

\* adapter_receive_handler: the function first ...
HandlerLoad ==
  /\ thread = "handler"
  /\ loaded' = func
  /\ thread' = IF func = "none" THEN "pushing" ELSE "calling"
  /\ UNCHANGED <<ownerVars, held, abort, next, again, batch, handlerVars, busVars, queue, called,
                 taken, mishaps>>

\* ... then the cookie.
HandlerCall ==
  /\ thread = "calling"
  /\ called' = called \union {<<loaded, cookie>>}
  /\ thread' = "pushing"
  /\ UNCHANGED <<ownerVars, held, abort, next, again, batch, loaded, handlerVars, busVars, queue,
                 taken, mishaps>>

BatchDone ==
  /\ thread = "pushing"
  /\ batch = <<>>
  /\ thread' = next
  /\ UNCHANGED <<ownerVars, held, abort, next, again, batch, loaded, handlerVars, busVars, queue,
                 called, taken, mishaps>>

Thread ==
  \/ ThreadBegin \/ LoopCheck \/ WaitSignal \/ WaitTimeout
  \/ ReadSome \/ ReadNone \/ ReadReport \/ PushSkip \/ Push
  \/ HandlerLoad \/ HandlerCall \/ BatchDone

-----------------------------------------------------------------------------
(* The bus and the vendor library.                                         *)

Ring == IF event = "none" THEN "none" ELSE "set"

Arrive ==
  /\ "line" \in held
  /\ Len(arrived) < MaxFrames
  /\ arrived' = Append(arrived, Len(arrived) + 1)
  /\ driver' = Append(driver, Len(arrived) + 1)
  /\ event' = Ring
  /\ UNCHANGED <<ownerVars, held, abort, threadVars, handlerVars, queue, called, taken, mishaps>>

ArriveOther ==
  /\ "line" \in held
  /\ ThreadOf[backend].skips
  /\ Mishap("error")
  /\ driver' = Append(driver, Other)
  /\ event' = Ring
  /\ UNCHANGED <<ownerVars, held, abort, threadVars, handlerVars, arrived, queue, called, taken>>

Next == Owner \/ Thread \/ Arrive \/ ArriveOther

Spec == Init /\ [][Next]_vars

(***************************************************************************)
(* Fairness: both threads run, and a wait of the thread ends, since all of *)
(* them have a timeout.  No call has to be begun and no frame to arrive.   *)
(***************************************************************************)
FairSpec == Spec /\ WF_vars(InCall) /\ WF_vars(Thread)

-----------------------------------------------------------------------------
(* Properties.                                                             *)

TypeOK ==
  /\ backend \in Backends
  /\ object \in {"none", "made", "ready", "failed", "gone"}
  /\ owner \in {"idle", "setting", "stopping", "joining", "spawning", "starting", "closing", "freeing"}
  /\ call \in {"none", "Open", "Close", "Destroy"}
  /\ held \subseteq {"port", "handle", "manager", "device", "bal", "socket", "control", "channel",
                     "reader", "writer", "event", "line"}
  /\ abort \in BOOLEAN /\ again \in BOOLEAN
  /\ thread \in {"none", "new", "looping", "waiting", "reading", "pushing", "handler", "calling",
                 "ended"}
  /\ next \in {"looping", "reading"}
  /\ event \in {"none", "quiet", "set"}
  /\ {loaded, func, cookie} \subseteq {"none", "app"}
  /\ batch \in Seq(Nat) /\ driver \in Seq(Nat) /\ queue \in Seq(Nat)
  /\ arrived \in Seq(Nat) /\ taken \in Seq(Nat)
  /\ called \subseteq {"none", "app"} \X {"none", "app"}
  /\ opens \in 0 .. MaxOpens /\ mishaps \in 0 .. MaxMishaps

Running == thread \notin {"none", "ended"}

(***************************************************************************)
(* The thread reads only what the channel holds of the vendor library, and *)
(* runs only while the channel and its adapter exist, whichever calls have *)
(* failed and whether the channel is closed or destroyed while it reads,   *)
(* waits or is in the handler.                                             *)
(***************************************************************************)
ThreadHasDriver == Running => Exists /\ ThreadOf[backend].uses \subseteq held

(***************************************************************************)
(* The handler of the application is called with the cookie it was set     *)
(* with, though adapter_receive_handler reads the two one after the other. *)
(***************************************************************************)
HandlerHasCookie == called \subseteq {<<"app", "app">>}

(***************************************************************************)
(* After Close nothing of what Open acquires is left, also when Open has   *)
(* failed half way; a destroyed channel leaves nothing but the port that   *)
(* CanChannelVector never closes and the event of CanChannelIxxat.         *)
(***************************************************************************)
OpenGrants == Granted(Class[backend].open, Len(Class[backend].open)) \union {"line"}
ClosedIsReleased ==
  owner = "idle" /\ call \in {"Close", "Destroy"} =>
    /\ thread = "none"
    /\ queue = <<>>
    /\ held \intersect OpenGrants = {}
    /\ object = "gone" => held \subseteq {"port", "handle", "event"}

\* Every call returns: the thread looks at the request to stop again and again.
CallsReturn == (owner # "idle") ~> (owner = "idle")

(***************************************************************************)
(* Frames whose arrival was signalled to the thread do not stay in the     *)
(* queue of the vendor library while the channel is open, unless Vector    *)
(* has left its loop for a report that was no frame.                       *)
(***************************************************************************)
SignalledIsRead ==
  (Running /\ thread # "new" /\ Signalled /\ driver # <<>> /\ owner = "idle")
    ~> (driver = <<>> \/ owner # "idle" \/ (backend = "vector" /\ next = "looping"))

OneStream == {"bus"}
Stream == INSTANCE MessageStream WITH
  Streams <- OneStream, Messages <- 1 .. MaxFrames, Lossy <- TRUE,
  sent <- [p \in OneStream |-> arrived],
  passed <- [p \in OneStream |-> LastOr0(taken)],
  got <- [p \in OneStream |-> taken]

(***************************************************************************)
(* Frames are received in the order of their arrival and at most once,     *)
(* over any number of openings; what is closed over is lost, and what was  *)
(* made of a report is not counted.                                        *)
(***************************************************************************)
ReceivesInOrder == Stream!Spec

(***************************************************************************)
(* Why it is so: what the owner has received, the queue, the frames at     *)
(* hand and the queue of the library hold frames in the order of their     *)
(* arrival, and what is further on arrived earlier.                        *)
(***************************************************************************)
Frame == 1 .. MaxFrames
Items == Frame \union {Other, Garbage}
QueuesInOrder ==
  /\ Len(arrived) <= MaxFrames /\ \A k \in DOMAIN arrived : arrived[k] = k
  /\ taken \in Seq(Frame) /\ queue \in Seq(Frame \union {Garbage})
  /\ batch \in Seq(Items) /\ driver \in Seq(Items)
  /\ UpTo(taken, Len(arrived), Frame) /\ UpTo(queue, Len(arrived), Frame)
  /\ UpTo(batch, Len(arrived), Frame) /\ UpTo(driver, Len(arrived), Frame)
  /\ Rising(queue, Frame) /\ Rising(batch, Frame) /\ Rising(driver, Frame)
  /\ Before(taken, queue, Frame) /\ Before(taken, batch, Frame) /\ Before(taken, driver, Frame)
  /\ Before(queue, batch, Frame) /\ Before(queue, driver, Frame) /\ Before(batch, driver, Frame)
=============================================================================
