------------------------- MODULE VendorChannelProofs -------------------------
(***************************************************************************)
(* Proofs about the channels of the Windows backends, for any number of    *)
(* openings, frames and mishaps: their threads, what they hold of the      *)
(* vendor library, and the types.                                          *)
(***************************************************************************)
EXTENDS VendorChannel, DataProofs

InitGrants(b) == Granted(Class[b].init, Len(Class[b].init))
OpenCalls(b) == Granted(Class[b].open, Len(Class[b].open))
Uses(b) == ThreadOf[b].uses

\* A thread exists between Spawn and StopJoin, only of a channel whose Init has succeeded, and
\* with what it uses; whoever is about to spawn one has this already.
LifeInvariant ==
  /\ backend \in Backends
  /\ thread # "none" => object = "ready" /\ Uses(backend) \subseteq held
  /\ owner \in {"setting", "spawning", "closing", "freeing"} => thread = "none"
  /\ owner = "spawning" => call = "Open"
  /\ owner \in {"stopping", "joining", "spawning"} /\ call = "Open" =>
       object = "ready" /\ Uses(backend) \subseteq held
  /\ object = "ready" => InitGrants(backend) \subseteq held

\* A thread that has read the function finds the cookie: both are set before there is a thread.
HandlerInvariant ==
  /\ func \in {"none", "app"} /\ cookie \in {"none", "app"}
  /\ func = "app" => cookie = "app" \/ owner = "setting"
  /\ thread = "calling" => func = "app" /\ loaded = "app"
  /\ next \in {"looping", "reading"}
  /\ HandlerHasCookie

\* What Open acquires of a backend; OpenGrants is that of the channel.
OpenOf(b) == OpenCalls(b) \union {"line"}
Resting == owner \in {"idle", "setting", "freeing"}

\* After Close nothing is left of what Open acquires; IXXAT has given it back before it stops.
ReleaseInvariant ==
  /\ held \subseteq InitGrants(backend) \union OpenOf(backend)
  /\ owner \in {"spawning", "starting"} => call = "Open"
  /\ owner \in {"closing", "freeing"} => call # "Open"
  /\ Resting /\ call \in {"Close", "Destroy"} =>
       thread = "none" /\ queue = <<>> /\ held \intersect OpenOf(backend) = {}
  /\ owner \in {"stopping", "joining", "closing"} /\ call # "Open" /\ backend = "ixxat" =>
       "line" \notin held
  /\ owner \notin {"idle", "setting"} => call # "none"
  /\ call \in {"none", "Open", "Close", "Destroy"}
  /\ object = "gone" => owner = "idle" /\ held \subseteq {"port", "handle", "event"}

-----------------------------------------------------------------------------
(* The classes.                                                            *)

(***************************************************************************)
(* What a list of calls grants contains what each of them grants.          *)
(***************************************************************************)
LEMMA GrantedOne ==
  ASSUME NEW calls, NEW n \in Nat, NEW i \in 1 .. n, NEW x \in calls[i]
  PROVE  x \in Granted(calls, n)
  BY DEF Granted

(***************************************************************************)
(* The thread of each class uses what its Init and its Open acquire, Close *)
(* gives nothing back that Init acquired, and the line that CanChannelIxxat*)
(* takes down before it stops its thread is not used by the thread.        *)
(***************************************************************************)
LEMMA ClassFacts ==
  ASSUME NEW b \in Backends
  PROVE  /\ Uses(b) \subseteq InitGrants(b) \union OpenCalls(b)
         /\ Class[b].close \intersect InitGrants(b) = {}
         /\ b = "ixxat" => "line" \notin Uses(b) /\ "line" \notin InitGrants(b)
<1>1. CASE b = "peak"
  <2>1. Class[b] = Peak /\ ThreadOf[b] = PeakThread
    BY <1>1 DEF Class, ThreadOf
  <2>2. InitGrants(b) = {}
    BY <2>1 DEF InitGrants, Granted, Peak
  <2>3. "line" \in OpenCalls(b)
    <3>1. Class[b].open = << {}, {"line"} >>
      BY <2>1 DEF Peak
    <3> QED
      BY <3>1 DEF OpenCalls, Granted
  <2> QED
    BY <1>1, <2>1, <2>2, <2>3 DEF Uses, PeakThread
<1>2. CASE b = "waveshare"
  <2>1. Class[b] = Waveshare /\ ThreadOf[b] = WaveshareThread
    BY <1>2 DEF Class, ThreadOf
  <2>2. InitGrants(b) = {}
    BY <2>1 DEF InitGrants, Granted, Waveshare
  <2>3. "device" \in OpenCalls(b) /\ "line" \in OpenCalls(b)
    <3>1. Class[b].open = << {}, {"device"}, {}, {}, {"line"} >>
      BY <2>1 DEF Waveshare
    <3> QED
      BY <3>1 DEF OpenCalls, Granted
  <2> QED
    BY <1>2, <2>1, <2>2, <2>3 DEF Uses, WaveshareThread
<1>3. CASE b = "vector"
  <2>1. Class[b] = Vector /\ ThreadOf[b] = VectorThread
    BY <1>3 DEF Class, ThreadOf
  <2>2. InitGrants(b) = {"port", "handle"}
    <3>1. Class[b].init = << {"port"}, {}, {}, {"handle"} >>
      BY <2>1 DEF Vector
    <3> QED
      BY <3>1 DEF InitGrants, Granted
  <2>3. "line" \in OpenCalls(b)
    <3>1. Class[b].open = << {"line"}, {} >>
      BY <2>1 DEF Vector
    <3> QED
      BY <3>1 DEF OpenCalls, Granted
  <2>4. Class[b].close = {"line"}
    BY <2>1 DEF Vector
  <2> QED
    BY <1>3, <2>1, <2>2, <2>3, <2>4 DEF Uses, VectorThread
<1>4. CASE b = "marathon"
  <2>1. Class[b] = Marathon /\ ThreadOf[b] = MarathonThread
    BY <1>4 DEF Class, ThreadOf
  <2>2. InitGrants(b) = {"channel"}
    <3>1. Class[b].init = << {"channel"}, {} >>
      BY <2>1 DEF Marathon
    <3> QED
      BY <3>1 DEF InitGrants, Granted
  <2>3. "line" \in OpenCalls(b)
    <3>1. Class[b].open = << {"line"} >>
      BY <2>1 DEF Marathon
    <3> QED
      BY <3>1 DEF OpenCalls, Granted
  <2>4. Class[b].close = {"line"}
    BY <2>1 DEF Marathon
  <2> QED
    BY <1>4, <2>1, <2>2, <2>3, <2>4 DEF Uses, MarathonThread
<1>5. CASE b = "ixxat"
  <2>1. Class[b] = Ixxat /\ ThreadOf[b] = IxxatThread
    BY <1>5 DEF Class, ThreadOf
  <2>2. Class[b].init =
          << {"manager"}, {"device"}, {"bal"}, {"socket"}, {"control"}, {}, {"channel"},
             {}, {"reader"}, {"writer", "event"}, {}, {}, {}, {} >>
    BY <2>1 DEF Ixxat
  <2>3. "reader" \in InitGrants(b) /\ "event" \in InitGrants(b)
    <3>1. Len(Class[b].init) = 14
      BY <2>2
    <3>2. "reader" \in Class[b].init[9] /\ "event" \in Class[b].init[10]
      BY <2>2
    <3> QED
      BY <3>1, <3>2, GrantedOne DEF InitGrants
  <2>4. "line" \notin InitGrants(b)
    <3>1. Len(Class[b].init) = 14
      BY <2>2
    <3>2. \A i \in 1 .. 14 : "line" \notin Class[b].init[i]
      BY <2>2
    <3> QED
      BY <3>1, <3>2 DEF InitGrants, Granted
  <2>5. Class[b].close = {}
    BY <2>1 DEF Ixxat
  <2> QED
    BY <1>5, <2>1, <2>3, <2>4, <2>5 DEF Uses, IxxatThread
<1> QED
  BY <1>1, <1>2, <1>3, <1>4, <1>5 DEF Backends

-----------------------------------------------------------------------------
(* The steps.                                                              *)

(***************************************************************************)
(* The steps of the thread and of the bus leave the life of the channel    *)
(* alone: a thread goes on, and what the channel holds does not change.    *)
(***************************************************************************)
LEMMA ThreadKeepsLife ==
  ASSUME LifeInvariant, Thread \/ Arrive \/ ArriveOther
  PROVE  LifeInvariant'
<1>1. /\ UNCHANGED <<backend, object, owner, call, held>>
      /\ thread = "none" => thread' = "none"
  BY DEF Thread, ThreadBegin, LoopCheck, WaitSignal, WaitTimeout, ReadSome, ReadNone, ReadReport,
         PushSkip, Push, HandlerLoad, HandlerCall, BatchDone, Arrive, ArriveOther, ownerVars,
         threadVars, handlerVars, busVars
<1> QED
  BY <1>1 DEF LifeInvariant, Uses, InitGrants

(***************************************************************************)
(* The calls of the owner: no thread is spawned before its library is open *)
(* and nothing a thread uses is given back before it has been joined.      *)
(***************************************************************************)
LEMMA OwnerKeepsLife ==
  ASSUME LifeInvariant, Owner
  PROVE  LifeInvariant'
<1> USE DEF LifeInvariant, Uses
<1>1. CASE Create
  BY <1>1 DEF Create, threadVars
<1>2. CASE InitChannel
  <2>1. InitGrants(backend) \subseteq held' \/ object' = "failed"
    BY <1>2 DEF InitChannel, InitGrants
  <2>2. object' \in {"ready", "failed"} /\ thread = "none" /\ owner = "idle"
    BY <1>2 DEF InitChannel
  <2>3. UNCHANGED <<backend, owner, thread>>
    BY <1>2 DEF InitChannel, threadVars
  <2> QED
    BY <2>1, <2>2, <2>3 DEF InitGrants
<1>3. CASE SetHandler
  BY <1>3 DEF SetHandler, threadVars, InitGrants
<1>4. CASE OpenBegin
  <2>1. /\ object = "ready" /\ owner = "idle" /\ owner' \in {"stopping", "idle"}
        /\ UNCHANGED <<backend, object, thread>>
        /\ held \subseteq held'
    BY <1>4 DEF OpenBegin, threadVars
  <2>2. owner' = "stopping" => OpenCalls(backend) \subseteq held'
    BY <1>4 DEF OpenBegin, OpenCalls
  <2>3. owner' = "stopping" => ThreadOf[backend].uses \subseteq held'
    BY <2>1, <2>2, ClassFacts
  <2> QED
    BY <2>1, <2>3 DEF InitGrants
<1>5. CASE CloseBegin
  <2>1. /\ owner = "idle" /\ owner' = "stopping" /\ call' # "Open"
        /\ UNCHANGED <<backend, object, thread>>
        /\ held' = IF backend = "ixxat" THEN held \ {"line"} ELSE held
    BY <1>5 DEF CloseBegin, threadVars
  <2>2. /\ ThreadOf[backend].uses \subseteq held => ThreadOf[backend].uses \subseteq held'
        /\ InitGrants(backend) \subseteq held => InitGrants(backend) \subseteq held'
    BY <2>1, ClassFacts
  <2>3. InitGrants(backend)' = InitGrants(backend)
    BY <2>1 DEF InitGrants
  <2> QED
    BY <2>1, <2>2, <2>3
<1>6. CASE Receive
  BY <1>6 DEF Receive, ownerVars, threadVars, InitGrants
<1>7. CASE HandlerSet
  BY <1>7 DEF HandlerSet, threadVars, InitGrants
<1>8. CASE StopNothing \/ StopRequest \/ StopJoin
  <2>1. /\ UNCHANGED <<backend, object, call, held>>
        /\ owner \in {"stopping", "joining"}
        /\ \/ thread' = "none" /\ owner' = AfterStop
           \/ thread' = thread /\ owner' = "joining"
    BY <1>8 DEF StopNothing, StopRequest, StopJoin, threadVars
  <2> QED
    BY <2>1 DEF InitGrants, AfterStop
<1>9. CASE Spawn
  BY <1>9 DEF Spawn, InitGrants
<1>10. CASE StartLine
  BY <1>10 DEF StartLine, threadVars, InitGrants
<1>11. CASE CloseEnd
  <2>1. /\ owner = "closing" /\ owner' \in {"idle", "freeing"}
        /\ UNCHANGED <<backend, object, thread>>
        /\ held' = held \ Class[backend].close
    BY <1>11 DEF CloseEnd, threadVars
  <2>2. InitGrants(backend) \subseteq held => InitGrants(backend) \subseteq held'
    BY <2>1, ClassFacts
  <2> QED
    BY <2>1, <2>2 DEF InitGrants
<1>12. CASE DeInit
  BY <1>12 DEF DeInit, threadVars
<1> QED
  BY <1>1, <1>2, <1>3, <1>4, <1>5, <1>6, <1>7, <1>8, <1>9, <1>10, <1>11, <1>12 DEF Owner, InCall

(***************************************************************************)
(* The life of the channel is invariant.                                   *)
(***************************************************************************)
THEOREM Life == Spec => []LifeInvariant
<1>1. Init => LifeInvariant
  BY DEF Init, LifeInvariant
<1>2. LifeInvariant /\ [Next]_vars => LifeInvariant'
  <2>1. CASE UNCHANGED vars
    BY <2>1 DEF LifeInvariant, Uses, InitGrants, vars, ownerVars, threadVars
  <2> QED
    BY <2>1, ThreadKeepsLife, OwnerKeepsLife DEF Next
<1> QED
  BY <1>1, <1>2, PTL DEF Spec

(***************************************************************************)
(* The thread of a Windows channel reads only what the channel holds of    *)
(* the vendor library, whichever calls fail and whenever the channel is    *)
(* closed, opened again or destroyed.                                      *)
(***************************************************************************)
THEOREM VendorThread == Spec => []ThreadHasDriver
<1>1. LifeInvariant => ThreadHasDriver
  BY DEF LifeInvariant, ThreadHasDriver, Running, Exists, Uses
<1> QED
  BY <1>1, Life, PTL

(***************************************************************************)
(* The handler and its cookie change only while no thread runs.            *)
(***************************************************************************)
LEMMA HandlerStep ==
  ASSUME LifeInvariant, HandlerInvariant, [Next]_vars
  PROVE  HandlerInvariant'
<1> USE DEF HandlerInvariant, HandlerHasCookie
<1>1. CASE SetHandler
  <2>1. thread = "none" /\ thread' = "none" /\ owner' = "setting" /\ called' = called
    BY <1>1 DEF SetHandler, threadVars
  <2>2. func' \in {"none", "app"} /\ cookie' \in {"none", "app"} /\ next' = next
    BY <1>1 DEF SetHandler, threadVars
  <2> QED
    BY <2>1, <2>2
<1>2. CASE HandlerSet
  <2>1. thread = "none"
    BY <1>2 DEF HandlerSet, LifeInvariant
  <2> QED
    BY <1>2, <2>1 DEF HandlerSet, threadVars
<1>3. CASE HandlerLoad
  BY <1>3 DEF HandlerLoad, ownerVars, handlerVars
<1>4. CASE HandlerCall
  <2>1. owner # "setting"
    BY <1>4 DEF HandlerCall, LifeInvariant
  <2>2. called' = called \union {<<"app", "app">>}
    BY <1>4, <2>1 DEF HandlerCall
  <2>3. thread' = "pushing" /\ UNCHANGED <<func, cookie, owner, next>>
    BY <1>4 DEF HandlerCall, ownerVars, handlerVars
  <2> QED
    BY <2>1, <2>2, <2>3
<1>5. ASSUME UNCHANGED <<func, cookie, called, loaded>>, next' \in {"looping", "reading"},
             thread' = "calling" => thread = "calling", owner = "setting" => owner' = "setting"
      PROVE  HandlerInvariant'
  BY <1>5
<1>6. CASE \/ Create \/ InitChannel \/ OpenBegin \/ CloseBegin \/ Receive \/ StopNothing
           \/ StopRequest \/ StopJoin \/ Spawn \/ StartLine \/ CloseEnd \/ DeInit
  BY <1>5, <1>6 DEF Create, InitChannel, OpenBegin, CloseBegin, Receive, StopNothing, StopRequest,
    StopJoin, Spawn, StartLine, CloseEnd, DeInit, ownerVars, threadVars, handlerVars
<1>7. CASE \/ ThreadBegin \/ LoopCheck \/ WaitSignal \/ WaitTimeout \/ ReadSome \/ ReadNone
           \/ ReadReport \/ PushSkip \/ Push \/ BatchDone \/ Arrive \/ ArriveOther
  BY <1>5, <1>7 DEF ThreadBegin, LoopCheck, WaitSignal, WaitTimeout, ReadSome, ReadNone, ReadReport,
      PushSkip, Push, BatchDone, Arrive, ArriveOther, ownerVars, threadVars, handlerVars
<1>8. CASE UNCHANGED vars
  BY <1>5, <1>8 DEF vars, ownerVars, threadVars, handlerVars
<1> QED
  BY <1>1, <1>2, <1>3, <1>4, <1>6, <1>7, <1>8 DEF Next, Owner, InCall, Thread

(***************************************************************************)
(* adapter_receive_handler calls the function of the application with the  *)
(* cookie that was set with it, though it reads them one after the other   *)
(* and without a lock.                                                     *)
(***************************************************************************)
THEOREM VendorHandler == Spec => []HandlerHasCookie
<1>1. Init => HandlerInvariant
  BY DEF Init, HandlerInvariant, HandlerHasCookie
<1>2. HandlerInvariant => HandlerHasCookie
  BY DEF HandlerInvariant
<1> QED
  BY <1>1, <1>2, HandlerStep, Life, PTL DEF Spec

-----------------------------------------------------------------------------
(* What is released.                                                       *)

(***************************************************************************)
(* What a list of calls grants lies within what contains each of them.     *)
(***************************************************************************)
LEMMA GrantedWithin ==
  ASSUME NEW calls, NEW n \in Nat, NEW S, \A i \in 1 .. n : calls[i] \subseteq S
  PROVE  Granted(calls, n) \subseteq S
  BY DEF Granted

(***************************************************************************)
(* Close of each class gives back all that its Open acquires, which Init   *)
(* does not; DeInit leaves the port and the handle of Vector, and the      *)
(* event of IXXAT.                                                         *)
(***************************************************************************)
LEMMA ClassReleases ==
  ASSUME NEW b \in Backends
  PROVE  /\ OpenOf(b) \intersect InitGrants(b) = {}
         /\ OpenOf(b) \subseteq Class[b].close \union (IF b = "ixxat" THEN {"line"} ELSE {})
         /\ InitGrants(b) \ Class[b].deinit \subseteq {"port", "handle", "event"}
<1>1. CASE b = "peak"
  <2>1. Class[b] = Peak
    BY <1>1 DEF Class
  <2>2. InitGrants(b) \subseteq {}
    <3>1. Len(Class[b].init) = 0
      BY <2>1 DEF Peak
    <3>2. \A i \in 1 .. 0 : Class[b].init[i] \subseteq {}
      BY <2>1 DEF Peak
    <3> QED
      BY <3>1, <3>2, GrantedWithin, SMTT(30) DEF InitGrants
  <2>3. OpenOf(b) \subseteq {"line"}
    <3>1. Len(Class[b].open) = 2
      BY <2>1 DEF Peak
    <3>2. \A i \in 1 .. 2 : Class[b].open[i] \subseteq {"line"}
      BY <2>1 DEF Peak
    <3>3. OpenCalls(b) \subseteq {"line"}
      BY <3>1, <3>2, GrantedWithin DEF OpenCalls
    <3> QED
      BY <3>3 DEF OpenOf
  <2> QED
    BY <1>1, <2>1, <2>2, <2>3 DEF Peak
<1>2. CASE b = "waveshare"
  <2>1. Class[b] = Waveshare
    BY <1>2 DEF Class
  <2>2. InitGrants(b) \subseteq {}
    <3>1. Len(Class[b].init) = 0
      BY <2>1 DEF Waveshare
    <3>2. \A i \in 1 .. 0 : Class[b].init[i] \subseteq {}
      BY <2>1 DEF Waveshare
    <3> QED
      BY <3>1, <3>2, GrantedWithin, SMTT(30) DEF InitGrants
  <2>3. OpenOf(b) \subseteq {"device", "line"}
    <3>1. Len(Class[b].open) = 5
      BY <2>1 DEF Waveshare
    <3>2. \A i \in 1 .. 5 : Class[b].open[i] \subseteq {"device", "line"}
      BY <2>1 DEF Waveshare
    <3>3. OpenCalls(b) \subseteq {"device", "line"}
      BY <3>1, <3>2, GrantedWithin DEF OpenCalls
    <3> QED
      BY <3>3 DEF OpenOf
  <2> QED
    BY <1>2, <2>1, <2>2, <2>3 DEF Waveshare
<1>3. CASE b = "vector"
  <2>1. Class[b] = Vector
    BY <1>3 DEF Class
  <2>2. InitGrants(b) \subseteq {"port", "handle"}
    <3>1. Len(Class[b].init) = 4
      BY <2>1 DEF Vector
    <3>2. \A i \in 1 .. 4 : Class[b].init[i] \subseteq {"port", "handle"}
      BY <2>1 DEF Vector
    <3> QED
      BY <3>1, <3>2, GrantedWithin DEF InitGrants
  <2>3. OpenOf(b) \subseteq {"line"}
    <3>1. Len(Class[b].open) = 2
      BY <2>1 DEF Vector
    <3>2. \A i \in 1 .. 2 : Class[b].open[i] \subseteq {"line"}
      BY <2>1 DEF Vector
    <3>3. OpenCalls(b) \subseteq {"line"}
      BY <3>1, <3>2, GrantedWithin DEF OpenCalls
    <3> QED
      BY <3>3 DEF OpenOf
  <2> QED
    BY <1>3, <2>1, <2>2, <2>3 DEF Vector
<1>4. CASE b = "marathon"
  <2>1. Class[b] = Marathon
    BY <1>4 DEF Class
  <2>2. InitGrants(b) \subseteq {"channel"}
    <3>1. Len(Class[b].init) = 2
      BY <2>1 DEF Marathon
    <3>2. \A i \in 1 .. 2 : Class[b].init[i] \subseteq {"channel"}
      BY <2>1 DEF Marathon
    <3> QED
      BY <3>1, <3>2, GrantedWithin DEF InitGrants
  <2>3. OpenOf(b) \subseteq {"line"}
    <3>1. Len(Class[b].open) = 1
      BY <2>1 DEF Marathon
    <3>2. \A i \in 1 .. 1 : Class[b].open[i] \subseteq {"line"}
      BY <2>1 DEF Marathon
    <3>3. OpenCalls(b) \subseteq {"line"}
      BY <3>1, <3>2, GrantedWithin DEF OpenCalls
    <3> QED
      BY <3>3 DEF OpenOf
  <2> QED
    BY <1>4, <2>1, <2>2, <2>3 DEF Marathon
<1>5. CASE b = "ixxat"
  <2>1. Class[b] = Ixxat
    BY <1>5 DEF Class
  <2>2. InitGrants(b) \subseteq (IxxatDeInit \ {"line"}) \union {"event"}
    <3>1. Len(Class[b].init) = 14
      BY <2>1 DEF Ixxat
    <3>2. \A i \in 1 .. 14 : Class[b].init[i] \subseteq (IxxatDeInit \ {"line"}) \union {"event"}
      BY <2>1 DEF Ixxat, IxxatDeInit
    <3> QED
      BY <3>1, <3>2, GrantedWithin DEF InitGrants
  <2>3. OpenOf(b) \subseteq {"line"}
    <3>1. Len(Class[b].open) = 1
      BY <2>1 DEF Ixxat
    <3>2. \A i \in 1 .. 1 : Class[b].open[i] \subseteq {"line"}
      BY <2>1 DEF Ixxat
    <3>3. OpenCalls(b) \subseteq {"line"}
      BY <3>1, <3>2, GrantedWithin DEF OpenCalls
    <3> QED
      BY <3>3 DEF OpenOf
  <2> QED
    BY <1>5, <2>1, <2>2, <2>3 DEF Ixxat, IxxatDeInit
<1> QED
  BY <1>1, <1>2, <1>3, <1>4, <1>5 DEF Backends

(***************************************************************************)
(* The steps of the thread and of the bus change neither what is held nor, *)
(* while there is no thread, the queue.                                    *)
(***************************************************************************)
LEMMA ThreadKeepsRelease ==
  ASSUME ReleaseInvariant, Thread \/ Arrive \/ ArriveOther
  PROVE  ReleaseInvariant'
<1>1. /\ UNCHANGED <<backend, object, owner, call, held>>
      /\ thread = "none" => thread' = "none" /\ queue' = queue
  BY DEF Thread, ThreadBegin, LoopCheck, WaitSignal, WaitTimeout, ReadSome, ReadNone, ReadReport,
         PushSkip, Push, HandlerLoad, HandlerCall, BatchDone, Arrive, ArriveOther, ownerVars,
         threadVars, handlerVars, busVars
<1> QED
  BY <1>1 DEF ReleaseInvariant, Resting, OpenOf, OpenCalls, InitGrants

(***************************************************************************)
(* The calls of the owner: what an Open leaves, whole or half, the next    *)
(* Close or Destroy gives back.                                            *)
(***************************************************************************)
LEMMA OwnerKeepsRelease ==
  ASSUME LifeInvariant, ReleaseInvariant, Owner
  PROVE  ReleaseInvariant'
<1> USE DEF ReleaseInvariant, Resting
<1>1. backend' = backend /\ backend \in Backends
  BY DEF LifeInvariant, Owner, InCall, Create, InitChannel, SetHandler, OpenBegin, CloseBegin, Receive,
         HandlerSet, StopNothing, StopRequest, StopJoin, Spawn, StartLine, CloseEnd, DeInit, ownerVars
<1>2. OpenOf(backend)' = OpenOf(backend) /\ InitGrants(backend)' = InitGrants(backend)
  BY <1>1 DEF OpenOf, OpenCalls, InitGrants
<1>3. /\ OpenOf(backend) \intersect InitGrants(backend) = {}
      /\ OpenOf(backend) \subseteq Class[backend].close \union (IF backend = "ixxat" THEN {"line"} ELSE {})
      /\ InitGrants(backend) \ Class[backend].deinit \subseteq {"port", "handle", "event"}
  BY <1>1, ClassReleases
<1>4. CASE Create
  BY <1>1, <1>2, <1>4 DEF Create, threadVars
<1>5. CASE InitChannel
  <2>1. PICK k \in 0 .. Len(Class[backend].init) :
          held' = held \union Granted(Class[backend].init, k)
    BY <1>5 DEF InitChannel
  <2>2. Granted(Class[backend].init, k) \subseteq InitGrants(backend)
    BY DEF InitGrants, Granted
  <2>3. object' # "gone" /\ UNCHANGED <<owner, call, thread, queue>> /\ owner = "idle"
    BY <1>5 DEF InitChannel, threadVars
  <2> QED
    BY <1>1, <1>2, <1>3, <2>1, <2>2, <2>3
<1>6. CASE SetHandler \/ HandlerSet
  <2>1. /\ UNCHANGED <<object, call, held, thread, queue>>
        /\ owner \in {"idle", "setting"} /\ owner' \in {"idle", "setting"}
        /\ object' # "gone"
    BY <1>6 DEF SetHandler, HandlerSet, threadVars
  <2> QED
    BY <1>1, <1>2, <2>1
<1>7. CASE OpenBegin
  <2>1. PICK k \in 0 .. Len(Class[backend].open) :
          held' = held \union Granted(Class[backend].open, k)
    BY <1>7 DEF OpenBegin
  <2>2. Granted(Class[backend].open, k) \subseteq OpenOf(backend)
    BY DEF OpenOf, OpenCalls, Granted
  <2>3. /\ call' = "Open" /\ owner' \in {"idle", "stopping"}
        /\ object' # "gone"
    BY <1>7 DEF OpenBegin
  <2> QED
    BY <1>1, <1>2, <2>1, <2>2, <2>3
<1>8. CASE CloseBegin
  BY <1>1, <1>2, <1>8 DEF CloseBegin, Exists
<1>9. CASE Receive
  BY <1>1, <1>2, <1>9 DEF Receive, ownerVars, threadVars
<1>10. CASE StopNothing \/ StopRequest \/ StopJoin
  <2>1. /\ UNCHANGED <<object, call, held>>
        /\ owner \in {"stopping", "joining"}
        /\ owner' = AfterStop \/ owner' = "joining"
    BY <1>10 DEF StopNothing, StopRequest, StopJoin
  <2> QED
    BY <1>1, <1>2, <2>1 DEF AfterStop
<1>11. CASE Spawn
  BY <1>1, <1>2, <1>11 DEF Spawn
<1>12. CASE StartLine
  <2>1. "line" \in OpenOf(backend)
    BY DEF OpenOf
  <2> QED
    BY <1>1, <1>2, <1>12, <2>1 DEF StartLine
<1>13. CASE CloseEnd
  <2>1. /\ UNCHANGED <<object, call, thread>> /\ queue' = <<>>
        /\ owner = "closing" /\ owner' = IF call = "Destroy" THEN "freeing" ELSE "idle"
        /\ held' = held \ Class[backend].close
    BY <1>13 DEF CloseEnd, threadVars
  <2>2. held' \intersect OpenOf(backend) = {}
    BY <1>3, <2>1
  <2>3. thread = "none"
    BY <2>1 DEF LifeInvariant
  <2> QED
    BY <1>1, <1>2, <2>1, <2>2, <2>3
<1>14. CASE DeInit
  <2>1. /\ UNCHANGED <<call, thread, queue>>
        /\ owner = "freeing" /\ owner' = "idle" /\ object' = "gone"
        /\ held' = held \ Class[backend].deinit
    BY <1>14 DEF DeInit, threadVars
  <2>2. held \intersect OpenOf(backend) = {}
    BY <2>1
  <2>3. held' \subseteq {"port", "handle", "event"}
    BY <1>3, <2>1, <2>2
  <2> QED
    BY <1>1, <1>2, <2>1, <2>2, <2>3
<1> QED
  BY <1>4, <1>5, <1>6, <1>7, <1>8, <1>9, <1>10, <1>11, <1>12, <1>13, <1>14 DEF Owner, InCall

(***************************************************************************)
(* After Close nothing is left of what Open acquires, and after destroy    *)
(* nothing but the port of Vector with its handle and the event of IXXAT,  *)
(* whichever calls have failed half way.                                   *)
(***************************************************************************)
THEOREM VendorRelease == Spec => []ClosedIsReleased
<1>1. Init => ReleaseInvariant
  BY DEF Init, ReleaseInvariant, Resting
<1>2. LifeInvariant /\ ReleaseInvariant /\ [Next]_vars => ReleaseInvariant'
  <2>1. CASE UNCHANGED vars
    BY <2>1 DEF ReleaseInvariant, Resting, OpenOf, OpenCalls, InitGrants, vars, ownerVars, threadVars
  <2> QED
    BY <2>1, ThreadKeepsRelease, OwnerKeepsRelease DEF Next
<1>3. ReleaseInvariant => ClosedIsReleased
  BY DEF ReleaseInvariant, Resting, ClosedIsReleased, OpenGrants, OpenOf, OpenCalls
<1> QED
  BY <1>1, <1>2, <1>3, Life, PTL DEF Spec

-----------------------------------------------------------------------------
(* Types.                                                                  *)

\* The parts of the vendor libraries.
Parts ==
  {"port", "handle", "manager", "device", "bal", "socket", "control", "channel", "reader", "writer",
   "event", "line"}

(***************************************************************************)
(* What the classes acquire are parts of vendor libraries.                 *)
(***************************************************************************)
LEMMA ClassTypes ==
  ASSUME NEW b \in Backends
  PROVE  /\ \A k \in 0 .. Len(Class[b].init) : Granted(Class[b].init, k) \subseteq Parts
         /\ \A k \in 0 .. Len(Class[b].open) : Granted(Class[b].open, k) \subseteq Parts
<1>1. /\ \A i \in 1 .. Len(Class[b].init) : Class[b].init[i] \subseteq Parts
      /\ \A i \in 1 .. Len(Class[b].open) : Class[b].open[i] \subseteq Parts
  <2>1. CASE b = "peak"
    BY <2>1 DEF Class, Peak, Parts
  <2>2. CASE b = "waveshare"
    BY <2>2 DEF Class, Waveshare, Parts
  <2>3. CASE b = "vector"
    BY <2>3 DEF Class, Vector, Parts
  <2>4. CASE b = "marathon"
    BY <2>4 DEF Class, Marathon, Parts
  <2>5. CASE b = "ixxat"
    <3>1. Class[b] = Ixxat
      BY <2>5 DEF Class
    <3> QED
      BY <3>1 DEF Ixxat, Parts
  <2> QED
    BY <2>1, <2>2, <2>3, <2>4, <2>5 DEF Backends
<1> QED
  BY <1>1 DEF Granted

(***************************************************************************)
(* Every call of the owner keeps the types.                                *)
(***************************************************************************)
LEMMA OwnerKeepsTypes ==
  ASSUME TypeOK, Owner
  PROVE  TypeOK'
<1> USE VendorAssumption DEF TypeOK
<1>1. CASE InitChannel
  <2>1. held' \subseteq Parts
    BY <1>1, ClassTypes DEF InitChannel, Parts
  <2>2. object' \in {"ready", "failed"} /\ mishaps' \in 0 .. MaxMishaps /\ event' \in {"none", "quiet"}
    BY <1>1 DEF InitChannel, Mishap
  <2> QED
    BY <1>1, <2>1, <2>2 DEF InitChannel, Parts, threadVars, handlerVars
<1>2. CASE OpenBegin
  <2>1. held' \subseteq Parts
    BY <1>2, ClassTypes DEF OpenBegin, Parts
  <2>2. owner' \in {"stopping", "idle"} /\ mishaps' \in 0 .. MaxMishaps /\ opens' \in 0 .. MaxOpens
    BY <1>2 DEF OpenBegin, Mishap
  <2>3. queue' \in Seq(Nat)
    BY <1>2 DEF OpenBegin
  <2> QED
    BY <1>2, <2>1, <2>2, <2>3 DEF OpenBegin, Parts, threadVars, handlerVars, busVars
<1>3. CASE Create
  BY <1>3 DEF Create, ownerVars, threadVars, handlerVars, busVars
<1>4. CASE SetHandler
  BY <1>4 DEF SetHandler, ownerVars, threadVars, handlerVars, busVars
<1>5. CASE HandlerSet
  BY <1>5 DEF HandlerSet, ownerVars, threadVars, handlerVars, busVars
<1>6. CASE StopNothing
  BY <1>6 DEF StopNothing, AfterStop, ownerVars, threadVars, handlerVars, busVars
<1>7. CASE StopRequest
  BY <1>7 DEF StopRequest, ownerVars, threadVars, handlerVars, busVars
<1>8. CASE StopJoin
  BY <1>8 DEF StopJoin, AfterStop, ownerVars, threadVars, handlerVars, busVars
<1>9. CASE Spawn
  BY <1>9 DEF Spawn, ownerVars, threadVars, handlerVars, busVars
<1>10. CASE StartLine
  <2>1. held \subseteq Parts /\ held' \subseteq held \union {"line"} /\ "line" \in Parts
    BY <1>10 DEF StartLine, Parts
  <2>2. held' \subseteq Parts
    BY <2>1
  <2>3. mishaps' \in 0 .. MaxMishaps
    BY <1>10 DEF StartLine, Mishap
  <2> QED
    BY <1>10, <2>2, <2>3 DEF StartLine, Parts, threadVars, handlerVars, busVars
<1>11. CASE CloseBegin
  BY <1>11 DEF CloseBegin, ownerVars, threadVars, handlerVars, busVars
<1>12. CASE CloseEnd
  <2>1. held \subseteq Parts /\ held' \subseteq held
    BY <1>12 DEF CloseEnd, Parts
  <2>2. held' \subseteq Parts
    BY <2>1
  <2>3. queue' \in Seq(Nat) /\ driver' \in Seq(Nat)
    <3>1. queue' = <<>> /\ (driver' = <<>> \/ driver' = driver)
      BY <1>12 DEF CloseEnd
    <3>2. driver \in Seq(Nat)
      OBVIOUS
    <3>3. <<>> \in Seq(Nat)
      OBVIOUS
    <3>4. queue' \in Seq(Nat)
      BY <3>1, <3>3, Zenon
    <3>5. driver' \in Seq(Nat)
      BY <3>1, <3>2, <3>3, Zenon
    <3> QED
      BY <3>4, <3>5, Zenon
  <2> QED
    BY <1>12, <2>2, <2>3 DEF CloseEnd, Parts, threadVars, handlerVars
<1>13. CASE DeInit
  <2>1. held \subseteq Parts /\ held' \subseteq held
    BY <1>13 DEF DeInit, Parts
  <2>2. held' \subseteq Parts
    BY <2>1
  <2>3. driver' \in Seq(Nat)
    BY <1>13 DEF DeInit
  <2> QED
    BY <1>13, <2>2, <2>3 DEF DeInit, Parts, threadVars, handlerVars
<1>14. CASE Receive
  BY <1>14 DEF Receive, ownerVars, threadVars, handlerVars, busVars
<1> QED
  BY <1>1, <1>2, <1>3, <1>4, <1>5, <1>6, <1>7, <1>8, <1>9, <1>10, <1>11, <1>12, <1>13, <1>14 DEF Owner, InCall

(***************************************************************************)
(* Every step of the thread and of the bus keeps the types.                *)
(***************************************************************************)
LEMMA ThreadKeepsTypes ==
  ASSUME TypeOK, Thread \/ Arrive \/ ArriveOther
  PROVE  TypeOK'
<1> USE VendorAssumption DEF TypeOK
<1>1. CASE ThreadBegin
  BY <1>1 DEF ThreadBegin, ownerVars, threadVars, handlerVars, busVars
<1>2. CASE LoopCheck
  BY <1>2 DEF LoopCheck, ownerVars, threadVars, handlerVars, busVars
<1>3. CASE WaitSignal
  BY <1>3 DEF WaitSignal, ownerVars, threadVars, handlerVars, busVars
<1>4. CASE WaitTimeout
  BY <1>4 DEF WaitTimeout, ownerVars, threadVars, handlerVars, busVars
<1>5. CASE ReadSome
  BY <1>5, SMTT(30) DEF ReadSome, ownerVars, threadVars, handlerVars, busVars
<1>6. CASE ReadNone
  BY <1>6, SMT, ZenonT(40) DEF ReadNone, ownerVars, threadVars, handlerVars, busVars
<1>7. CASE ReadReport
  <2>1. batch' \in Seq(Nat)
    <3>1. <<Other>> \in Seq(Nat) /\ <<Garbage>> \in Seq(Nat)
      BY DEF Other, Garbage
    <3> QED
      BY <1>7, <3>1 DEF ReadReport
  <2>2. mishaps' \in 0 .. MaxMishaps /\ next' \in {"looping", "reading"}
    BY <1>7 DEF ReadReport, Mishap
  <2> QED
    BY <1>7, <2>1, <2>2 DEF ReadReport, ownerVars, handlerVars, busVars
<1>8. CASE PushSkip
  BY <1>8 DEF PushSkip, ownerVars, threadVars, handlerVars, busVars
<1>9. CASE Push
  BY <1>9 DEF Push, ownerVars, threadVars, handlerVars, busVars
<1>10. CASE HandlerLoad
  BY <1>10 DEF HandlerLoad, ownerVars, threadVars, handlerVars, busVars
<1>11. CASE HandlerCall
  BY <1>11 DEF HandlerCall, ownerVars, threadVars, handlerVars, busVars
<1>12. CASE BatchDone
  BY <1>12 DEF BatchDone, ownerVars, threadVars, handlerVars, busVars
<1>13. CASE Arrive
  <2>1. arrived' \in Seq(Nat) /\ driver' \in Seq(Nat)
    <3>1. Len(arrived) + 1 \in Nat
      OBVIOUS
    <3> QED
      BY <1>13, <3>1 DEF Arrive
  <2> QED
    BY <1>13, <2>1 DEF Arrive, Ring, ownerVars, threadVars, handlerVars
<1>14. CASE ArriveOther
  BY <1>14 DEF ArriveOther, Ring, Mishap, Other, ownerVars, threadVars, handlerVars, busVars
<1> QED
  BY <1>1, <1>2, <1>3, <1>4, <1>5, <1>6, <1>7, <1>8, <1>9, <1>10, <1>11, <1>12, <1>13, <1>14 DEF Thread

(***************************************************************************)
(* Every variable of the channel keeps its type.                           *)
(***************************************************************************)
THEOREM VendorTypes == Spec => []TypeOK
<1>1. Init => TypeOK
  <2>1. Init => batch \in Seq(Nat) /\ driver \in Seq(Nat) /\ queue \in Seq(Nat)
                /\ arrived \in Seq(Nat) /\ taken \in Seq(Nat)
    BY DEF Init
  <2>2. Init => opens \in 0 .. MaxOpens /\ mishaps \in 0 .. MaxMishaps
    BY VendorAssumption DEF Init
  <2> QED
    BY <2>1, <2>2 DEF Init, TypeOK
<1>2. TypeOK /\ [Next]_vars => TypeOK'
  <2>1. CASE UNCHANGED vars
    BY <2>1 DEF TypeOK, vars, ownerVars, threadVars, handlerVars, busVars
  <2> QED
    BY <2>1, OwnerKeepsTypes, ThreadKeepsTypes DEF Next
<1> QED
  BY <1>1, <1>2, PTL DEF Spec

-----------------------------------------------------------------------------
(* The channel as a message stream.                                        *)

\* What the queues hold are numbers, and an event or garbage is no frame.
LEMMA ItemsAreNumbers ==
  /\ Other \notin Frame /\ Garbage \notin Frame /\ Other # Garbage
  /\ Other \in Items /\ Garbage \in Items
  /\ Items \subseteq Nat /\ Frame \subseteq Items
BY VendorAssumption DEF Other, Garbage, Frame, Items

\* At first no frame has arrived.
LEMMA QueuesInit == Init => QueuesInOrder
<1> SUFFICES ASSUME Init PROVE QueuesInOrder
  OBVIOUS
<1>1. arrived = <<>> /\ taken = <<>> /\ queue = <<>> /\ driver = <<>> /\ batch = <<>>
  BY DEF Init
<1>2. Len(arrived) <= MaxFrames
  BY <1>1, VendorAssumption
<1>3. \A S : <<>> \in Seq(S)
  OBVIOUS
<1> QED
  BY <1>1, <1>2, <1>3, EmptyInOrder DEF QueuesInOrder

\* A frame that arrives has a higher number than all that came before it.
LEMMA ArriveInOrder == TypeOK /\ QueuesInOrder /\ Arrive => QueuesInOrder'
<1> SUFFICES ASSUME TypeOK, QueuesInOrder, Arrive PROVE QueuesInOrder'
  OBVIOUS
<1> DEFINE n == Len(arrived)
<1>1. /\ n \in Nat /\ n + 1 \in Nat /\ n < MaxFrames
      /\ arrived' = Append(arrived, n + 1) /\ Len(arrived') = n + 1
      /\ driver' = Append(driver, n + 1) /\ UNCHANGED <<queue, batch, taken>>
      /\ queue \in Seq(Nat) /\ batch \in Seq(Nat) /\ driver \in Seq(Nat)
      /\ taken \in Seq(Nat) /\ arrived \in Seq(Nat)
  BY DEF Arrive, TypeOK, threadVars
<1>2. n + 1 <= MaxFrames /\ \A k \in DOMAIN arrived' : arrived'[k] = k
  BY <1>1, VendorAssumption, SMTT(30) DEF QueuesInOrder
<1> HIDE DEF n
<1>3. n + 1 > n /\ n + 1 >= n /\ n + 1 <= n + 1
  BY <1>1
<1>4. /\ UpTo(queue, n, Frame) /\ UpTo(batch, n, Frame) /\ UpTo(driver, n, Frame)
      /\ UpTo(taken, n, Frame)
  BY DEF QueuesInOrder, n
<1>5. /\ UpTo(queue, n + 1, Frame) /\ UpTo(batch, n + 1, Frame) /\ UpTo(driver', n + 1, Frame)
      /\ UpTo(taken, n + 1, Frame)
  BY <1>1, <1>3, <1>4, NewestInOrder
<1>6. /\ Before(queue, <<n + 1>>, Frame) /\ Before(batch, <<n + 1>>, Frame)
      /\ Before(driver, <<n + 1>>, Frame) /\ Before(taken, <<n + 1>>, Frame)
  BY <1>1, <1>3, <1>4, NewestInOrder
<1>7. /\ Rising(driver', Frame) /\ Before(taken, driver', Frame)
      /\ Before(queue, driver', Frame) /\ Before(batch, driver', Frame)
  BY <1>1, <1>6, AppendInOrder DEF QueuesInOrder
<1>8. driver' \in Seq(Items)
  <2>1. n + 1 \in Items
    BY <1>1, <1>2 DEF Items, Frame
  <2> QED
    BY <1>1, <2>1 DEF QueuesInOrder
<1> QED
  BY <1>1, <1>2, <1>5, <1>7, <1>8 DEF QueuesInOrder

\* What arrives and is no frame has no place in the order.
LEMMA ArriveOtherInOrder == TypeOK /\ QueuesInOrder /\ ArriveOther => QueuesInOrder'
<1> SUFFICES ASSUME TypeOK, QueuesInOrder, ArriveOther PROVE QueuesInOrder'
  OBVIOUS
<1>1. /\ driver' = Append(driver, Other) /\ UNCHANGED <<queue, batch, taken, arrived>>
      /\ queue \in Seq(Nat) /\ batch \in Seq(Nat) /\ driver \in Seq(Nat)
      /\ taken \in Seq(Nat) /\ Len(arrived) \in Nat
  BY DEF ArriveOther, TypeOK, threadVars
<1>2. Other \in Nat /\ Other \notin Frame /\ Other \in Items /\ Len(arrived) >= Len(arrived)
  BY <1>1, ItemsAreNumbers
<1>3. /\ UpTo(queue, Len(arrived), Frame) /\ UpTo(batch, Len(arrived), Frame)
      /\ UpTo(driver, Len(arrived), Frame) /\ UpTo(taken, Len(arrived), Frame)
  BY DEF QueuesInOrder
<1>4. /\ UpTo(driver', Len(arrived), Frame) /\ Before(driver, <<Other>>, Frame)
      /\ Before(queue, <<Other>>, Frame) /\ Before(batch, <<Other>>, Frame)
      /\ Before(taken, <<Other>>, Frame)
  BY <1>1, <1>2, <1>3, NewestInOrder
<1>5. /\ Rising(driver', Frame) /\ Before(taken, driver', Frame)
      /\ Before(queue, driver', Frame) /\ Before(batch, driver', Frame)
  BY <1>1, <1>2, <1>4, AppendInOrder DEF QueuesInOrder
<1>6. driver' \in Seq(Items)
  BY <1>1, <1>2 DEF QueuesInOrder
<1> QED
  BY <1>1, <1>4, <1>5, <1>6 DEF QueuesInOrder

\* The frames the thread reads with one call are the oldest of the library.
LEMMA ReadInOrder == TypeOK /\ QueuesInOrder /\ ReadSome => QueuesInOrder'
<1> SUFFICES ASSUME TypeOK, QueuesInOrder, ReadSome PROVE QueuesInOrder'
  OBVIOUS
<1>1. PICK k \in 1 .. IF ThreadOf[backend].many THEN Len(driver) ELSE 1 :
        batch' = SubSeq(driver, 1, k) /\ driver' = SubSeq(driver, k + 1, Len(driver))
  BY DEF ReadSome
<1>2. /\ driver \in Seq(Nat) /\ queue \in Seq(Nat) /\ taken \in Seq(Nat)
      /\ UNCHANGED <<queue, taken, arrived>> /\ driver # <<>>
  BY DEF ReadSome, TypeOK
<1>3. k \in 1 .. Len(driver)
  <2>1. Len(driver) \in Nat /\ Len(driver) >= 1
    BY <1>2
  <2> QED
    BY <2>1
<1>4. batch' \in Seq(Items) /\ driver' \in Seq(Items)
  <2>1. driver \in Seq(Items)
    BY DEF QueuesInOrder
  <2>2. k \in Nat /\ 1 <= k /\ k <= Len(driver) /\ Len(driver) \in Nat
    BY <1>2, <1>3
  <2>3. SubSeq(driver, 1, k) \in Seq(Items) /\ SubSeq(driver, k + 1, Len(driver)) \in Seq(Items)
    BY <2>1, <2>2, SubSeqProperties
  <2> QED
    BY <1>1, <2>3
<1>5. /\ Rising(batch', Frame) /\ Rising(driver', Frame) /\ Before(batch', driver', Frame)
      /\ Before(taken, batch', Frame) /\ Before(taken, driver', Frame)
      /\ Before(queue, batch', Frame) /\ Before(queue, driver', Frame)
      /\ UpTo(batch', Len(arrived), Frame) /\ UpTo(driver', Len(arrived), Frame)
  BY <1>1, <1>2, <1>3, SplitInOrder DEF QueuesInOrder
<1> QED
  BY <1>2, <1>4, <1>5 DEF QueuesInOrder

\* A report that is no frame has no place in the order.
LEMMA ReportInOrder == TypeOK /\ QueuesInOrder /\ ReadReport => QueuesInOrder'
<1> SUFFICES ASSUME TypeOK, QueuesInOrder, ReadReport PROVE QueuesInOrder'
  OBVIOUS
<1>1. PICK e \in {Other, Garbage} : batch' = <<e>>
  BY DEF ReadReport
<1>2. UNCHANGED <<queue, taken, arrived, driver>>
  BY DEF ReadReport, busVars
<1>3. e \in Items /\ e \notin Frame
  BY ItemsAreNumbers
<1>4. DOMAIN <<e>> = {1} /\ <<e>>[1] = e /\ <<e>> \in Seq(Items)
  BY <1>3
<1>5. Rising(<<e>>, Frame) /\ UpTo(<<e>>, Len(arrived), Frame)
  BY <1>3, <1>4 DEF Rising, UpTo
<1>6. \A s : Before(s, <<e>>, Frame) /\ Before(<<e>>, s, Frame)
  BY <1>3, <1>4 DEF Before
<1> QED
  BY <1>1, <1>2, <1>4, <1>5, <1>6 DEF QueuesInOrder

\* What is no frame is left out.
LEMMA SkipInOrder == TypeOK /\ QueuesInOrder /\ PushSkip => QueuesInOrder'
<1> SUFFICES ASSUME TypeOK, QueuesInOrder, PushSkip PROVE QueuesInOrder'
  OBVIOUS
<1>1. /\ batch' = Tail(batch) /\ UNCHANGED <<queue, taken, arrived, driver>> /\ batch # <<>>
      /\ batch \in Seq(Nat) /\ queue \in Seq(Nat) /\ taken \in Seq(Nat) /\ driver \in Seq(Nat)
  BY DEF PushSkip, TypeOK, busVars
<1>2. /\ Rising(batch', Frame) /\ UpTo(batch', Len(arrived), Frame)
      /\ Before(taken, batch', Frame) /\ Before(queue, batch', Frame)
      /\ Before(batch', driver, Frame)
  BY <1>1, TailInOrder DEF QueuesInOrder
<1>3. batch' \in Seq(Items)
  BY <1>1 DEF QueuesInOrder
<1> QED
  BY <1>1, <1>2, <1>3 DEF QueuesInOrder

\* The frame that joins the queue is the oldest at hand and the newest there.
LEMMA PushInOrder == TypeOK /\ QueuesInOrder /\ Push => QueuesInOrder'
<1> SUFFICES ASSUME TypeOK, QueuesInOrder, Push PROVE QueuesInOrder'
  OBVIOUS
<1> DEFINE e == Head(batch)
           rest == Tail(batch)
<1>1. /\ batch' = rest /\ queue' = Append(queue, e) /\ UNCHANGED <<taken, arrived, driver>>
      /\ batch # <<>> /\ e # Other /\ e \in Nat /\ rest \in Seq(Nat)
      /\ batch \in Seq(Nat) /\ queue \in Seq(Nat) /\ taken \in Seq(Nat) /\ driver \in Seq(Nat)
      /\ Len(arrived) \in Nat
  BY DEF Push, TypeOK, busVars
<1>2. rest \in Seq(Items) /\ e \in Items
  BY <1>1 DEF QueuesInOrder
<1>3. /\ UpTo(rest, Len(arrived), Frame) /\ UpTo(<<e>>, Len(arrived), Frame)
      /\ Rising(rest, Frame) /\ Before(<<e>>, rest, Frame)
      /\ Before(taken, rest, Frame) /\ Before(taken, <<e>>, Frame)
      /\ Before(queue, rest, Frame) /\ Before(queue, <<e>>, Frame)
      /\ Before(rest, driver, Frame) /\ Before(<<e>>, driver, Frame)
  BY <1>1, TailInOrder DEF QueuesInOrder
<1> HIDE DEF e, rest
<1>4. queue' \in Seq(Frame \union {Garbage})
  <2>1. e \in Frame \union {Garbage}
    BY <1>1, <1>2 DEF Items
  <2> QED
    BY <1>1, <2>1 DEF QueuesInOrder
<1>5. UpTo(queue', Len(arrived), Frame)
  <2>1. DOMAIN <<e>> = {1} /\ <<e>>[1] = e
    OBVIOUS
  <2>2. e \in Frame => e <= Len(arrived)
    BY <1>3, <2>1 DEF UpTo
  <2>3. UpTo(queue, Len(arrived), Frame) /\ Len(arrived) >= Len(arrived)
    BY <1>1 DEF QueuesInOrder
  <2> QED
    BY <1>1, <2>2, <2>3, NewestInOrder
<1>6. /\ Rising(queue', Frame) /\ Before(taken, queue', Frame)
      /\ Before(queue', rest, Frame) /\ Before(queue', driver, Frame)
  BY <1>1, <1>3, AppendInOrder DEF QueuesInOrder
<1> QED
  BY <1>1, <1>2, <1>3, <1>4, <1>5, <1>6 DEF QueuesInOrder

\* The frame that the owner receives is the oldest in the queue and newer than
\* all that were received; garbage is not counted.
LEMMA ReceiveInOrder ==
  ASSUME TypeOK, QueuesInOrder, Receive
  PROVE  /\ QueuesInOrder'
         /\ UNCHANGED arrived
         /\ \/ UNCHANGED taken
            \/ /\ taken' = Append(taken, Head(queue))
               /\ Head(queue) \in LastOr0(taken) + 1 .. Len(arrived)
               /\ arrived[Head(queue)] = Head(queue)
<1> DEFINE e == Head(queue)
           rest == Tail(queue)
<1>1. /\ queue' = rest /\ taken' = IF e = Garbage THEN taken ELSE Append(taken, e)
      /\ UNCHANGED <<batch, driver, arrived>> /\ queue # <<>>
      /\ batch \in Seq(Nat) /\ driver \in Seq(Nat)
      /\ queue \in Seq(Nat) /\ taken \in Seq(Nat) /\ arrived \in Seq(Nat)
      /\ e \in Nat /\ rest \in Seq(Nat) /\ Len(arrived) \in Nat
  BY DEF Receive, TypeOK, busVars, threadVars
<1>2. rest \in Seq(Frame \union {Garbage}) /\ e \in Frame \union {Garbage} /\ taken \in Seq(Frame)
  BY <1>1 DEF QueuesInOrder
<1>3. /\ UpTo(rest, Len(arrived), Frame) /\ UpTo(<<e>>, Len(arrived), Frame)
      /\ Rising(rest, Frame) /\ Before(<<e>>, rest, Frame)
      /\ Before(taken, rest, Frame) /\ Before(taken, <<e>>, Frame)
      /\ Before(rest, batch, Frame) /\ Before(<<e>>, batch, Frame)
      /\ Before(rest, driver, Frame) /\ Before(<<e>>, driver, Frame)
  BY <1>1, TailInOrder DEF QueuesInOrder
<1> HIDE DEF e, rest
<1>4. CASE e = Garbage
  <2>1. UNCHANGED taken
    BY <1>1, <1>4
  <2>2. QueuesInOrder'
    BY <1>1, <1>2, <1>3, <2>1 DEF QueuesInOrder
  <2> QED
    BY <1>1, <2>1, <2>2
<1>5. CASE e # Garbage
  <2>1. e \in Frame /\ taken' = Append(taken, e) /\ taken' \in Seq(Frame)
    BY <1>1, <1>2, <1>5
  <2>2. e > 0 /\ e <= Len(arrived)
    <3>1. DOMAIN <<e>> = {1} /\ <<e>>[1] = e
      OBVIOUS
    <3> QED
      BY <1>3, <2>1, <3>1 DEF UpTo, Frame
  <2>3. UpTo(taken', Len(arrived), Frame)
    <3>1. UpTo(taken, Len(arrived), Frame) /\ Len(arrived) >= Len(arrived)
      BY <1>1 DEF QueuesInOrder
    <3> QED
      BY <1>1, <2>1, <2>2, <3>1, NewestInOrder
  <2>4. Before(taken', rest, Frame) /\ Before(taken', batch, Frame) /\ Before(taken', driver, Frame)
    BY <1>1, <1>3, <2>1, AppendInOrder DEF QueuesInOrder
  <2>5. QueuesInOrder'
    BY <1>1, <1>2, <1>3, <2>1, <2>3, <2>4 DEF QueuesInOrder
  <2>6. \A k \in DOMAIN taken : taken[k] \in Frame
    BY <1>2
  <2>7. LastOr0(taken) \in Nat /\ LastOr0(taken) < e
    BY <1>1, <1>3, <2>1, <2>2, <2>6, LastIsHighest
  <2>8. e \in DOMAIN arrived
    BY <1>1, <2>2
  <2>9. arrived[e] = e
    BY <2>8 DEF QueuesInOrder
  <2> QED
    BY <1>1, <2>1, <2>2, <2>5, <2>7, <2>9, SMTT(30) DEF e
<1> QED
  BY <1>4, <1>5

\* The other calls of the owner empty queues or leave them alone.
LEMMA OwnerInOrder ==
  ASSUME QueuesInOrder, Owner, ~ Receive
  PROVE  QueuesInOrder' /\ UNCHANGED <<arrived, taken>>
<1>1. /\ UNCHANGED <<arrived, taken, batch>>
      /\ queue' \in {queue, <<>>} /\ driver' \in {driver, <<>>}
  BY DEF Owner, InCall, Create, InitChannel, SetHandler, OpenBegin, CloseBegin, HandlerSet,
    StopNothing, StopRequest, StopJoin, Spawn, StartLine, CloseEnd, DeInit, threadVars, busVars
<1>2. \A S : <<>> \in Seq(S)
  OBVIOUS
<1>3. CASE queue' = queue /\ driver' = driver
  BY <1>1, <1>3 DEF QueuesInOrder
<1>4. CASE queue' = queue /\ driver' = <<>>
  BY <1>1, <1>2, <1>4, EmptyInOrder DEF QueuesInOrder
<1>5. CASE queue' = <<>> /\ driver' = driver
  BY <1>1, <1>2, <1>5, EmptyInOrder DEF QueuesInOrder
<1>6. CASE queue' = <<>> /\ driver' = <<>>
  BY <1>1, <1>2, <1>6, EmptyInOrder DEF QueuesInOrder
<1> QED
  BY <1>1, <1>3, <1>4, <1>5, <1>6

\* Every step keeps the order, and is a step of the stream or none.
LEMMA StepInOrder ==
  ASSUME TypeOK, QueuesInOrder, [Next]_vars
  PROVE  QueuesInOrder' /\ [Stream!Next]_(Stream!vars)
<1> DEFINE S == {"bus"}
           sent == [p \in S |-> arrived]
           passed == [p \in S |-> LastOr0(taken)]
           got == [p \in S |-> taken]
<1> USE DEF OneStream
<1>1. ASSUME UNCHANGED <<arrived, taken>> PROVE [Stream!Next]_(Stream!vars)
  BY <1>1 DEF Stream!vars
<1>2. CASE Owner /\ ~ Receive
  BY <1>2, <1>1, OwnerInOrder
<1>3. CASE Receive
  <2> DEFINE e == Head(queue)
  <2>1. QueuesInOrder' /\ UNCHANGED arrived
    BY <1>3, ReceiveInOrder
  <2>2. CASE UNCHANGED taken
    BY <2>1, <2>2, <1>1
  <2>3. CASE /\ taken' = Append(taken, e)
             /\ e \in LastOr0(taken) + 1 .. Len(arrived) /\ arrived[e] = e
    <3>1. taken \in Seq(Nat)
      BY DEF TypeOK
    <3> HIDE DEF e
    <3>2. LastOr0(taken') = e
      BY <2>3, <3>1 DEF LastOr0
    <3>3. passed' = [passed EXCEPT !["bus"] = e]
      BY <3>2
    <3>4. got' = [got EXCEPT !["bus"] = Append(@, sent["bus"][e])]
      BY <2>3
    <3>5. UNCHANGED sent
      BY <2>1
    <3>6. Stream!Deliver("bus")
      BY <2>3, <3>3, <3>4, <3>5 DEF Stream!Deliver
    <3> QED
      BY <2>1, <3>6 DEF Stream!Next
  <2> QED
    BY <1>3, <2>2, <2>3, ReceiveInOrder
<1>4. CASE Thread
  <2>1. UNCHANGED <<arrived, taken>>
    BY <1>4 DEF Thread, ThreadBegin, LoopCheck, WaitSignal, WaitTimeout, ReadSome, ReadNone,
      ReadReport, PushSkip, Push, HandlerLoad, HandlerCall, BatchDone, busVars
  <2>2. CASE ReadSome \/ ReadReport \/ PushSkip \/ Push
    BY <2>1, <2>2, <1>1, ReadInOrder, ReportInOrder, SkipInOrder, PushInOrder
  <2>3. CASE ~ (ReadSome \/ ReadReport \/ PushSkip \/ Push)
    <3>1. UNCHANGED <<arrived, taken, queue, batch, driver>>
      BY <1>4, <2>3 DEF Thread, ThreadBegin, LoopCheck, WaitSignal, WaitTimeout, ReadNone,
        HandlerLoad, HandlerCall, BatchDone, busVars
    <3> QED
      BY <2>1, <3>1, <1>1 DEF QueuesInOrder
  <2> QED
    BY <2>2, <2>3
<1>5. CASE Arrive
  <2>1. QueuesInOrder'
    BY <1>5, ArriveInOrder
  <2>2. /\ arrived' = Append(arrived, Len(arrived) + 1) /\ UNCHANGED taken
        /\ Len(arrived) + 1 \in 1 .. MaxFrames
    BY <1>5, VendorAssumption DEF Arrive, TypeOK
  <2>3. sent' = [sent EXCEPT !["bus"] = Append(@, Len(arrived) + 1)]
    BY <2>2
  <2>4. UNCHANGED <<passed, got>>
    BY <2>2
  <2>5. Stream!Send("bus")
    BY <2>2, <2>3, <2>4 DEF Stream!Send
  <2> QED
    BY <2>1, <2>5 DEF Stream!Next
<1>6. CASE ArriveOther
  BY <1>6, <1>1, ArriveOtherInOrder DEF ArriveOther
<1>7. CASE UNCHANGED vars
  BY <1>7, <1>1 DEF vars, threadVars, busVars, QueuesInOrder
<1> QED
  BY <1>2, <1>3, <1>4, <1>5, <1>6, <1>7 DEF Next

(***************************************************************************)
(* The channel implements a lossy message stream: the owner receives the   *)
(* frames in the order of their arrival and none twice, for every backend  *)
(* and whichever calls of the vendor library fail.                         *)
(***************************************************************************)
THEOREM VendorIsStream == Spec => ReceivesInOrder
<1>1. Init => Stream!Init
  <2> SUFFICES ASSUME Init PROVE Stream!Init
    OBVIOUS
  <2>1. arrived = <<>> /\ taken = <<>> /\ LastOr0(taken) = 0
    BY DEF Init, LastOr0
  <2> QED
    BY <2>1 DEF Stream!Init
<1>2. TypeOK /\ QueuesInOrder /\ [Next]_vars => QueuesInOrder' /\ [Stream!Next]_(Stream!vars)
  BY StepInOrder
<1> QED
  BY <1>1, <1>2, VendorTypes, QueuesInit, PTL DEF Spec, ReceivesInOrder, Stream!Spec
=============================================================================
