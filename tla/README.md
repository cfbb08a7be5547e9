# Uni.CAN: a TLA+ verification project

TLA+ models of Uni.CAN (the library under `src/src`, `src/include` and the tool under
`src/src_app`), checked with TLC on small instances and, where it pays, proved with TLAPS for
every value of the constants. Paths below are relative to the repository, line numbers to its
files. `PROJECT.json` lists components, runs, mutants, hazards and theorems, and maps every
definition to the lines it stands for.

## 1. Inventory of the system

| Part | Source | State | Operations | Who it talks to |
|---|---|---|---|---|
| IMP session protocol | `src/uni_can_protocol_imp.c` | table of sessions (state, peer, id, buffer, offset, last activity) | `start_send`, `add_frame`, `process`, `init`, `deinit` | the application feeds received frames in and puts the frame of every output on the bus |
| ProtoPlexer protocol | `src/uni_can_protoplexer.c` | table of reassemblies, one view handed out | `build_chunk(s)`, `add_chunk`, `add_chunk_view`, `init*`, `deinit` | queue below, or the tool directly |
| ProtoPlexer queue | `src/uni_can_protoplexer_queue.c` | outbox ring of chunks, inbox ring of messages, attempt counter | `send`, `add_chunk`, `poll_rx`, `poll_tx`, `poll_new` | callbacks `send_chunk`, `receive_chunk`, `rx_event` |
| Channel dispatch | `src/uni_can_channel.c` | table of operations of a channel | init/open/close/destroy/receive/transmit/filter | backends |
| C++ channel adapter | `src/can_channel_adapter.cpp` | receive function and cookie, the channel behind it | the same, plus the receive trampoline | backends, application |
| Receive queue and channel thread | `src/common_queue.h`, `src/can_channel_base.cpp` | queue with mutex and condition variable, abort flag, thread | `push`, `pop`, `empty`, `clear`, `threadStart`, `threadStop` | backend threads and consumers |
| SocketCAN backend | `src/backend_socketcan/` | socket, eventfd, thread flag | `Open`, `Close`, `TransmitMessage`, `threadProc` | Linux, receive handler |
| Windows backends | `src/backend_{ixxat,peak,vector,marathon,waveshare}/` | what is held of the vendor library, its event | `Init`, `Open`, `Close`, `DeInit`, `threadProc` | vendor libraries, receive handler |
| Uni.HAL backend | `src/backend_unihal/uni_can_unihal.c` | filters in the order of their slots | all of the dispatch, on the MCU peripheral and without heap | Uni.HAL, application |
| Factory | `src/uni_can_factory.cpp`, `src/can_provider.h`, providers of the backends | providers, devices | `refresh`, `get_count`, `get_info`, `create_channel` | drivers, CanManager |
| Messages | `src/uni_can_message.c` | none | `create`, `clone`, `free` | everything |
| J1939 | `src/uni_can_j1939_{pgn,msg}.c` | none | PGN and signal arithmetic | applications |
| CanManager of the tool | `src_app/can_mgr.cpp` | channel, worker thread, TX queue, subscribers, state, names | `Connect`, `Disconnect`, `SendMessage`, `SendProtoPlexer`, subscribe, worker loop | user interface thread, backend thread, worker thread, factory |
| Windows of the tool, dictionary | `src_app/window_*.cpp`, `src_app/protoplexer_dictionary.cpp` | lists of messages and of shown rows, ignore list and its file, selection, fields typed | drawing, clicks, receive handler, reading the dictionary, packing and explaining payloads | CanManager |

How the parts interact, from the bus upwards. A backend (SocketCAN, a vendor library, Uni.HAL)
receives frames, on the desktop in a thread of its own, puts them into the `SharedQueue` of its
channel and calls the receive handler from that thread. The application, or `CanManager` in the
tool, takes them out with `uni_can_channel_receive`, passes them to a protocol context
(IMP, ProtoPlexer or the ProtoPlexer queue; these are plain C without threads or clocks of their
own), and puts the frames that the context returns on the bus with `uni_can_channel_transmit`. On
the MCU the application does the same around Uni.HAL, with filters in place of a queue. The tool
gets its devices from the factory; its windows read them from `CanManager` and get messages from
its worker thread.

Which behaviours are hard, and what makes each part correct:

| Part | Hard behaviour | What must hold |
|---|---|---|
| IMP | frames without sequence numbers; both sides start at once; loss, repetition, delay past a timeout; a wrapping clock; failed allocations; restarts | sessions are never ambiguous, no buffer is overrun, every transfer has one outcome, a finished transfer was delivered, bytes of two transfers never mix, everything settles |
| ProtoPlexer | chunks without numbers; pairs interleave; loss in the middle of a message; a table with few entries; the lifetime of the view | only messages that were sent are delivered, in order and once; remains of a broken message do not spoil the next message of their own pair |
| ProtoPlexer queue | two rings that wrap and overflow; a network that asks again; a callback that runs while its message is still in the ring | both rings are queues, the message under the callback stays, from `send` to `rx_event` the service of the protocol is kept, both drain |
| SocketCAN backend, receive queue | a thread to be stopped through an eventfd wherever it is; failures in the middle of `Open`; push and handler in two steps; look and pop in two steps | calls return, no descriptor is used after it was closed, a channel is wholly open or wholly closed, messages arrive in order and all of them |
| Windows backends, adapter | any vendor call fails; `Close` and the destructor while the thread waits, reads or is in the handler; auto-reset events; handler and cookie set and read by different threads | the thread never outlives what it reads from, what `Open` acquires is released, signalled frames are read, the handler is called with its own cookie |
| CanManager | three threads around a condition variable without predicate; a queue that outlives connections; subscribers that go away | no use of a dead channel or plexer, the state shown is true, a message stays in its connection, no handler after unsubscribing, an awake worker drains both queues |
| Uni.HAL, J1939 | channels share the slots of one filter bank; peripherals refuse calls; addresses inside identifiers; signals packed into one word | granted filters stay in force, nothing wanted is missed, signals keep their values, a message means at its receiver what its sender meant |
| Factory, windows | devices come and go between drawing and clicking; three lists that must agree; a filter that four controls change; the dictionary is read at both ends | the device opened is the one shown, tables follow the filter, what is typed is what is shown |

## 2. The modules

Names follow the source. A definition with the comment `Faulty:` in front of another one of a
similar name is a variant with a plausible mistake in it; it is not part of any specification.
`PROJECT.json` names, for every property of a passing run, the variant that breaks it, so each
property is known to depend on the code it is about. Variables marked `history` record
what has happened for the properties and influence no step.

Which module uses which: `Imp` uses `ImpCanId` and `TableScan`; `ProtoplexerQueue` extends
`Protoplexer` and `Ring`; `J1939Node` extends `UniHal` and `J1939`; `ToolWindows` extends
`ToolDevices` and `ToolDictionary`; five modules refer to `MessageStream`. `UniHal`, `Doubles` (which `J1939` extends) and `ToolDictionary` extend `Bits`, the powers
of two. `SocketcanChannel`, `VendorChannel`, `CanManager`, `ToolDevices` and `ToolDictionary` extend `Order`, which says when the numbers of the
frames in a queue rise, when one queue is ahead of another, and what the part of a sequence at some positions is (`Picked`). `DataProofs` has the
lemmas about all of these and is used by every module of proofs.

### IMP: `ImpCanId`, `TableScan`, `Imp` (`MCImp`, `DataProofs`, `ImpProofs`)

`Imp` has the session table of every node on one bus. `StartSend` is `uni_can_imp_start_send`,
`AddFrame` is `uni_can_imp_add_frame` for the frame at the head of `rx[n]` with all its branches
(`AddForeign`, `AddToSession`, `AddOpening`, `AddUnknown`, and below them one action for every
kind of frame in either role), `Process` is `uni_can_imp_process`: one timeout or one
unacknowledged frame for each call. A call and the transmission of its output are one step, since
the header asks the caller to send the output before the next call. The identifiers on the bus
are packed and unpacked as the code does it (`ImpCanId`), first-fit scans of the table are
`FirstOf` (`TableScan`).

The clock counts modulo `ClockMod` and timeouts are computed with the difference modulo it, as in
`uint32_t`. `MaxIdle < ClockMod` (`ClockAssumption`) says that `process` is called at least once per turn of
the clock, without which no such difference can work. `Prompt = TRUE` says that a frame is handled in
the tick it was sent in, so that no answer is older than a timeout; `Prompt = FALSE` lets frames
be delayed past any timeout. Tables of 2 slots and buffers of 2 bytes that grow to 3 are small enough
to be exhausted by two transfers; the code's own numbers (32 bytes, 8 identifiers) appear as constants.
Payloads are numbered by the order of sending and are distinct (`PayloadsDiffer`).

`ExchangesInOrder` is the strengthening behind the properties of `imp_lossy`: every frame or answer on
the bus belongs to an open session of its initiator whose state it fits, the responder holds exactly the part of the payload that this
state says, nobody can have timed out, and no transfer has two frames under way. It is meant for `PromptAcked`, a bus that loses
frames and hands over the others in the tick they were sent in, with acknowledged transfers to single nodes; allocations may fail there, too.

### ProtoPlexer: `Protoplexer` (`MCProtoplexer`, `ProtoplexerProofs`)

One receiving context and any number of sending pairs. `Send` is `build_chunks` followed by the
transmission of all chunks of the message; `AddChunk` is one call of `add_chunk` or
`add_chunk_view` with every refusal of the code, in its order: the view given out before is
released first, then address, header, length, memory, identifier, overflow, checksum. Foreign chunks (`Intrude`) may be anything but a chunk of another pair's message:
`PairOf` is the pair a chunk is addressed for, and a chunk of number 0 belongs to no message. Memory of
the heap and of the application (`Static`) differ where the code does: in the limits, and in
allocations that may fail. The checksum is a constant operator: the theorems hold for any one, the runs use
one without collisions on their few payloads, as a collision of CRC-16 is
a property of the polynomial and not of this code; `Telling` is what
the runs' checksum has and a theorem that needs it says so. `MessagesFollow` follows the chunks of a message that nothing has harmed from the wire
through the table to the delivery, `MessagesRise` the order of the messages of a pair; neither is a property of its own. Header packing and the priority bits of the CAN
identifier are left out.

### ProtoPlexer queue: `Ring`, `ProtoplexerQueue` (`MCProtoplexerQueue`, `DataProofs`, `ProtoplexerProofs`)

Extends `Protoplexer`. The sending half (outbox, attempts) and the receiving half (context, inbox) of a queue
share no state, so the model has the former for every sender and the latter for one receiver.
`QueueSend`, `QueueAddChunk` (also what `poll_rx` does with each chunk), the three outcomes of a
round of `poll_tx` (sent, dropped, asked again), `poll_new` in two steps around `rx_event`, and
`init` on a running receiver. Between the two steps of `poll_new` anything else may happen, as the
callback may call the queue. Left out, and listed among the hazards: `rx_event` that calls
`poll_new`; likewise `send_chunk` that calls `poll_tx`. The callbacks are always configured. `MessagesPass` is `MessagesFollow` with
the outbox in front of the wire and the inbox behind the table; `QueueRises` is `MessagesRise` extended by the same two: what a pair has in
a ring shared with others is `Picked` out of it (`Order`). That
`build_chunk` fails after the checks of `send` have passed cannot happen and has no action.

### Channel on Linux: `SocketcanChannel` (`SocketcanChannelProofs`)

`CanChannelSocketcan` on `CanChannelBase` and `SharedQueue`. The owner's `Open` and `Close` are cut
into steps wherever the receive thread or a consumer can see a difference: `OpenBegin` (clears
the queue, even if the channel is open already), the refusals and failures, descriptors, signal,
join, thread, flag; the thread's at poll, read, push and handler; the consumer's `ReceiveMessage`
at its two critical sections. `poll` blocks until the socket is readable or the eventfd is set.
`_thread_abort` is written by the base class but this backend never reads it, so it is not a variable. `Quiesce`
says that the owner calls `Open` and `Close` only while no consumer is between look and pop, as in an
application that does both from one thread (the tool: `Disconnect` joins its worker first).
Setting up the network interface and the bit rate is external and can fail.

### Channels on Windows: `VendorChannel` (`VendorChannelProofs`)

The five Windows backends behind `CanChannelAdapter`. What differs between them is data: `Class`
says, per backend, what every vendor call of `Init` and `Open` acquires, in the order of the code,
and what `Close` and `DeInit` give back; `ThreadOf` says what the thread uses, whether it waits for an
event, reads until nothing is left, takes several frames at once, or skips what is no data frame.
Every vendor call may fail, and `Granted` is what the calls before it have left behind. The thread
is cut at the check of the abort flag, wait, read, push, the read of the handler by
`adapter_receive_handler` and its call; the owner at setting handler and cookie, the abort
flag, the join, spawning, the return to the library and freeing. An auto-reset event is set by an arrival
and reset by the wait. The library with its own queue is external; a read that reports a status without
writing the frame (PEAK) hands on `Garbage`, which the properties do not count; `taken`, a history, has the frames that the owner has received without
such ones. Owner and
consumer are one thread, in the order of `CanManager`.

### MCU: `Bits`, `Doubles`, `UniHal`, `J1939`, `J1939Node` (`MCJ1939Node`, `J1939NodeProofs`)

`UniHal` has the backend and the dispatch in front of it (`Callable`), one action per function. The
peripherals are external: they share one bank of filter slots, may refuse every call, hold a receive FIFO and
mailboxes, and send these in any order. The flag `opened`, which the code writes and never reads, is
left out. `J1939` has identifiers and signals as pure operators, with masks and shifts as
divisions and remainders. The powers of two that these need are the recursive function `Pow2` of `Bits`, up to the 64 bits of the widest number
of the code, and `Bit` is a bit of a number.

A SLOT signal stands for a double, and `signal_get` and `signal_set` multiply, add and divide doubles; `signal_set` cuts the
quotient off. `Doubles` has this arithmetic: a number is an integer of the least unit that doubles tell apart (2^-1074), 1.0 is `Unit` of them,
and `Nearest(n, d)` is the double nearest to n / d, with `Precision` digits (53), the even one of two, down to the denormal ones. `SignalGet` rounds the
product and the sum, `Quotient` the difference and the quotient, each where the code does. So a number on a step may be read back as the step below: 0.6 at a scale of
0.1 is written as 5, as 0.6 / 0.1 is 5.999... in doubles, and read as 0.5. `SignalsKeepValues` asks for what is true of all numbers: what is read is not
above the number and at most one step below it, but for what five roundings make of it (`Slack`). Not modelled are numbers too great for a double, scales
that are negative or denormal, and SLOT fields of more than `Precision` - 2 bits (51).

`J1939Node` composes both: applications (external) ask for groups with the
filter of a PGN, fill a message signal by signal, send it or a request, and receive. Each message carries, as
history, what its sender meant. `UNI_CAN_UNIHAL_FILTERS_MAX`, the width of an identifier, mailboxes and
the bits of a payload are constants; a payload has 8 bits in the run, in which three signals leave no bit unused.
`DescAssumption` says of a description of signals that they fit the payload, that a scaled one has room for the encoding of
NaN, and what the paragraph above restricts; `DoubleAssumption` that 1.0 and what is greater has all digits; `NodeAssumption` that identifiers have 29 bits, addresses 8, and that the groups are numbers `pgn_create` keeps.
`NoneUnderstood` says of foreign frames that `receive_to` hands none of them over; the run evaluates all three.

### Manager: `CanManager` (`CanManagerProofs`)

`APP::CanManager`. `Connect` and `Disconnect` are cut into steps at everything the worker or the
receive thread can see: the abort flag, the notification, the join, the teardown of channel and
plexer, the clearing of the queue. A channel that was made but could not be opened is
invisible to the others and is part of `ConnectNotOpened`. The worker is cut at its reads of the
flag, the wait, the receive, the call of the subscribers (under `m_receive_subs_mutex`), the
decoding, and the drain of the send queue (under `m_tx_queue_mtx`, held to the end of the drain). A notification reaches
the worker only while it waits; otherwise it is lost, as for any condition variable; spurious
wake-ups may happen. `chan` is the channel as the `SocketcanChannel` module describes it: open or
not, joined and emptied by `Close`, with a receive thread that pushes and then calls the handler.
What the plexer decodes is left open: a frame may or may not complete a message.

### Windows of the tool: `ToolDevices`, `ToolDictionary`, `ToolWindows` (`MCToolWindows`, `ToolProofs`)

`ToolDevices` has the factory, the providers, the names in the manager and the connect window. A
provider is a record: whether it needs a start, may fail, hides a device in use, stops counting at the first number that is
missing, and what it keeps of a device as its `device_index` (`knows`). This is a number that is the device's own while it is there, and may be given to another one
afterwards (the channel of PEAK and Marathon), a place in the list that the driver makes at the moment (Vector, Waveshare), or something that is never given twice
(`VciObjectId` of IXXAT, the interface index of Linux). `handle` is what the drivers call each device that is there: a device that comes gets any number
that is free, so a number or a place may come to mean a device that is not the one in the list, and `Named` is whichever it means when the channel is made. `moved`, a history,
has the devices that came or went since the list was made. A negative count of Waveshare devices (`can_waveshare_provider.cpp:34`), and the exception of
`std::stoi` when an interface goes while it is read (`common_sysfs.cpp:36`), which ends the tool, are left out. That PEAK and Marathon hide a busy device is external: it stands for how their
drivers answer. A frame of the user interface draws the label of the selected device and then handles at
most one click; devices come and go at any time. `Connect` of this module is which device is opened, `CanManager`
has what happens to the connection then. `ToolDictionary` reads the files (an exception keeps what was read before
it), packs fields into payloads and explains payloads; `u16le` and `bytes` are packed but not shown, as in the code.
`ToolWindows` adds the receive window: its handler, which runs in the worker
thread in two steps, and the clicks, each with exactly the rebuild and the save it has: Remove does not save, the cross
of the filter window does not rebuild. Where drawing or a click meets the handler, or
Remove an empty list, the behaviour is undefined; the model sets `broken` and ends. The transmit window is the one of
a peer with the same dictionary; what it types is kept by the name of the field and by the kind of its type, a number, a check box or a text, as in
`ProtoPlexerFieldState`, and a number is clamped by every field that shows it. A byte has 2 bits in the run, so that numbers of four bytes stay small.
`DeviceAssumption` says that every device belongs to one provider and that builds are lists of providers, `ToolAssumption` that the files are what
a dictionary may have and what is typed are numbers and bytes, `ByteAssumption` that four bytes fit into the widest number.

### `MessageStream`

The abstract specification: streams of messages that are delivered in order, unchanged and at
most once, either all of them or with gaps. `Protoplexer`, `ProtoplexerQueue`,
`SocketcanChannel`, `VendorChannel` and `CanManager` are shown to implement it, each with a refinement mapping
(`INSTANCE MessageStream WITH`) that reads the sent and delivered messages off the history
variables; `passed` is the number of the last delivered message.

## 3. What is checked with TLC

| Run | Bounds | Question and properties |
|---|---|---|
| `imp_lossy` | 2 nodes, 2 slots, 3 transfers of 2, 1 and 0 chunks, 1 lost frame, frames handled in time | does stop-and-wait hold (`StopAndWait`), is a finished transfer delivered (`FinishedIsDelivered`), are sessions unambiguous (`UniqueKeys`), do all transfers end (`TransfersEnd`) |
| `imp_delayed` | 2 nodes, 2 transfers in every mode, also broadcast, any delay, clock modulo 4 | do bytes of two transfers ever mix (`DeliveredIntact`), is a timeout ever early (`TimeoutMatchesElapsed`) |
| `imp_noise` | 2 nodes, 1 identifier per direction, 2 mishaps of all kinds, foreign frames | buffers (`BuffersInBounds`), one outcome (`OneOutcomePerTransfer`), no second delivery (`DeliveredOnce`), an end to everything (`EverythingSettles`) |
| `plexer_lossy` | 2 pairs, 3 messages, heap, 2 mishaps | implements the lossy `MessageStream` (`LossyStream`) |
| `plexer_noise` | 2 pairs, table of 1, static memory of 3 bytes, 2 mishaps, malformed chunks | is a message that arrives whole and never finds the table full delivered, whatever was refused or left over before (`UnharmedIsDelivered`) |
| `queue_lossy` | 2 streams in one outbox of 3, inbox of 2, 1 mishap | implements the lossy one (`LossyQueueStream`); is all that is not dropped handed over (`UndroppedIsHanded`); does the message under `rx_event` stay (`EventMessageStays`); do both queues drain (`QueuesDrain`) |
| `socketcan_threads` | 3 openings, 3 frames, 2 mishaps, 1 consumer | descriptors and thread (`ThreadHasDescriptors`), order (`ReceivesInOrder`), that what was announced is received (`QueueEmpties`) and that every call returns (`CallsReturn`) |
| `vendor_threads` | each of 5 backends, 2 openings, 2 frames, 1 mishap | the thread and the library (`ThreadHasDriver`), the handler (`HandlerHasCookie`), what is left held (`ClosedIsReleased`), `CallsReturn`, `SignalledIsRead`, `ReceivesInOrder` |
| `unihal_node` | 2 channels, bank of 3 slots for 1 + 3 wanted groups, messages of at most 2 signals, 1 foreign frame | `FiltersInForce`, `WantedIsReceived`, `SignalsKeepValues`, `UnderstoodIsMeant` |
| `manager_threads` | 2 connections, 2 frames, 2 messages, 1 mishap | teardown (`WorkerHasConnection`, `HandlerHasWindow`), state (`StateTellsTheTruth`), order and place (`PassesInOrder`, `SentInItsConnection`), drain (`AwakeWorkerServes`, `WaitingWorkerStops`) |
| `manager_wakeup` | 1 connection, 1 frame | finding, see below |
| `tool_windows` | Windows with 2 providers, or Linux; 2 devices each, any of them there at first, 2 come or go; 2 messages of 3 identifiers, ignore list of 2; one window at a time | the device (`OpensWhatIsShown`), the tables (`TablesFollowTheFilter`), the fields (`TypedIsShown`) |

Why these bounds are enough to be interesting: two slots, two pairs, two senders and two
connections are the least for which a mix-up is possible; messages of two chunks the least with a
middle that can be lost; an outbox of three holds one message of two chunks and half of the next,
so that it wraps at every position; two mishaps are what it takes to lose the end of
one message and the beginning of the next (`plexer_lossy`), and one is enough for everything
that starts from a single failure. Three openings let the channel be opened after a refusal and after a close;
two let a Windows channel be closed after any half of an `Open` and opened again. In `unihal_node` the first channel
has no slot, so that it is refused at once, and the second has three slots of which
`UNI_CAN_UNIHAL_FILTERS_MAX` leaves two: both limits of `filter_add` bite. The signals of its message fill all 8 bits: raw, scaled
with a negative offset, raw, with values that are not a number, below, inside and above the range. Doubles have 8 digits there, the scale is 0.2 as near as they
come to it, and one of the numbers is a step that is read as the one below (`StepIsLost`). In `tool_windows`
the first file of the dictionary ends in an exception after one message that the second one describes again; fields lie behind
a gap, share a byte, overlap and have either byte order; numbers are within and above their range; the providers
between them hide, fail, start and count, and know their devices by number, by place and by what is unique. Two devices of each and two changes are the least with which a device is pulled out
and another one gets its number. The two windows share the connection and the label of the frame, nothing else, so the run takes them one at a time (`OneWindowAtATime`, a constraint):
devices come and go, and some are missing at first, while the receive window is as it was at the start, and the receive window is used with all devices there. What the bounds leave open the theorems of section 4 close for
the safety part named there.

Deadlock is checked for `imp_*`, `socketcan_threads` and `manager_*`, which never stop (the clock ticks,
the owner can call `Close`, the user can disconnect). It is not where the system may really stop: in `plexer_*` and
`queue_lossy` everything may have been sent and delivered; in `vendor_threads` the channel may be destroyed and is not created again;
in `unihal_node` nobody has to call anything, and all channels may be destroyed with the foreign frames used up;
in `tool_windows` the model ends at undefined behaviour (`broken`).

Fairness. IMP: applications keep feeding received frames to `add_frame`, keep calling `process`,
and time goes on: the header asks for it. Queue: the main loop polls both ways, `rx_event` returns, and
the network does not ask for a chunk again for ever (`PassOn`). `SocketcanChannel`, `VendorChannel` and `CanManager`:
threads that can run do run, and a call that has been begun goes on; waits of the Windows threads end because each has a
timeout or polls. Nowhere does anybody have to send, connect, close
or fail. There is no strong fairness. `CallsReturn` is about a bounded number of frames: the Linux
thread reads until the socket is empty before it looks at the eventfd, so a bus that is
always busy could keep it from stopping. UniHal and the windows have no threads of their own that could be fair to,
so nothing is said about their liveness.

### Findings

* `manager_wakeup`: "Always publish raw CAN chunks" (`src/src_app/can_mgr.cpp:311`): a frame announced
  while the worker is on its way to `m_thread_cv.wait` stays in the queue until something
  else happens. `AwakeWorkerServes` is what remains true: a worker that was woken up does empty both queues.

For the same reason `Disconnect` can wait for ever (the worker clears `m_thread_abort` after the
user has set it, or misses the notification). No text in the repository promises otherwise, so it is
not listed as a finding; `WaitingWorkerStops` states the case in which it does return.

Other places where the code allows more than one may wish, and says nothing about it; `PROJECT.json` has the lines:
two consumers of one channel (`ReceiveMessage` looks and pops in two critical sections, and `pop` waits); messages that nobody has received when
`SharedQueue::clear` drops their pointers; status reports of PEAK that become frames; the port of Vector (with its handle) and the event of IXXAT that
no `DeInit` gives back (`ClosedIsReleased` leaves out exactly these); a device that gets the number or the place of one that was
unplugged, and is opened in its stead (`OpensWhatIsShown` speaks of devices for which this cannot have happened since the list was made, `StillKnown`); what is left of a
broken message in the table of reassemblies, which with a full table costs other pairs their messages until its own pair begins another one (`UnharmedIsDelivered` counts a message that finds the table full as harmed); drawing while the handler appends;
Remove on an empty ignore list; signals of 64 bits and numbers below the offset of their signal.

## 4. What is proved with TLAPS

All for every value of the constants that satisfies the named assumptions of the module. Where a theorem needs more than
these, the hypothesis is part of its statement and named below.

**IMP (`ImpProofs`).**

* `SessionTablesInOrder`: `Spec => []SessionInvariant`, and from it `TypeOK`, `UniqueKeys` and
  `BuffersInBounds`. The keys of two slots of one node differ because (`RolesFixKeys`) the role of
  a slot fixes the parity of its identifier, which in turn needs that no START on the bus carries the
  parity of the wrong side, and because `start_send` skips identifiers in use towards the peer; so
  frames on the bus are part of the invariant. `NoiseAssumption` says that
  foreign frames keep that parity, too. The proof has a lemma per handler, each showing that the one
  slot it writes is well formed and its key new.
* `TimeoutsAreTrue`: `TimeoutMatchesElapsed` follows from a second invariant, `AgesOK`: the
  difference modulo `ClockMod` of the clock and a session's last activity is the time that has gone by. A call writes at
  most one slot, and that one afresh (`Fresh`); a tick keeps the equation across the wrap (`TickAges`), which needs
  `ClockAssumption`.
* `OutcomesAreSingle`: `OneOutcomePerTransfer`, on any bus and through restarts. Its strengthening `OutcomesOK` says that only sending
  slots carry a transfer; every handler either leaves a slot its transfer or reports it once and frees the slot.
* `TransfersStopAndWait`, `FinishedMeansDelivered`, `DeliveriesAreIntact`: `StopAndWait`, `FinishedIsDelivered` and `DeliveredIntact`
  under `PromptAcked`; `DeliveriesAreSingle`: `DeliveredOnce` under `PromptAcked` and `PayloadsDiffer` (without it two equal messages that
  were both sent count as one delivered twice). All four come from `ExchangesInOrder`, inductive together with `SessionInvariant` and `OutcomesOK`. It is
  needed as a whole: that an ACK means what the sender takes it for rests on there being no second frame,
  that a chunk goes to the right place rests on what the receiver holds, and that both ends are still there rests on their last activity
  being now. Every handler is shown to take the one frame of its exchange off the bus and to put at most one there, with
  the slots as that frame tells (`InitiatorCalls`, `ResponderCalls`, `AckedStart`, `QuietStep`); a key that is new to a sender is new to
  the bus, as every frame has its session. A timeout leaves no frame behind that could be misunderstood (`TimeoutKeepsExchanges`), because the clock
  ticks only when no frame is under way.
* `LateDeliveriesAreIntact`: `DeliveredIntact` for transfers of every mode, broadcasts included, under `Reliable`: a bus that neither
  loses, duplicates nor adds a frame, but may be late by any time, so that sessions time out and their identifiers are used again while
  their frames are on the way; nodes may restart and allocations fail. Frames have no number; the invariant `TransfersContinue` says what takes its
  place. For each exchange (initiator, destination, identifier) and each node that can hear it, the frames in the queue of that node lead (`Leads`,
  `AllLead`), one behind the other, from what the slot of the receiver holds (`Received`) to what the slot of the initiator has sent
  (`Emitted`): a data frame leads from its offset to the end of its chunk, START to the beginning of its transfer from anywhere, and END and ABORT_WA
  to anywhere, as what comes next begins a transfer. A handler takes the first frame (`Takes`) or appends one that goes on
  from the end (`GoesOn`), and `CallKeeps` puts the two together for all handlers; END, at the head, then finds the whole payload (`EndDelivers`).
  `Reliable` also asks that no message is refused (`Rejected = {}`). This is needed: with a message that is refused TLC finds a
  late NACK of one transfer that makes the next one with the same identifier repeat a chunk which is stored already.

**ProtoPlexer (`ProtoplexerProofs`).**

* `ReassembliesInOrder`: `Spec => []ReassemblyInvariant`, for any checksum. A call first releases the view,
  then chooses, then writes one entry; the lemmas `ReleasedOK`, `ChosenOK`, `FilledOK`, `StoredOK`
  and `GivenUpOK` follow these steps.
* `UnharmedMessagesArrive`: `UnharmedIsDelivered`, for every table, checksum and mishap, from `MessagesFollow`: an acceptable message that nothing has harmed
  is wholly on the wire, or its first chunks are in the entry of its pair and the others on the wire, or it has been handed over. What is counted as
  harm is stated by the actions that do it (loss, a chunk of the pair in between, a restart, memory that runs out, a full table). The last of these
  includes a table that is filled by what is left of broken messages of other pairs: a wrong CRC or a lost last chunk leaves an entry behind, as in the code.
* `HandedOverAsAnnounced` under `NoRepeats` (a wire that repeats nothing and makes nothing up, but may lose anything): what is handed over has the identifier, length and
  checksum of a message of its pair, and the numbers of these messages rise. `MessagesRise` is the invariant. This much is true with CRC-16.
* `LossyIsStream`, under `NoRepeats` and `Telling`: the refinement of the lossy `MessageStream`, initial states and steps. That the
  bytes are the ones sent needs a checksum that tells them from any other bytes of that length; CRC-16 does so only for short messages, hence the
  separate theorem before.

**ProtoPlexer queue (`DataProofs`, `ProtoplexerProofs`).**

* `DataProofs`: lemmas on first-fit scans, on rings (putting appends and popping takes the head, for
  every size, head and count, by arithmetic modulo the size: `WrapUp`, `WrapDown`), and on queues of numbered frames: what taking the head, appending and moving
  from one queue to the next do to `Rising` and `Before`. `PickedAppend` says what appending does to the part of a queue that belongs to one of
  several, `PickedFacts` that a part has its elements, all of them, in their order; both rest on `RanksTaken` (the n-th element with a property is
  there if n elements have it), an induction over the set of lengths for which it holds (`AllNaturals`), as the library's theorems on induction have
  an operator as parameter. `StepByStep` makes recursive functions usable in the same way: one that is given from one number to the next exists, so
  that it is what its definition says. The powers of two and the fields of a number below come from it.
* `QueuesInOrder`: `QueueSpec => []QueueInvariant`, with `OutboxKeepsOrder` and `EventMessageStays`.
  The rings are related to the history of what went in and out; that a chunk added during `rx_event` does not overwrite
  the message follows from the full ring being refused.
* `UndroppedMessagesAreHanded`: `UndroppedIsHanded`, from `send` to `rx_event`. `MessagesPass` is inductive together with `QueueInvariant`: what is
  under way of a pair is the wire followed by its chunks in the ring of its sender, and `poll_tx` moves one from the latter to the former.
* `LossyQueueIsStream`, under `NoRepeats` and `Telling`: the refinement of the lossy `MessageStream` from `send` to `rx_event`, initial states and steps.
  Its invariant is `QueueRises`: the messages of a pair whose first chunks wait in the outbox were sent after those that are on the wire, in
  the table or handed over, and the messages kept in the inbox rise, even where messages of other pairs lie between them and `poll_new` takes from the other end.

**Threads (`SocketcanChannelProofs`, `VendorChannelProofs`, `CanManagerProofs`).**

* `ChannelInOrder`: `Spec => []ChannelInvariant`, which says for every place of the owner in
  `Open` and `Close` which of socket, eventfd, flag and thread exist (`OwnerHolds`) and that a set eventfd means that somebody
  is closing (`SetForStop`). `AllOrNothing`, `ThreadHasDescriptors` and `EndsOnRequest` follow.
* `ManagerInductive`: `Spec => []ManagerInvariant` in the same manner, with `WorkerHasConnection`,
  `StateTellsTheTruth`, `SentInItsConnection` and `HandlerHasWindow`. Needed besides these: nothing is
  running while `Connect` builds up (`NoWorkerWhileConnecting`), what is torn down at which step
  (`Disconnected`, `Connected`), and that all queued messages belong to the present connection, as the queue
  is empty whenever a connection is counted.
* `Life` and `VendorHandler`: `LifeInvariant` and `HandlerInvariant`, with `ThreadHasDriver` and
  `HandlerHasCookie`. `ClassFacts` says of every backend that its thread uses only what its `Init` and `Open` acquire and
  that `Close` takes nothing of `Init` away; the rest is which thread exists at which step of the owner. The handler is
  called with its cookie because both are set before there is a thread. `VendorRelease`: `ClosedIsReleased` follows from `ReleaseInvariant`, which
  adds what `Close` has yet to give back at each of its steps; `ClassReleases` says of every backend that `Close` gives back
  all that its `Open` acquires, whichever call of `Open` failed. `TypeOK` is a theorem of its own.
* `ChannelIsStream`, `VendorIsStream`, `ManagerIsStream`: the refinements of the lossy `MessageStream` (`ReceivesInOrder`, `PassesInOrder`), initial states and
  steps, for any number of openings, frames, failures and consumers. The invariants `QueuesInOrder` (channels) and `FramesInOrder` with `MessagesInOrder` (manager) say that the
  queues a frame passes through are in order, each one ahead of the one before it: delivered, at the consumer, queue, at the thread, socket or library.

**MCU (`J1939NodeProofs`).** `NodeFilters`: `NodeSpec => []FiltersInForce`, for every division of the bank that gives channels
slots of their own (`SlotsAssumption`). It is inductive together with the types of `filters` and `bank`: a granted filter goes into the
slot after the last one of its channel, which is free of others by the assumption. The other three theorems rest on `NodeInvariant`,
which adds to this:

* `DraftOK`, every signal written so far reads as it was given. `NearestFacts` says how far a rounding moves a number (half of the distance of two doubles
  at most, and never past another double), `QuotientFacts` and `CodeRounds` what the quotient and the product and sum make of a number, and `EncodingReads` puts them together to the one step and the `Slack` of `SignalsKeepValues`. `SetKeeps` shows that writing one leaves the others alone: they are fields of one number,
  apart from each other (`SignalsApart`), and a field behind or before the one written reads the same (`FieldWritten`, `FieldBehind`, `FieldBefore`).
  `SignalsKeep` (`NodeSpec => []SignalsKeepValues`) follows.
* `AskedOK`, each group an application has asked for, and was granted, has a filter in a slot of the channel; `GroupPasses` shows, bit by bit (`MaskBits`,
  `MiddleBit`), that the filter of a PGN lets every identifier of that group and address through.
* `BusOK`, whatever a node has put on the bus still says what was meant, from the mailbox to the receive FIFOs (`PostedIsSent`). `CreateFields` gives
  back the parts that an identifier was made of.
* `DueOK`, a message that was on the bus while a node wanted it is in the FIFO of that node, as a frame that `receive_to` hands over, or has been received. It needs
  `AskedOK` and `BusOK`, as a frame passes the filter for what its identifier says; what `receive_to` skips is nothing that it would hand over
  (`SkippedFacts`). `WantedAreReceived` (`WantedIsReceived`) follows.
* `UnderstoodAreMeant`: `NoneUnderstood => (NodeSpec => []UnderstoodIsMeant)`, from `BusOK`. The hypothesis is needed: a foreign frame that looks like a message of
  the group has no meaning to compare with.

All of this is arithmetic with powers of two of a variable exponent, which the SMT backend does not have. That `Pow2` has the values its definition
gives is proved from the definition (`Powers` in `DataProofs`, by `StepByStep`), and from it that powers multiply (`PowersMultiply`);
the rest is division with remainder by products of powers.

**Windows of the tool (`ToolProofs`).** The three properties of the run `tool_windows`, for any devices and builds, any dictionary and any ignore list.

* `DeviceIsTheOneShown`: `ToolSpec => OpensWhatIsShown`, an action property. `DeviceInvariant` says that the names in the manager are those of the list in the factory
  (`names = Names(devices)`: whatever refreshes one refreshes the other), that the label in a frame is the name at the selected index, and that every entry means
  the device it names (`Meant`) if that device (for a number) or any of its provider (for a place) has not moved since. For this no driver knows two devices by the same, nor has given
  out what it will give later on (`HandlesDiffer`); `ChangeKeepsDevices` shows that a device that comes or goes leaves all this in force, and `ConnectOpens` follows. The list is the concatenation of what the providers report: `FlattenedFacts` says of
  the fold in the community modules that it is made of what its parts are made of.
* `TablesShowWhatPasses`: `ToolSpec => []TablesFollowTheFilter`. Between the two steps of the handler the property says nothing, as a message is in the list and not
  yet in the table, and is no induction hypothesis, so `TablesInvariant` says it of the messages before that one (`Passed`), and of the state in which nothing undefined has happened. `RebuiltFollows` is
  what a rebuild makes, `FollowsNext` what the handler does with one more message. Every click that changes the filter or the ignore list rebuilds, apart from
  the cross, which turns the filter off and by that asks less of the tables.
* `WhatIsTypedIsShown`: `ToolSpec => []TypedIsShown`. The state has little part in it: `RowInvariant` says that the message in the handler was built by
  `PayloadOf` from what was typed, and the dictionary has field lists of either file (`LoadedFields`). The rest is about the operators. A number is the sum of
  its bytes in either order (`LowestAddUp`, `DecodedIsEncoded`); writing a bit of a byte leaves a byte with the other bits as they were (`WithBitFacts`); what is written to some
  cells leaves all others alone (`WriteFieldFacts`). By induction over the fields that come later, the payload still has the value of a field whose cells none of
  them touches (`PayloadHolds`); the payload is then long enough for it, and the summary has it (`HeldIsShown`, `SummaryHas`). That what was typed fits
  into the field is due to the clamping (`TypedFits`), also where two fields have the same name.

The inductive invariants were found with TLC on the instances of section 3 before they were proved; as they hold for all instances, the runs
do not repeat them. Of the properties of the runs, those named above are proved and checked.

Only model-checked:

* all liveness properties, since `ENABLED` and fairness are out of the prover's reach;
* `DeliveredOnce` outside of `PromptAcked` (`imp_noise`: duplicates, foreign frames, restarts);
* what the code does with a signal as wide as the payload, by whose width it shifts, and with a number below the offset of a scaled signal: both
  are left open by the language, and the properties of signals leave them out;
* the windows of the tool once something undefined has happened: the model ends there, as the language says nothing more.

The type invariants of `Protoplexer`, the queue,
both channels on threads and the manager are part of the invariants above.

## 5. What is not modelled, and why

* CRC-16 itself, in its table and its polynomial: pure data, a constant operator here.
* `TransmitMessage` of the backends and `adapter_transmit`: they hand a frame to the kernel or the vendor library
  and keep no state.
* Timings, bit rates, lengths and flags in the forms of the vendor libraries: conversions without control.
* The transmit throttle of `CanManager` and the setters of its configuration: what they change is read at the next
  connection only, and the throttle is a pause.
* `uni_can_message.c`: allocation and copying of one object. An allocation that fails appears at its callers; in a receive
  function of the C interface it leaves everything as it was.
* `uni_can_j1939_pgn_replace_addr`, and the transport protocol of J1939, which has no code yet.
* Main loop, menu and `app_state` of the tool: they draw the windows one after the other. Of the windows: labels, names of addresses,
  layout, and the editing of raw frames.
* Calls from inside callbacks that the headers neither allow nor forbid: `poll_new` from `rx_event`, `poll_tx` from `send_chunk`.
* `src/3rdparty`, vendor headers and binaries; `src/src_tests` was read as a reference.

What could follow as a model: a composition of `CanManager` with `SocketcanChannel` in place of its own short form of a channel.
