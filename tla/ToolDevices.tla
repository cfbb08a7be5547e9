---------------------------- MODULE ToolDevices ----------------------------
(***************************************************************************)
(* Which device the tool connects to: the factory with its providers, the  *)
(* names that the manager shows, and the connect window.  CanManager.tla   *)
(* has what happens to the connection afterwards.                          *)
(*                                                                         *)
(* A frame of the user interface draws the label of the selected device    *)
(* and then handles at most one click.  Devices come and go at any time,   *)
(* also between the two.                                                   *)
(***************************************************************************)
EXTENDS Order, SequencesExt

CONSTANTS
  Builds,      \* the lists of providers that a build may have
  Units,       \* the devices, a sequence: drivers enumerate them in this order
  ProviderOf,  \* ProviderOf[u]: the provider of device u
  ChanCnt,     \* ChanCnt[u]: device_chancnt
  MaxChanges   \* how often devices come and go at most

(***************************************************************************)
(* The providers.  starts: needs Init, which for Vector may fail; fails:   *)
(* asking its driver for the devices may fail; hides: a device in use is   *)
(* left out; counts: the list stops at the first name that is missing;     *)
(* knows: what stands for a device in device_index.  A "number" is that of *)
(* the device as long as it is there and may be given to another one       *)
(* afterwards, a "place" is that in the list that the driver makes at the  *)
(* moment, and what is "unique" is never given twice.                      *)
(***************************************************************************)
\* The number of the channel.
Marathon ==
  [starts |-> TRUE, fails |-> FALSE, hides |-> TRUE, counts |-> FALSE, knows |-> "number"]
\* VciObjectId.
Ixxat ==
  [starts |-> FALSE, fails |-> TRUE, hides |-> FALSE, counts |-> FALSE, knows |-> "unique"]
\* channel_handle.
Peak ==
  [starts |-> TRUE, fails |-> TRUE, hides |-> TRUE, counts |-> FALSE, knows |-> "number"]
\* channelMask has the bit of the place.
Vector ==
  [starts |-> TRUE, fails |-> TRUE, hides |-> FALSE, counts |-> FALSE, knows |-> "place"]
\* A count of devices below 0, which would be taken for a great one, is left out.
Waveshare ==
  [starts |-> TRUE, fails |-> FALSE, hides |-> FALSE, counts |-> FALSE, knows |-> "place"]
\* ifindex.  That the interface goes before it is read, which ends the tool, is left out.
Socketcan ==
  [starts |-> FALSE, fails |-> FALSE, hides |-> FALSE, counts |-> TRUE, knows |-> "unique"]

\* By the names that they give themselves.
Provider ==
  [marathon |-> Marathon, ixxat |-> Ixxat, pcan |-> Peak, vector |-> Vector,
   wavesahre |-> Waveshare, socketcan |-> Socketcan]

ASSUME DeviceAssumption ==
  /\ Units \in Seq(STRING)
  /\ ProviderOf \in [ToSet(Units) -> DOMAIN Provider]
  /\ Builds \subseteq Seq(DOMAIN Provider)

VARIABLES
  providers,  \* g_providers
  handle,     \* handle[u]: by what its driver knows the device u, which is there
  inited,     \* the providers that are initialised
  devices,    \* g_devices of the factory
  names,      \* m_info_names of the manager
  moved,      \* history: the devices that came or went since g_devices was made
  deviceIdx,  \* m_device_idx of the connect window, from 1
  label,      \* the device whose name this frame shows
  link,       \* the device of the open channel
  changes     \* how often devices came and went

listVars == <<providers, inited, devices, names, moved>>
deviceVars == <<handle, listVars, deviceIdx, label, link, changes>>

attached == DOMAIN handle

Undrawn == "undrawn"   \* the frame is over
SelectDevice == "none" \* the label of no device; also no device

Idle(list) == {p \in ToSet(list) : ~ Provider[p].starts}

\* Any devices may be there.  At first each is known by its number in Units.
DevicesInit ==
  /\ providers \in Builds
  /\ \E there \in SUBSET {u \in ToSet(Units) : ProviderOf[u] \in ToSet(providers)} :
       handle \in {h \in [there -> DOMAIN Units] : \A u \in there : Units[h[u]] = u}
  /\ inited = Idle(providers)
  /\ devices = <<>> /\ names = <<>> /\ moved = {}
  /\ deviceIdx = 1 /\ label = Undrawn
  /\ link = SelectDevice
  /\ changes = 0

\* What a driver may call a device that is new.
Free(p) ==
  IF Provider[p].knows = "unique" THEN {Len(Units) + changes + 1}
  ELSE DOMAIN Units \ {handle[v] : v \in {w \in attached : ProviderOf[w] = p}}

Change(u) ==
  /\ ProviderOf[u] \in ToSet(providers)
  /\ changes < MaxChanges
  /\ changes' = changes + 1
  /\ IF u \in attached THEN handle' = [v \in attached \ {u} |-> handle[v]]
     ELSE \E n \in Free(ProviderOf[u]) :
            handle' = [v \in attached \union {u} |-> IF v = u THEN n ELSE handle[v]]
  /\ moved' = moved \union {u}
  /\ link' = IF link = u THEN SelectDevice ELSE link
  /\ UNCHANGED <<providers, inited, devices, names, deviceIdx, label>>

-----------------------------------------------------------------------------
(* The factory.                                                            *)

Places(p) == {i \in DOMAIN Units : Units[i] \in attached /\ ProviderOf[Units[i]] = p}
Of(p) == Picked(Units, Places(p))
\* What a driver reports of its devices while one of them is in use.
Reported(p, busy) ==
  Picked(Units, {i \in Places(p) :
    /\ Provider[p].hides => Units[i] # busy
    /\ Provider[p].counts => \A j \in 1 .. i : ProviderOf[Units[j]] = p => Units[j] \in attached})

\* GetDeviceInfo
DeviceInfo(p, ready, busy) ==
  IF p \notin ready THEN <<>>
  ELSE [k \in DOMAIN Reported(p, busy) |->
          LET u == Reported(p, busy)[k]
          IN  [provider |-> p, name |-> u, chancnt |-> ChanCnt[u],
               index |-> IF Provider[p].knows = "place" THEN k ELSE handle[u]]]

Listed(ready, busy) ==
  FlattenSeq([k \in DOMAIN providers |-> DeviceInfo(providers[k], ready, busy)])
Names(list) == [k \in DOMAIN list |-> list[k].name]

\* Faulty: the names of earlier refreshes stay.
InfoRefreshKeeps(busy) ==
  \E failed \in SUBSET {p \in ToSet(providers) : Provider[p].fails} :
    /\ inited' = inited \union (ToSet(providers) \ failed)
    /\ devices' = Listed(inited' \ failed, busy)
    /\ names' = names \o Names(devices')
    /\ moved' = {}
    /\ UNCHANGED providers
\* uni_can_factory_refresh and InfoRefresh
InfoRefresh(busy) ==
  \E failed \in SUBSET {p \in ToSet(providers) : Provider[p].fails} :
    /\ inited' = inited \union (ToSet(providers) \ failed)
    /\ devices' = Listed(inited' \ failed, busy)
    /\ names' = Names(devices')
    /\ moved' = {}
    /\ UNCHANGED providers

\* InfoGetCount looks for devices as long as there are none.
EnsureNames(busy) == IF names = <<>> THEN InfoRefresh(busy) ELSE UNCHANGED listVars

\* The device that a driver opens for an entry of the list: whichever it knows by the index now.
Named(p, index) ==
  IF Provider[p].knows = "place" THEN {Of(p)[k] : k \in {index} \intersect DOMAIN Of(p)}
  ELSE {u \in attached : ProviderOf[u] = p /\ handle[u] = index}

\* uni_can_factory_create_channel for channel 0; opening it may fail.
Created(entry) ==
  {SelectDevice} \union (IF entry.chancnt > 0 THEN Named(entry.provider, entry.index) ELSE {})

-----------------------------------------------------------------------------
(* The connect window.                                                     *)

DrawLabel ==
  /\ label = Undrawn
  /\ EnsureNames(link)
  /\ label' = IF deviceIdx \in DOMAIN names' THEN names'[deviceIdx] ELSE SelectDevice
  /\ UNCHANGED <<handle, deviceIdx, link, changes>>

EndFrame == label # Undrawn /\ label' = Undrawn

NoClick == EndFrame /\ UNCHANGED <<handle, listVars, deviceIdx, link, changes>>

Choose(k) ==
  /\ EndFrame
  /\ EnsureNames(link)
  /\ k \in DOMAIN names'
  /\ deviceIdx' = k
  /\ UNCHANGED <<handle, link, changes>>

Refresh ==
  /\ EndFrame
  /\ InfoRefresh(link)
  /\ UNCHANGED <<handle, deviceIdx, link, changes>>

\* Connect ends the older connection first, whether it then succeeds or not.
Connect ==
  /\ EndFrame
  /\ EnsureNames(SelectDevice)
  /\ IF deviceIdx \in DOMAIN names' \intersect DOMAIN devices'
     THEN link' \in Created(devices'[deviceIdx]) ELSE link' = SelectDevice
  /\ UNCHANGED <<handle, deviceIdx, changes>>

Disconnect ==
  /\ EndFrame
  /\ link' = SelectDevice
  /\ UNCHANGED <<handle, listVars, deviceIdx, changes>>

-----------------------------------------------------------------------------
(* Properties.                                                             *)

\* The driver still knows the device by what it was known by in the list.
StillKnown(u) ==
  \/ Provider[ProviderOf[u]].knows = "unique"
  \/ Provider[ProviderOf[u]].knows = "number" /\ u \notin moved
  \/ \A v \in moved : ProviderOf[v] # ProviderOf[u]

(***************************************************************************)
(* If the window shows a device when the user connects, the channel is     *)
(* that of this device, although the names are kept in the manager and the *)
(* devices in the factory, and devices come and go.  The code does not ask *)
(* what it opens: a number is the device's own only while it has not been  *)
(* pulled out since the list was made, even if it is back, and a place     *)
(* while no device of the provider has come or gone since.                 *)
(***************************************************************************)
OpensWhatIsShown ==
  [][Connect /\ label # SelectDevice /\ link' # SelectDevice /\ StillKnown(label) => link' = label]_deviceVars
=============================================================================
