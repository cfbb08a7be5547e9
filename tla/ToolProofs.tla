------------------------------ MODULE ToolProofs ------------------------------
(***************************************************************************)
(* Proofs about the windows of the tool.                                   *)
(***************************************************************************)
EXTENDS ToolWindows, DataProofs

-----------------------------------------------------------------------------
(* Lists of devices.                                                       *)

\* What sequences are made of is what their concatenation is made of.
LEMMA FlattenedFacts ==
  ASSUME NEW X, NEW s \in Seq(Seq(X))
  PROVE  FlattenSeq(s) \in Seq(X)
<1> DEFINE n == Len(s)
           Y == Seq(X)
           none == <<>>
           g == [i \in 1 .. n |-> [y \in Y |-> y \o s[i]]]
           Flat(f) == [i \in 1 .. n |-> IF i = 1 THEN s[i] ELSE f[i - 1] \o s[i]]
<1>1. n \in Nat /\ \A i \in 1 .. n : s[i] \in Y
  OBVIOUS
<1>2. \A x \in Y, y \in Y : x \o y \in Y
  OBVIOUS
<1>3. none \in Y /\ \A y \in Y : none \o y = y
  OBVIOUS
<1>4. CASE n = 0
  <2>1. FlattenSeq(s) = s /\ s = <<>>
    BY <1>4 DEF FlattenSeq
  <2> QED
    BY <1>3, <2>1
<1>5. CASE n # 0
  <2> HIDE DEF n, Y, none
  <2>1. g \in [1 .. n -> [Y -> Y]]
    BY <1>1, <1>2
  <2>2. \A i \in 1 .. n, y \in Y : g[i][y] = y \o s[i]
    OBVIOUS
  <2>3. StepsUpTo(Y, g, none, n)
    BY <1>3, <2>1 DEF StepsUpTo
  <2> HIDE DEF g
  <2>4. PICK h \in [0 .. n -> Y] : h[0] = none /\ \A i \in 1 .. n : h[i] = g[i][h[i - 1]]
    BY <1>1, <2>3, StepByStep
  <2> DEFINE e == [i \in 1 .. n |-> h[i]]
  <2>5. \A i \in 1 .. n : i - 1 \in 0 .. n /\ h[i] = h[i - 1] \o s[i]
    <3> SUFFICES ASSUME NEW i \in 1 .. n PROVE i - 1 \in 0 .. n /\ h[i] = h[i - 1] \o s[i]
      OBVIOUS
    <3>1. i - 1 \in 0 .. n
      BY <1>1
    <3>2. h[i - 1] \in Y
      BY <3>1
    <3>3. g[i][h[i - 1]] = h[i - 1] \o s[i]
      BY <2>2, <3>2
    <3> QED
      BY <2>4, <3>1, <3>3
  <2>6. e = Flat(e)
    <3> SUFFICES ASSUME NEW i \in 1 .. n PROVE h[i] = IF i = 1 THEN s[i] ELSE e[i - 1] \o s[i]
      OBVIOUS
    <3>1. CASE i = 1
      <4>1. i - 1 = 0
        BY <3>1
      <4>2. h[i] = h[0] \o s[i]
        BY <2>5, <4>1
      <4>3. h[i] = none \o s[i] /\ s[i] \in Y
        BY <1>1, <2>4, <4>2
      <4> QED
        BY <1>3, <3>1, <4>3
    <3>2. CASE i # 1
      <4>1. i - 1 \in 1 .. n
        BY <1>1, <3>2
      <4> QED
        BY <2>5, <3>2, <4>1
    <3> QED
      BY <3>1, <3>2
  <2> DEFINE F == CHOOSE f : f = Flat(f)
  <2>7. F = Flat(F)
    <3>1. \E f : f = Flat(f)
      BY <2>6
    <3> HIDE DEF Flat
    <3> QED
      BY <3>1
  <2>8. FlattenSeq(s) = F[n]
    BY <1>5 DEF FlattenSeq, n
  <2> HIDE DEF F
  <2>9. \A i \in 1 .. n : F[i] = IF i = 1 THEN s[i] ELSE F[i - 1] \o s[i]
    BY <2>7
  <2> DEFINE S == {i \in Nat : i + 1 \in 1 .. n => F[i + 1] \in Y}
  <2>10. 0 \in S
    BY <1>1, <2>9
  <2>11. \A i \in Nat : i \in S => i + 1 \in S
    <3> SUFFICES ASSUME NEW i \in Nat, i \in S, (i + 1) + 1 \in 1 .. n PROVE F[(i + 1) + 1] \in Y
      OBVIOUS
    <3>1. i + 1 \in 1 .. n /\ (i + 1) + 1 # 1 /\ ((i + 1) + 1) - 1 = i + 1
      BY <1>1
    <3>2. F[i + 1] \in Y /\ F[(i + 1) + 1] = F[i + 1] \o s[(i + 1) + 1]
      BY <2>9, <3>1
    <3> QED
      BY <1>1, <1>2, <3>2
  <2> HIDE DEF S
  <2>12. n - 1 \in Nat
    BY <1>1, <1>5
  <2>13. n - 1 \in S
    BY <2>10, <2>11, <2>12, AllNaturals
  <2>14. F[n] \in Y
    BY <1>1, <1>5, <2>12, <2>13 DEF S
  <2> QED
    BY <2>8, <2>14 DEF Y
<1> QED
  BY <1>4, <1>5

\* The driver knows the device of an entry by what the entry has, if none of gone came or went since.
Meant(d, gone) ==
  /\ Provider[d.provider].knows = "number" /\ d.name \notin gone =>
       d.name \in attached /\ handle[d.name] = d.index
  /\ Provider[d.provider].knows = "unique" =>
       /\ d.index <= Len(Units) + changes
       /\ \A u \in attached : ProviderOf[u] = d.provider /\ handle[u] = d.index => u = d.name
  /\ Provider[d.provider].knows = "place" /\ (\A u \in gone : ProviderOf[u] # d.provider) =>
       d.index \in DOMAIN Of(d.provider) /\ Of(d.provider)[d.index] = d.name

\* An entry of the list: a name that the device has.
Device ==
  {d \in [provider : DOMAIN Provider, name : ToSet(Units), chancnt : {ChanCnt[u] : u \in ToSet(Units)},
          index : Nat] : ProviderOf[d.name] = d.provider}
DeviceSince(gone) == {d \in Device : Meant(d, gone)}

\* No driver knows two devices by the same, nor has given anything that it will give later on.
HandlesDiffer ==
  /\ attached \subseteq ToSet(Units) /\ handle \in [attached -> Nat]
  /\ changes \in Nat
  /\ \A u, v \in attached : ProviderOf[u] = ProviderOf[v] /\ handle[u] = handle[v] => u = v
  /\ \A u \in attached : Provider[ProviderOf[u]].knows = "unique" => handle[u] <= Len(Units) + changes

LEMMA Kinds ==
  ASSUME NEW p \in DOMAIN Provider
  PROVE  /\ Provider[p].knows \in {"number", "unique", "place"}
         /\ Provider[p].knows = "place" => ~ Provider[p].hides /\ ~ Provider[p].counts
<1>1. p \in {"marathon", "ixxat", "pcan", "vector", "wavesahre", "socketcan"}
  BY DEF Provider
<1> QED
  BY <1>1 DEF Provider, Marathon, Ixxat, Peak, Vector, Waveshare, Socketcan

\* What is known of the places of the devices that are there.
LEMMA PlacesFacts ==
  ASSUME NEW p, NEW S \in SUBSET Places(p)
  PROVE  LET r == Picked(Units, S)
         IN  \A k \in DOMAIN r : /\ k \in Nat
                                 /\ r[k] \in ToSet(Units) /\ r[k] \in attached /\ ProviderOf[r[k]] = p
<1> DEFINE r == Picked(Units, S)
<1>1. Units \in Seq(STRING) /\ DOMAIN Units = 1 .. Len(Units)
  BY DeviceAssumption
<1>2. S \in SUBSET (1 .. Len(Units))
      /\ \A i \in S : i \in DOMAIN Units /\ Units[i] \in attached /\ ProviderOf[Units[i]] = p
  BY <1>1 DEF Places
<1> HIDE DEF r
<1>3. /\ DOMAIN r = 1 .. Cardinality(S) /\ Cardinality(S) \in Nat
      /\ \A k \in DOMAIN r : Nth(S, k) \in S /\ r[k] = Units[Nth(S, k)]
  BY <1>1, <1>2, PickedFacts DEF r
<1>4. ASSUME NEW k \in DOMAIN r
      PROVE  k \in Nat /\ r[k] \in ToSet(Units) /\ r[k] \in attached /\ ProviderOf[r[k]] = p
  <2>1. PICK i \in S : i = Nth(S, k)
    BY <1>3
  <2>2. r[k] = Units[i] /\ i \in DOMAIN Units
    BY <1>2, <1>3, <2>1
  <2>3. k \in Nat
    BY <1>3
  <2> QED
    BY <1>2, <2>1, <2>2, <2>3 DEF ToSet
<1> QED
  BY <1>4 DEF r

LEMMA DeviceInfoFacts ==
  ASSUME HandlesDiffer, NEW p \in DOMAIN Provider, NEW ready, NEW busy
  PROVE  DeviceInfo(p, ready, busy) \in Seq(DeviceSince({}))
<1> DEFINE S == {i \in Places(p) :
                   /\ Provider[p].hides => Units[i] # busy
                   /\ Provider[p].counts => \A j \in 1 .. i : ProviderOf[Units[j]] = p => Units[j] \in attached}
           r == Picked(Units, S)
<1>1. Reported(p, busy) = r /\ DOMAIN r = 1 .. Cardinality(S) /\ Cardinality(S) \in Nat
  <2>1. S \in SUBSET (1 .. Len(Units)) /\ Units \in Seq(STRING)
    BY DeviceAssumption DEF Places
  <2> HIDE DEF S
  <2>2. DOMAIN r = 1 .. Cardinality(S) /\ Cardinality(S) \in Nat
    BY <2>1, PickedFacts
  <2> QED
    BY <2>2 DEF Reported, S
<1>2. S \in SUBSET Places(p)
  OBVIOUS
<1>3. Provider[p].knows = "place" => r = Of(p)
  BY Kinds DEF Of
<1> HIDE DEF S
<1>4. \A k \in DOMAIN r : k \in Nat /\ r[k] \in ToSet(Units) /\ r[k] \in attached /\ ProviderOf[r[k]] = p
  BY <1>2, PlacesFacts
<1> DEFINE Info(k) == [provider |-> p, name |-> r[k], chancnt |-> ChanCnt[r[k]],
                       index |-> IF Provider[p].knows = "place" THEN k ELSE handle[r[k]]]
<1> HIDE DEF r
<1>5. ASSUME NEW k \in DOMAIN r PROVE Info(k) \in DeviceSince({})
  <2> DEFINE d == Info(k)
  <2>1. handle[r[k]] \in Nat
    BY <1>4 DEF HandlesDiffer
  <2>2. d \in Device
    BY <1>4, <2>1 DEF Device
  <2>3. d.provider = p /\ d.name = r[k]
        /\ d.index = IF Provider[p].knows = "place" THEN k ELSE handle[r[k]]
    OBVIOUS
  <2> HIDE DEF d
  <2>4. ASSUME Provider[p].knows = "number" PROVE d \in DeviceSince({})
    <3>1. d.name \in attached /\ handle[d.name] = d.index
      BY <1>4, <2>3, <2>4
    <3> QED
      BY <2>2, <2>3, <2>4, <3>1 DEF DeviceSince, Meant
  <2>5. ASSUME Provider[p].knows = "unique" PROVE d \in DeviceSince({})
    <3>1. d.name \in attached /\ handle[d.name] = d.index /\ ProviderOf[d.name] = p
      BY <1>4, <2>3, <2>5
    <3>2. d.index <= Len(Units) + changes
      BY <2>5, <3>1 DEF HandlesDiffer
    <3>3. \A u \in attached : ProviderOf[u] = p /\ handle[u] = d.index => u = d.name
      BY <3>1 DEF HandlesDiffer
    <3> QED
      BY <2>2, <2>3, <2>5, <3>2, <3>3 DEF DeviceSince, Meant
  <2>6. ASSUME Provider[p].knows = "place" PROVE d \in DeviceSince({})
    <3>1. d.index \in DOMAIN Of(p) /\ Of(p)[d.index] = d.name
      BY <1>3, <2>3, <2>6
    <3> QED
      BY <2>2, <2>3, <2>6, <3>1 DEF DeviceSince, Meant
  <2> QED
    BY <2>4, <2>5, <2>6, Kinds DEF d
<1> DEFINE t == [k \in DOMAIN r |-> Info(k)]
<1> HIDE DEF Info
<1>6. t \in Seq(DeviceSince({}))
  <2>1. DOMAIN r = 1 .. Cardinality(S) /\ Cardinality(S) \in Nat
    BY <1>1 DEF r
  <2> QED
    BY <1>5, <2>1
<1>7. DeviceInfo(p, ready, busy) = IF p \notin ready THEN <<>> ELSE t
  BY <1>1 DEF DeviceInfo, Info, r
<1>8. <<>> \in Seq(DeviceSince({}))
  OBVIOUS
<1> QED
  BY <1>6, <1>7, <1>8

LEMMA ListedFacts ==
  ASSUME HandlesDiffer, NEW ready, NEW busy, providers \in Seq(DOMAIN Provider)
  PROVE  Listed(ready, busy) \in Seq(DeviceSince({}))
<1> DEFINE X == DeviceSince({})
           t == [k \in DOMAIN providers |-> DeviceInfo(providers[k], ready, busy)]
<1>1. \A k \in DOMAIN providers : providers[k] \in DOMAIN Provider
  OBVIOUS
<1>2. \A k \in DOMAIN providers : DeviceInfo(providers[k], ready, busy) \in Seq(X)
  BY <1>1, DeviceInfoFacts
<1>3. DOMAIN providers = 1 .. Len(providers) /\ Len(providers) \in Nat
  OBVIOUS
<1> HIDE DEF X
<1>4. t \in Seq(Seq(X))
  BY <1>2, <1>3
<1> HIDE DEF t
<1>5. FlattenSeq(t) \in Seq(X)
  BY <1>4, FlattenedFacts
<1> QED
  BY <1>5 DEF Listed, t, X

-----------------------------------------------------------------------------
(* The connect window.                                                     *)

ShownLabel == IF deviceIdx \in DOMAIN names THEN names[deviceIdx] ELSE SelectDevice

\* The names are those of the devices in the list, also behind the label of this frame.
DeviceInvariant ==
  /\ providers \in Seq(DOMAIN Provider)
  /\ HandlesDiffer
  /\ devices \in Seq(DeviceSince(moved))
  /\ names = Names(devices)
  /\ label = Undrawn \/ label = ShownLabel

\* While nothing comes or goes, an entry means what it did.
LEMMA MeantStill ==
  ASSUME UNCHANGED <<handle, changes>>, NEW gone, moved' = gone
  PROVE  /\ HandlesDiffer' <=> HandlesDiffer
         /\ DeviceSince(moved)' = DeviceSince(gone)
<1>1. attached' = attached /\ \A p : Of(p)' = Of(p)
  BY DEF attached, Of, Places
<1>2. \A d : Meant(d, moved)' <=> Meant(d, gone)
  BY <1>1 DEF Meant
<1>3. DeviceSince(moved)' = {d \in Device : Meant(d, moved)'}
  BY DEF DeviceSince, Device
<1> QED
  BY <1>1, <1>2, <1>3 DEF HandlesDiffer, DeviceSince

\* InfoRefresh, and InfoGetCount in front of whatever uses the list.
LEMMA RefreshFacts ==
  ASSUME DeviceInvariant, NEW busy, InfoRefresh(busy), UNCHANGED <<handle, changes>>
  PROVE  /\ devices' \in Seq(DeviceSince(moved)') /\ HandlesDiffer'
         /\ names' = Names(devices') /\ providers' = providers
<1>1. PICK failed \in SUBSET {p \in ToSet(providers) : Provider[p].fails} :
        devices' = Listed(inited' \ failed, busy)
  BY DEF InfoRefresh
<1>2. names' = Names(devices') /\ providers' = providers /\ moved' = {}
  BY DEF InfoRefresh
<1>3. Listed(inited' \ failed, busy) \in Seq(DeviceSince({}))
  BY ListedFacts DEF DeviceInvariant
<1>4. DeviceSince(moved)' = DeviceSince({}) /\ HandlesDiffer'
  BY <1>2, MeantStill DEF DeviceInvariant
<1> QED
  BY <1>1, <1>2, <1>3, <1>4

LEMMA EnsureFacts ==
  ASSUME DeviceInvariant, NEW busy, EnsureNames(busy), UNCHANGED <<handle, changes>>
  PROVE  /\ devices' \in Seq(DeviceSince(moved)') /\ HandlesDiffer'
         /\ names' = Names(devices') /\ providers' = providers
         /\ names # <<>> => names' = names /\ devices' = devices
<1>1. CASE names = <<>>
  BY <1>1, RefreshFacts DEF EnsureNames
<1>2. CASE names # <<>>
  <2>1. UNCHANGED listVars
    BY <1>2 DEF EnsureNames
  <2>2. DeviceSince(moved)' = DeviceSince(moved) /\ HandlesDiffer'
    BY <2>1, MeantStill DEF listVars, DeviceInvariant
  <2> QED
    BY <2>1, <2>2 DEF listVars, DeviceInvariant
<1> QED
  BY <1>1, <1>2

\* What is opened for an entry of the list.
LEMMA CreatedFacts ==
  ASSUME HandlesDiffer, NEW d \in DeviceSince(moved), StillKnown(d.name),
         NEW l \in Created(d), l # SelectDevice
  PROVE  l = d.name
<1> DEFINE p == d.provider
<1>1. l \in Named(p, d.index)
  BY DEF Created
<1>2. p \in DOMAIN Provider /\ ProviderOf[d.name] = p /\ Meant(d, moved)
  BY DEF DeviceSince, Device
<1> HIDE DEF p
<1>3. CASE Provider[p].knows = "place"
  <2>1. \A v \in moved : ProviderOf[v] # p
    BY <1>2, <1>3 DEF StillKnown
  <2>2. d.index \in DOMAIN Of(p) /\ Of(p)[d.index] = d.name
    BY <1>2, <1>3, <2>1 DEF Meant, p
  <2> QED
    BY <1>1, <1>3, <2>2 DEF Named
<1>4. CASE Provider[p].knows = "unique"
  BY <1>1, <1>2, <1>4 DEF Named, Meant, p
<1>5. CASE Provider[p].knows = "number"
  <2>1. l \in attached /\ ProviderOf[l] = p /\ handle[l] = d.index
    BY <1>1, <1>5 DEF Named
  <2>2. d.name \notin moved
    BY <1>2, <1>5 DEF StillKnown
  <2> QED
    BY <1>2, <1>5, <2>1, <2>2 DEF Meant, HandlesDiffer, p
<1> QED
  BY <1>2, <1>3, <1>4, <1>5, Kinds

\* The label of this frame is that of the list, which the click does not make anew.
LEMMA ConnectOpens ==
  ASSUME DeviceInvariant, Connect, label # SelectDevice, link' # SelectDevice, StillKnown(label)
  PROVE  link' = label
<1>1. label # Undrawn /\ EnsureNames(SelectDevice) /\ UNCHANGED <<handle, changes>>
  BY DEF Connect, EndFrame
<1>2. deviceIdx \in DOMAIN names /\ label = names[deviceIdx]
  BY <1>1 DEF DeviceInvariant, ShownLabel
<1>3. names # <<>>
  BY <1>2
<1>4. names' = names /\ devices' = devices /\ names = Names(devices)
  BY <1>1, <1>3, EnsureFacts DEF DeviceInvariant
<1>5. deviceIdx \in DOMAIN devices /\ label = devices[deviceIdx].name
  BY <1>2, <1>4 DEF Names
<1>6. link' \in Created(devices[deviceIdx])
  <2>1. deviceIdx \in DOMAIN names' \intersect DOMAIN devices'
    BY <1>2, <1>4, <1>5
  <2>2. link' \in Created(devices'[deviceIdx])
    BY <2>1 DEF Connect
  <2> QED
    BY <1>4, <2>2
<1>7. PICK d \in DeviceSince(moved) : d = devices[deviceIdx]
  BY <1>5 DEF DeviceInvariant
<1> QED
  BY <1>5, <1>6, <1>7, CreatedFacts DEF DeviceInvariant

LEMMA ConnectKeepsDevices ==
  ASSUME DeviceInvariant, Connect
  PROVE  DeviceInvariant'
<1>1. label' = Undrawn /\ EnsureNames(SelectDevice) /\ UNCHANGED <<handle, changes>>
  BY DEF Connect, EndFrame
<1>2. /\ devices' \in Seq(DeviceSince(moved)') /\ HandlesDiffer'
      /\ names' = Names(devices') /\ providers' = providers
  BY <1>1, EnsureFacts
<1> QED
  BY <1>1, <1>2 DEF DeviceInvariant

\* Every other click, and drawing the label.
LEMMA ClickKeepsDevices ==
  ASSUME DeviceInvariant, DrawLabel \/ NoClick \/ Refresh \/ Disconnect \/ \E k \in DOMAIN Units : Choose(k)
  PROVE  DeviceInvariant'
<1>1. CASE DrawLabel
  <2>1. EnsureNames(link) /\ label' = ShownLabel' /\ UNCHANGED <<handle, changes>>
    BY <1>1 DEF DrawLabel, ShownLabel
  <2>2. /\ devices' \in Seq(DeviceSince(moved)') /\ HandlesDiffer'
        /\ names' = Names(devices') /\ providers' = providers
    BY <2>1, EnsureFacts
  <2> QED
    BY <2>1, <2>2 DEF DeviceInvariant
<1>2. CASE NoClick \/ Disconnect
  <2>1. label' = Undrawn /\ UNCHANGED <<handle, listVars, changes>>
    BY <1>2 DEF NoClick, Disconnect, EndFrame
  <2>2. DeviceSince(moved)' = DeviceSince(moved) /\ HandlesDiffer'
    BY <2>1, MeantStill DEF listVars, DeviceInvariant
  <2> QED
    BY <2>1, <2>2 DEF listVars, DeviceInvariant
<1>3. CASE Refresh
  <2>1. InfoRefresh(link) /\ label' = Undrawn /\ UNCHANGED <<handle, changes>>
    BY <1>3 DEF Refresh, EndFrame
  <2>2. /\ devices' \in Seq(DeviceSince(moved)') /\ HandlesDiffer'
        /\ names' = Names(devices') /\ providers' = providers
    BY <2>1, RefreshFacts
  <2> QED
    BY <2>1, <2>2 DEF DeviceInvariant
<1>4. ASSUME NEW k \in DOMAIN Units, Choose(k) PROVE DeviceInvariant'
  <2>1. EnsureNames(link) /\ label' = Undrawn /\ UNCHANGED <<handle, changes>>
    BY <1>4 DEF Choose, EndFrame
  <2>2. /\ devices' \in Seq(DeviceSince(moved)') /\ HandlesDiffer'
        /\ names' = Names(devices') /\ providers' = providers
    BY <2>1, EnsureFacts
  <2> QED
    BY <2>1, <2>2 DEF DeviceInvariant
<1> QED
  BY <1>1, <1>2, <1>3, <1>4

\* A device that comes is known by what no other one is known by, and by nothing unique of before.
LEMMA ChangeFacts ==
  ASSUME HandlesDiffer, providers \in Seq(DOMAIN Provider), NEW u \in ToSet(Units), Change(u)
  PROVE  /\ HandlesDiffer'
         /\ attached' \subseteq attached \union {u}
         /\ \A v \in attached \ {u} : v \in attached' /\ handle'[v] = handle[v]
         /\ Provider[ProviderOf[u]].knows = "unique" /\ u \in attached' => handle'[u] = Len(Units) + changes + 1
<1>1. ProviderOf[u] \in DOMAIN Provider /\ Len(Units) \in Nat /\ DOMAIN Units = 1 .. Len(Units)
  BY DeviceAssumption
<1>2. attached \subseteq ToSet(Units) /\ handle \in [attached -> Nat] /\ changes \in Nat
  BY DEF HandlesDiffer
<1>3. changes' = changes + 1
  BY DEF Change
<1>4. CASE u \in attached
  <2>1. handle' = [v \in attached \ {u} |-> handle[v]]
    BY <1>4 DEF Change
  <2>2. attached' = attached \ {u}
    BY <2>1 DEF attached
  <2>3. \A v \in attached' : v \in attached /\ handle'[v] = handle[v]
    BY <2>1, <2>2
  <2>4. handle' \in [attached' -> Nat]
    BY <1>2, <2>1, <2>2, <2>3
  <2>5. HandlesDiffer'
    BY <1>1, <1>2, <1>3, <2>2, <2>3, <2>4 DEF HandlesDiffer
  <2> QED
    BY <2>1, <2>2, <2>3, <2>5
<1>5. CASE u \notin attached
  <2>1. PICK n \in Free(ProviderOf[u]) :
          handle' = [v \in attached \union {u} |-> IF v = u THEN n ELSE handle[v]]
    BY <1>5 DEF Change
  <2>2. attached' = attached \union {u}
    BY <2>1 DEF attached
  <2>3. handle'[u] = n /\ \A v \in attached : handle'[v] = handle[v]
    BY <1>5, <2>1
  <2>4. /\ n \in Nat
        /\ Provider[ProviderOf[u]].knows = "unique" => n = Len(Units) + changes + 1
        /\ \A v \in attached : ProviderOf[v] = ProviderOf[u] => handle[v] # n
    <3>1. CASE Provider[ProviderOf[u]].knows = "unique"
      <4>1. n = Len(Units) + changes + 1
        BY <3>1 DEF Free
      <4>2. \A v \in attached : ProviderOf[v] = ProviderOf[u] => handle[v] \in Nat /\ handle[v] <= Len(Units) + changes
        BY <1>2, <3>1 DEF HandlesDiffer
      <4> QED
        BY <1>1, <1>2, <4>1, <4>2
    <3>2. CASE Provider[ProviderOf[u]].knows # "unique"
      BY <1>1, <3>2 DEF Free
    <3> QED
      BY <3>1, <3>2
  <2>5. handle' \in [attached' -> Nat]
    BY <1>2, <2>1, <2>2, <2>4
  <2>6. \A v \in attached : Provider[ProviderOf[v]].knows = "unique" => handle[v] <= Len(Units) + changes'
    BY <1>1, <1>2, <1>3 DEF HandlesDiffer
  <2>7. Provider[ProviderOf[u]].knows = "unique" => handle'[u] <= Len(Units) + changes'
    BY <1>1, <1>2, <1>3, <2>3, <2>4
  <2>8. \A v, w \in attached' : ProviderOf[v] = ProviderOf[w] /\ handle'[v] = handle'[w] => v = w
    BY <2>2, <2>3, <2>4 DEF HandlesDiffer
  <2>9. HandlesDiffer'
    BY <1>2, <1>3, <2>2, <2>3, <2>5, <2>6, <2>7, <2>8 DEF HandlesDiffer
  <2> QED
    BY <2>2, <2>3, <2>4, <2>9
<1> QED
  BY <1>4, <1>5

LEMMA ChangeKeepsDevices ==
  ASSUME DeviceInvariant, NEW u \in ToSet(Units), Change(u)
  PROVE  DeviceInvariant'
<1>1. /\ HandlesDiffer'
      /\ attached' \subseteq attached \union {u}
      /\ \A v \in attached \ {u} : v \in attached' /\ handle'[v] = handle[v]
      /\ Provider[ProviderOf[u]].knows = "unique" /\ u \in attached' => handle'[u] = Len(Units) + changes + 1
  BY ChangeFacts DEF DeviceInvariant
<1>2. moved' = moved \union {u} /\ changes' = changes + 1 /\ changes \in Nat
      /\ UNCHANGED <<providers, devices, names, deviceIdx, label>>
  BY DEF Change, DeviceInvariant, HandlesDiffer
<1>3. Len(Units) \in Nat
  BY DeviceAssumption
<1>4. ASSUME NEW d \in DeviceSince(moved) PROVE d \in DeviceSince(moved)'
  <2> DEFINE p == d.provider
  <2>1. d \in Device /\ ProviderOf[d.name] = p /\ d.index \in Nat /\ Meant(d, moved)
    BY DEF DeviceSince, Device
  <2>2. Provider[p].knows = "number" /\ d.name \notin moved' =>
          d.name \in attached' /\ handle'[d.name] = d.index
    BY <1>1, <1>2, <2>1 DEF Meant
  <2>3. ASSUME Provider[p].knows = "unique"
        PROVE  /\ d.index <= Len(Units) + changes'
               /\ \A v \in attached' : ProviderOf[v] = p /\ handle'[v] = d.index => v = d.name
    <3>1. d.index <= Len(Units) + changes
          /\ \A v \in attached : ProviderOf[v] = p /\ handle[v] = d.index => v = d.name
      BY <2>1, <2>3 DEF Meant
    <3>2. ASSUME NEW v \in attached', ProviderOf[v] = p, handle'[v] = d.index PROVE v = d.name
      <4>1. CASE v = u
        <5>1. d.index = Len(Units) + changes + 1
          BY <1>1, <2>3, <3>2, <4>1
        <5> QED
          BY <1>2, <1>3, <2>1, <3>1, <5>1
      <4>2. CASE v # u
        BY <1>1, <3>1, <3>2, <4>2
      <4> QED
        BY <4>1, <4>2
    <3> QED
      BY <1>2, <1>3, <2>1, <3>1, <3>2
  <2>4. ASSUME Provider[p].knows = "place", \A v \in moved' : ProviderOf[v] # p
        PROVE  d.index \in DOMAIN Of(p)' /\ Of(p)'[d.index] = d.name
    <3>1. ProviderOf[u] # p /\ \A v \in moved : ProviderOf[v] # p
      BY <1>2, <2>4
    <3>2. Of(p)' = Of(p)
      BY <1>1, <3>1 DEF Of, Places
    <3> QED
      BY <2>1, <2>4, <3>1, <3>2 DEF Meant
  <2>5. Meant(d, moved)'
    BY <2>2, <2>3, <2>4 DEF Meant
  <2> QED
    BY <2>1, <2>5 DEF DeviceSince, Device
<1>5. devices' \in Seq(DeviceSince(moved)')
  <2> DEFINE X == DeviceSince(moved)
             Y == DeviceSince(moved)'
  <2>1. devices \in Seq(X) /\ X \subseteq Y
    BY <1>4 DEF DeviceInvariant
  <2> HIDE DEF X, Y
  <2>2. devices \in Seq(Y)
    BY <2>1
  <2> QED
    BY <1>2, <2>2 DEF Y
<1> QED
  BY <1>1, <1>2, <1>5 DEF DeviceInvariant, ShownLabel

LEMMA DevicesAtFirst == ToolInit => DeviceInvariant
<1> SUFFICES ASSUME ToolInit PROVE DeviceInvariant
  OBVIOUS
<1>1. providers \in Builds /\ devices = <<>> /\ names = <<>> /\ label = Undrawn /\ changes = 0
  BY DEF ToolInit, DevicesInit
<1>2. providers \in Seq(DOMAIN Provider)
  BY <1>1, DeviceAssumption
<1>3. devices \in Seq(DeviceSince(moved)) /\ names = Names(devices)
  BY <1>1 DEF Names
<1>4. HandlesDiffer
  <2>1. PICK there \in SUBSET {u \in ToSet(Units) : ProviderOf[u] \in ToSet(providers)} :
          handle \in [there -> DOMAIN Units] /\ \A u \in there : Units[handle[u]] = u
    BY DEF ToolInit, DevicesInit
  <2>2. attached = there /\ DOMAIN Units = 1 .. Len(Units) /\ Len(Units) \in Nat
    BY <2>1, DeviceAssumption DEF attached
  <2>3. \A u \in attached : handle[u] \in 1 .. Len(Units)
    BY <2>1, <2>2
  <2>4. handle \in [attached -> Nat]
    BY <2>1, <2>2
  <2>5. \A u, v \in attached : handle[u] = handle[v] => u = v
    BY <2>1, <2>2
  <2> QED
    BY <1>1, <2>1, <2>2, <2>3, <2>4, <2>5 DEF HandlesDiffer
<1> QED
  BY <1>1, <1>2, <1>3, <1>4 DEF DeviceInvariant

LEMMA DevicesKeep == DeviceInvariant /\ [ToolNext]_toolVars => DeviceInvariant'
<1> SUFFICES ASSUME DeviceInvariant, [ToolNext]_toolVars PROVE DeviceInvariant'
  OBVIOUS
<1>1. ASSUME UNCHANGED <<handle, listVars, deviceIdx, changes>>, label' = label \/ label' = Undrawn
      PROVE  DeviceInvariant'
  <2>1. DeviceSince(moved)' = DeviceSince(moved) /\ HandlesDiffer'
    BY <1>1, MeantStill DEF listVars, DeviceInvariant
  <2> QED
    BY <1>1, <2>1 DEF DeviceInvariant, ShownLabel, listVars
<1>2. ASSUME NEW u \in ToSet(Units), Plug(u) PROVE DeviceInvariant'
  BY <1>2, ChangeKeepsDevices DEF Plug
<1>3. CASE Draw
  BY <1>3, ClickKeepsDevices DEF Draw
<1>4. CASE Click
  BY <1>4, ClickKeepsDevices, ConnectKeepsDevices DEF Click
<1>5. ASSUME NEW list, NEW id, NEW rows, ReceiveBegin(list, id, rows) PROVE DeviceInvariant'
  BY <1>1, <1>5 DEF ReceiveBegin, deviceVars
<1>6. CASE ReceiveEnd
  BY <1>1, <1>6 DEF ReceiveEnd, deviceVars
<1>7. CASE Here
  BY <1>1, <1>7 DEF Here, EndFrame
<1>8. CASE RemoveNothing
  BY <1>1, <1>8 DEF RemoveNothing, deviceVars
<1>9. CASE Restart
  <2>1. /\ devices' = <<>> /\ names' = <<>> /\ label' = Undrawn /\ providers' = providers
        /\ UNCHANGED <<handle, changes>> /\ moved' = {}
    BY <1>9 DEF Restart
  <2>2. HandlesDiffer'
    BY <2>1, MeantStill DEF DeviceInvariant
  <2>3. devices' \in Seq(DeviceSince(moved)') /\ names' = Names(devices')
    BY <2>1 DEF Names
  <2> QED
    BY <2>1, <2>2, <2>3 DEF DeviceInvariant
<1>10. CASE UNCHANGED toolVars
  BY <1>1, <1>10 DEF toolVars, deviceVars
<1>11. Clear \/ CheckFilter \/ CloseFilter \/ RemoveIgnored \/ (\E k \in 1 .. MaxFilters : Select(k))
         \/ (\E id \in RawIds : AddIgnored(id)) => Here
  BY DEF Clear, CheckFilter, CloseFilter, RemoveIgnored, Select, AddIgnored
<1> QED
  BY <1>2, <1>3, <1>4, <1>5, <1>6, <1>7, <1>8, <1>9, <1>10, <1>11 DEF ToolNext

(***************************************************************************)
(* If the window shows a device when the user connects, the channel is     *)
(* that of this device (CanManager::Connect after                          *)
(* WindowCanConnect::deviceGetLabel), whatever builds there are, whatever  *)
(* devices come and go and whatever providers fail, as long as the driver  *)
(* still knows the device by what the list has: a channel of Peak or       *)
(* Marathon by its number while it stays where it is, one of Vector or     *)
(* Waveshare by its place while no device of this kind comes or goes.      *)
(***************************************************************************)
THEOREM DeviceIsTheOneShown == ToolSpec => OpensWhatIsShown
<1>1. DeviceInvariant =>
        [Connect /\ label # SelectDevice /\ link' # SelectDevice /\ StillKnown(label) => link' = label]_deviceVars
  BY ConnectOpens
<1> QED
  BY <1>1, DevicesAtFirst, DevicesKeep, PTL DEF ToolSpec, OpensWhatIsShown

-----------------------------------------------------------------------------
(* The tables of the receive window.                                       *)

Identifiers == Ids \union RawIds

\* s shows what the filter lets through of the first n messages in m.
Follows(s, m, n, on, list) ==
  /\ \A i \in DOMAIN s : s[i] \in 1 .. n
  /\ \A i, j \in DOMAIN s : i < j => s[i] < s[j]
  /\ on => ToSet(s) = {i \in 1 .. n : m[i] \notin ToSet(list)}

\* How many messages of a list its table can show: not the one that the handler has only just appended.
Passed(k) == Len(all[k]) - (IF handler = k THEN 1 ELSE 0)

TablesTypeOK ==
  /\ all \in [Lists -> Seq(Identifiers)]
  /\ shown \in [Lists -> Seq(Nat)]
  /\ ignored \in Seq(RawIds) /\ saved \in Seq(RawIds)
  /\ handler \in {"idle"} \union Lists
  /\ filter \in BOOLEAN

TablesInvariant ==
  /\ TablesTypeOK
  /\ ~ broken => \A k \in Lists : Passed(k) \in Nat /\ Follows(shown[k], all[k], Passed(k), filter, ignored)

\* A table that is made anew.
LEMMA RebuiltFollows ==
  ASSUME NEW X, NEW m \in Seq(X), NEW on \in BOOLEAN, NEW list
  PROVE  LET s == Picked([i \in DOMAIN m |-> i], {i \in DOMAIN m : on => m[i] \notin ToSet(list)})
         IN  s \in Seq(Nat) /\ Follows(s, m, Len(m), on, list)
<1> DEFINE n == Len(m)
           S == {i \in DOMAIN m : on => m[i] \notin ToSet(list)}
           t == [i \in DOMAIN m |-> i]
           s == Picked(t, S)
<1>1. DOMAIN m = 1 .. n /\ n \in Nat
  OBVIOUS
<1>2. t \in Seq(Nat) /\ Len(t) = n /\ \A i \in 1 .. n : t[i] = i
  BY <1>1
<1>3. S \in SUBSET (1 .. n) /\ (on => S = {i \in 1 .. n : m[i] \notin ToSet(list)})
  BY <1>1
<1> HIDE DEF n, S, t
<1>4. /\ s \in Seq(Nat)
      /\ DOMAIN s = 1 .. Cardinality(S) /\ Cardinality(S) \in Nat
      /\ \A k \in DOMAIN s : Nth(S, k) \in S /\ s[k] = t[Nth(S, k)]
      /\ \A k, l \in DOMAIN s : k < l => Nth(S, k) < Nth(S, l)
      /\ \A i \in S : \E k \in DOMAIN s : Nth(S, k) = i
  BY <1>2, <1>3, PickedFacts
<1> HIDE DEF s
<1>5. \A k \in DOMAIN s : s[k] = Nth(S, k) /\ s[k] \in S /\ s[k] \in 1 .. n
  <2> SUFFICES ASSUME NEW k \in DOMAIN s PROVE s[k] = Nth(S, k) /\ s[k] \in S /\ s[k] \in 1 .. n
    OBVIOUS
  <2>1. PICK i \in S : i = Nth(S, k)
    BY <1>4
  <2>2. i \in 1 .. n /\ t[i] = i
    BY <1>2, <1>3, <2>1
  <2> QED
    BY <1>4, <2>1, <2>2
<1>6. \A k, l \in DOMAIN s : k < l => s[k] < s[l]
  BY <1>4, <1>5
<1>7. ToSet(s) = S
  BY <1>4, <1>5 DEF ToSet
<1>8. Follows(s, m, n, on, list)
  BY <1>3, <1>5, <1>6, <1>7 DEF Follows
<1> QED
  BY <1>4, <1>8 DEF s, t, S, n

LEMMA RebuildKeepsTables ==
  ASSUME TablesInvariant, Here, RebuildFilter, UNCHANGED all, filter' \in BOOLEAN,
         ignored' \in Seq(RawIds), saved' \in Seq(RawIds)
  PROVE  TablesInvariant'
<1>1. handler' = handler /\ broken' = (handler # "idle")
  BY DEF Here, Race
<1>2. ASSUME NEW k \in Lists
      PROVE  shown'[k] \in Seq(Nat) /\ Follows(shown'[k], all[k], Len(all[k]), filter', ignored')
  <2>1. all[k] \in Seq(Identifiers)
    BY DEF TablesInvariant, TablesTypeOK
  <2> DEFINE s == Picked([i \in DOMAIN all[k] |-> i],
                         {i \in DOMAIN all[k] : filter' => all[k][i] \notin ToSet(ignored')})
  <2>2. s \in Seq(Nat) /\ Follows(s, all[k], Len(all[k]), filter', ignored')
    BY <2>1, RebuiltFollows
  <2>3. shown'[k] = s
    BY DEF RebuildFilter
  <2> HIDE DEF s
  <2> QED
    BY <2>2, <2>3
<1>3. shown' \in [Lists -> Seq(Nat)]
  <2>1. shown' = [k \in Lists |-> shown'[k]]
    BY DEF RebuildFilter
  <2> QED
    BY <1>2, <2>1
<1>4. TablesTypeOK'
  BY <1>1, <1>3 DEF TablesInvariant, TablesTypeOK
<1>5. ASSUME ~ broken', NEW k \in Lists
      PROVE  Passed(k)' \in Nat /\ Follows(shown[k], all[k], Passed(k), filter, ignored)'
  <2>1. handler' # k
    BY <1>1, <1>5 DEF Lists
  <2>2. Len(all[k]) \in Nat
    BY DEF TablesInvariant, TablesTypeOK
  <2>3. Passed(k)' = Len(all[k])
    BY <2>1, <2>2 DEF Passed
  <2> QED
    BY <1>2, <2>2, <2>3
<1> QED
  BY <1>4, <1>5 DEF TablesInvariant

\* The cross of the filter window.
LEMMA CloseKeepsTables ==
  ASSUME TablesInvariant, CloseFilter
  PROVE  TablesInvariant'
<1>1. /\ UNCHANGED <<all, shown, ignored, saved, handler>>
      /\ filter' = FALSE /\ ~ broken
  BY DEF CloseFilter, Here, listsVars
<1>2. TablesTypeOK'
  BY <1>1 DEF TablesInvariant, TablesTypeOK
<1>3. ASSUME NEW k \in Lists
      PROVE  Passed(k)' \in Nat /\ Follows(shown[k], all[k], Passed(k), filter, ignored)'
  <2>1. Passed(k)' = Passed(k)
    BY <1>1 DEF Passed
  <2> QED
    BY <1>1, <2>1 DEF TablesInvariant, Follows
<1> QED
  BY <1>2, <1>3 DEF TablesInvariant

LEMMA ClearKeepsTables ==
  ASSUME TablesInvariant, all' = [k \in Lists |-> <<>>], shown' = [k \in Lists |-> <<>>],
         handler # "idle" => broken', UNCHANGED handler, filter' \in BOOLEAN,
         ignored' \in Seq(RawIds), saved' \in Seq(RawIds)
  PROVE  TablesInvariant'
<1>1. TablesTypeOK'
  BY DEF TablesInvariant, TablesTypeOK
<1>2. ASSUME ~ broken', NEW k \in Lists
      PROVE  Passed(k)' \in Nat /\ Follows(shown[k], all[k], Passed(k), filter, ignored)'
  <2>1. handler' # k /\ all'[k] = <<>> /\ shown'[k] = <<>>
    BY <1>2 DEF Lists
  <2>2. Passed(k)' = 0
    BY <2>1 DEF Passed
  <2>3. ToSet(<<>>) = {}
    BY DEF ToSet
  <2> QED
    BY <2>1, <2>2, <2>3 DEF Follows
<1> QED
  BY <1>1, <1>2 DEF TablesInvariant

\* The handler looks at one more message.
LEMMA FollowsNext ==
  ASSUME NEW s \in Seq(Nat), NEW m, NEW n \in Nat, NEW on, NEW list, Follows(s, m, n, on, list)
  PROVE  IF on => m[n + 1] \notin ToSet(list)
         THEN Follows(Append(s, n + 1), m, n + 1, on, list)
         ELSE Follows(s, m, n + 1, on, list)
<1> DEFINE t == Append(s, n + 1)
           l == Len(s)
<1>1. /\ \A i \in DOMAIN s : s[i] \in 1 .. n
      /\ \A i, j \in DOMAIN s : i < j => s[i] < s[j]
      /\ on => ToSet(s) = {i \in 1 .. n : m[i] \notin ToSet(list)}
  BY DEF Follows
<1>2. /\ l \in Nat /\ DOMAIN s = 1 .. l /\ DOMAIN t = 1 .. l + 1
      /\ t[l + 1] = n + 1 /\ \A i \in 1 .. l : t[i] = s[i]
  OBVIOUS
<1> HIDE DEF t, l
<1>3. 1 .. n + 1 = (1 .. n) \union {n + 1} /\ n + 1 \notin 1 .. n
  OBVIOUS
<1>4. CASE on => m[n + 1] \notin ToSet(list)
  <2>1. \A i \in DOMAIN t : t[i] \in 1 .. n + 1
    BY <1>1, <1>2, <1>3
  <2>2. \A i, j \in DOMAIN t : i < j => t[i] < t[j]
    <3> SUFFICES ASSUME NEW i \in DOMAIN t, NEW j \in DOMAIN t, i < j PROVE t[i] < t[j]
      OBVIOUS
    <3>1. i \in 1 .. l /\ t[i] = s[i] /\ s[i] \in 1 .. n
      BY <1>1, <1>2
    <3>2. CASE j = l + 1
      BY <1>2, <3>1, <3>2
    <3>3. CASE j \in 1 .. l
      BY <1>1, <1>2, <3>1, <3>3
    <3> QED
      BY <1>2, <3>2, <3>3
  <2>3. ToSet(t) = ToSet(s) \union {n + 1}
    <3>1. 1 .. l + 1 = (1 .. l) \union {l + 1}
      BY <1>2
    <3>2. ToSet(s) = {s[i] : i \in 1 .. l} /\ ToSet(t) = {t[i] : i \in 1 .. l + 1}
      BY <1>2 DEF ToSet
    <3> QED
      BY <1>2, <3>1, <3>2
  <2>4. on => ToSet(t) = {i \in 1 .. n + 1 : m[i] \notin ToSet(list)}
    <3> SUFFICES ASSUME on PROVE ToSet(t) = {i \in 1 .. n + 1 : m[i] \notin ToSet(list)}
      OBVIOUS
    <3>1. m[n + 1] \notin ToSet(list)
      BY <1>4
    <3> QED
      BY <1>1, <1>3, <2>3, <3>1
  <2>5. Follows(t, m, n + 1, on, list)
    BY <2>1, <2>2, <2>4 DEF Follows
  <2> QED
    BY <1>4, <2>5 DEF t
<1>5. CASE ~ (on => m[n + 1] \notin ToSet(list))
  <2>1. \A i \in DOMAIN s : s[i] \in 1 .. n + 1
    BY <1>1, <1>3
  <2>2. {i \in 1 .. n + 1 : m[i] \notin ToSet(list)} = {i \in 1 .. n : m[i] \notin ToSet(list)}
    BY <1>3, <1>5
  <2> QED
    BY <1>1, <1>5, <2>1, <2>2 DEF Follows
<1> QED
  BY <1>4, <1>5

LEMMA ReceiveBeginKeepsTables ==
  ASSUME TablesInvariant, NEW list \in Lists, NEW id \in Identifiers, NEW rows, ReceiveBegin(list, id, rows)
  PROVE  TablesInvariant'
<1>1. /\ ~ broken /\ handler = "idle" /\ handler' = list
      /\ all' = [all EXCEPT ![list] = Append(@, id)]
      /\ UNCHANGED <<shown, filter, ignored, saved, broken>>
  BY DEF ReceiveBegin, filterVars
<1>2. /\ all \in [Lists -> Seq(Identifiers)] /\ shown \in [Lists -> Seq(Nat)]
      /\ ignored \in Seq(RawIds) /\ saved \in Seq(RawIds) /\ filter \in BOOLEAN
  BY DEF TablesInvariant, TablesTypeOK
<1>3. \A k \in Lists : handler # k
  BY <1>1 DEF Lists
<1>4. TablesTypeOK'
  <2>1. all' \in [Lists -> Seq(Identifiers)]
    BY <1>1, <1>2
  <2> QED
    BY <1>1, <1>2, <2>1 DEF TablesTypeOK
<1>5. ASSUME NEW k \in Lists
      PROVE  Passed(k)' \in Nat /\ Follows(shown[k], all[k], Passed(k), filter, ignored)'
  <2>1. /\ all[k] \in Seq(Identifiers) /\ Len(all[k]) \in Nat /\ Passed(k) = Len(all[k])
        /\ Follows(shown[k], all[k], Len(all[k]), filter, ignored)
    BY <1>1, <1>2, <1>3 DEF TablesInvariant, Passed
  <2>2. CASE k # list
    <3>1. all'[k] = all[k] /\ Passed(k)' = Passed(k)
      BY <1>1, <1>2, <1>3, <2>1, <2>2 DEF Passed
    <3> QED
      BY <1>1, <2>1, <3>1
  <2>3. CASE k = list
    <3>1. all'[k] = Append(all[k], id)
      BY <1>1, <1>2, <2>3
    <3>2. /\ Len(all'[k]) = Len(all[k]) + 1
          /\ \A i \in 1 .. Len(all[k]) : all'[k][i] = all[k][i]
      BY <2>1, <3>1
    <3>3. Passed(k)' = Len(all[k])
      BY <1>1, <2>1, <2>3, <3>2 DEF Passed
    <3>4. {i \in 1 .. Len(all[k]) : all'[k][i] \notin ToSet(ignored)}
            = {i \in 1 .. Len(all[k]) : all[k][i] \notin ToSet(ignored)}
      BY <3>2
    <3> QED
      BY <1>1, <2>1, <3>3, <3>4 DEF Follows
  <2> QED
    BY <2>2, <2>3
<1> QED
  BY <1>4, <1>5 DEF TablesInvariant

LEMMA ReceiveEndKeepsTables ==
  ASSUME TablesInvariant, ReceiveEnd
  PROVE  TablesInvariant'
<1>1. /\ ~ broken /\ handler # "idle" /\ handler' = "idle"
      /\ shown' = [shown EXCEPT ![handler] =
                     IF FilterMatch(Last(all[handler])) THEN Append(@, Len(all[handler])) ELSE @]
      /\ UNCHANGED <<all, filter, ignored, saved, broken>>
  BY DEF ReceiveEnd, filterVars
<1>2. /\ all \in [Lists -> Seq(Identifiers)] /\ shown \in [Lists -> Seq(Nat)]
      /\ ignored \in Seq(RawIds) /\ saved \in Seq(RawIds) /\ filter \in BOOLEAN
      /\ handler \in Lists
  BY <1>1 DEF TablesInvariant, TablesTypeOK
<1>3. \A k \in Lists : handler' # k
  BY <1>1 DEF Lists
<1>4. TablesTypeOK'
  <2>1. all[handler] \in Seq(Identifiers) /\ shown[handler] \in Seq(Nat)
    BY <1>2
  <2>2. Len(all[handler]) \in Nat
    BY <2>1
  <2>3. Append(shown[handler], Len(all[handler])) \in Seq(Nat)
    BY <2>1, <2>2
  <2>4. shown' \in [Lists -> Seq(Nat)]
    BY <1>1, <1>2, <2>1, <2>3
  <2> QED
    BY <1>1, <1>2, <2>4 DEF TablesTypeOK
<1>5. ASSUME NEW k \in Lists
      PROVE  Passed(k)' \in Nat /\ Follows(shown[k], all[k], Passed(k), filter, ignored)'
  <2>1. all[k] \in Seq(Identifiers) /\ shown[k] \in Seq(Nat) /\ Len(all[k]) \in Nat
    BY <1>2
  <2>2. Passed(k) \in Nat /\ Follows(shown[k], all[k], Passed(k), filter, ignored)
    BY <1>1 DEF TablesInvariant
  <2> DEFINE n == Len(all[k])
  <2>3. Passed(k)' = n
    <3>1. handler' # k /\ all' = all
      BY <1>1, <1>3
    <3>2. Passed(k)' = n - 0
      BY <3>1 DEF Passed
    <3> HIDE DEF n
    <3> QED
      BY <2>1, <3>2 DEF n
  <2>4. CASE k # handler
    <3>1. Passed(k) = n
      <4>1. Passed(k) = n - 0
        BY <2>4 DEF Passed
      <4> HIDE DEF n
      <4> QED
        BY <2>1, <4>1 DEF n
    <3>2. shown'[k] = shown[k]
      BY <1>1, <1>2, <2>4
    <3> QED
      BY <1>1, <2>2, <2>3, <3>1, <3>2
  <2>5. CASE k = handler
    <3>1. PICK m \in Nat : m = Passed(k)
      BY <2>2
    <3>2. Len(all[k]) = m + 1
      BY <2>1, <2>5, <3>1 DEF Passed
    <3>3. FilterMatch(Last(all[k])) <=> (filter => all[k][m + 1] \notin ToSet(ignored))
      BY <3>2 DEF FilterMatch, Last
    <3>4. shown'[k] = IF FilterMatch(Last(all[k])) THEN Append(shown[k], m + 1) ELSE shown[k]
      BY <1>1, <1>2, <2>5, <3>2
    <3>5. IF filter => all[k][m + 1] \notin ToSet(ignored)
          THEN Follows(Append(shown[k], m + 1), all[k], m + 1, filter, ignored)
          ELSE Follows(shown[k], all[k], m + 1, filter, ignored)
      BY <2>1, <2>2, <3>1, FollowsNext
    <3>6. Follows(shown'[k], all[k], m + 1, filter, ignored)
      BY <3>3, <3>4, <3>5
    <3> QED
      BY <1>1, <2>3, <3>2, <3>6
  <2> QED
    BY <2>4, <2>5
<1> QED
  BY <1>4, <1>5 DEF TablesInvariant

LEMMA TablesAtFirst == ToolInit => TablesInvariant
<1> SUFFICES ASSUME ToolInit PROVE TablesInvariant
  OBVIOUS
<1>1. /\ all = [k \in Lists |-> <<>>] /\ shown = [k \in Lists |-> <<>>]
      /\ filter = FALSE /\ ignored = <<>> /\ saved = <<>> /\ handler = "idle"
  BY DEF ToolInit
<1>2. TablesTypeOK
  <2>1. <<>> \in Seq(Identifiers) /\ <<>> \in Seq(Nat) /\ <<>> \in Seq(RawIds)
    OBVIOUS
  <2>2. all \in [Lists -> Seq(Identifiers)] /\ shown \in [Lists -> Seq(Nat)]
    BY <1>1, <2>1
  <2> QED
    BY <1>1, <2>1, <2>2 DEF TablesTypeOK
<1>3. ASSUME NEW k \in Lists
      PROVE  Passed(k) \in Nat /\ Follows(shown[k], all[k], Passed(k), filter, ignored)
  <2>1. handler # k /\ all[k] = <<>> /\ shown[k] = <<>>
    BY <1>1 DEF Lists
  <2>2. Passed(k) = 0
    BY <2>1 DEF Passed
  <2> QED
    BY <1>1, <2>1, <2>2 DEF Follows
<1> QED
  BY <1>2, <1>3 DEF TablesInvariant

LEMMA TablesKeep == TablesInvariant /\ [ToolNext]_toolVars => TablesInvariant'
<1> SUFFICES ASSUME TablesInvariant, [ToolNext]_toolVars PROVE TablesInvariant'
  OBVIOUS
<1>1. /\ all \in [Lists -> Seq(Identifiers)] /\ shown \in [Lists -> Seq(Nat)]
      /\ ignored \in Seq(RawIds) /\ saved \in Seq(RawIds) /\ filter \in BOOLEAN
  BY DEF TablesInvariant, TablesTypeOK
<1>2. ASSUME UNCHANGED <<all, shown, filter, ignored, saved, handler>>, broken => broken'
      PROVE  TablesInvariant'
  <2>1. \A k : Passed(k)' = Passed(k)
    BY <1>2 DEF Passed
  <2> QED
    BY <1>2, <2>1 DEF TablesInvariant, TablesTypeOK, Follows
<1>3. ASSUME NEW u, Plug(u) PROVE TablesInvariant'
  BY <1>2, <1>3 DEF Plug, windowVars, rxVars, listsVars, filterVars
<1>4. CASE Draw
  <2>1. broken => broken'
    BY <1>4 DEF Draw, Race
  <2> QED
    BY <1>2, <1>4, <2>1 DEF Draw, rxVars, listsVars, filterVars
<1>5. CASE Click
  BY <1>2, <1>5 DEF Click, windowVars, rxVars, listsVars, filterVars
<1>6. ASSUME NEW id \in Ids, ReceiveBegin("pp", id, Rows(id)) PROVE TablesInvariant'
  BY <1>6, ReceiveBeginKeepsTables DEF Identifiers, Lists
<1>7. ASSUME NEW id \in RawIds, ReceiveBegin("raw", id, {NoRow}) PROVE TablesInvariant'
  BY <1>7, ReceiveBeginKeepsTables DEF Identifiers, Lists
<1>8. ASSUME NEW id \in RawIds, AddIgnored(id) PROVE TablesInvariant'
  <2>1. /\ Here /\ RebuildFilter /\ UNCHANGED all /\ filter' = filter
        /\ ignored' = Append(ignored, id) /\ saved' = ignored'
    BY <1>8 DEF AddIgnored
  <2>2. ignored' \in Seq(RawIds) /\ saved' \in Seq(RawIds) /\ filter' \in BOOLEAN
    BY <1>1, <2>1
  <2> QED
    BY <2>1, <2>2, RebuildKeepsTables
<1>9. CASE Clear
  BY <1>1, <1>9, ClearKeepsTables DEF Clear, Here, Race, filterVars
<1>10. CASE CheckFilter
  <2>1. /\ Here /\ RebuildFilter /\ UNCHANGED all /\ filter' = ~ filter
        /\ ignored' = ignored /\ saved' = saved
    BY <1>10 DEF CheckFilter
  <2>2. ignored' \in Seq(RawIds) /\ saved' \in Seq(RawIds) /\ filter' \in BOOLEAN
    BY <1>1, <2>1
  <2> QED
    BY <2>1, <2>2, RebuildKeepsTables
<1>11. CASE RemoveIgnored
  <2>1. /\ Here /\ RebuildFilter /\ UNCHANGED all /\ filter' = filter /\ saved' = saved
        /\ ignored # <<>> /\ ignored' = RemoveAt(ignored, Selected)
    BY <1>11 DEF RemoveIgnored
  <2>2. Selected \in 1 .. Len(ignored)
    BY <1>1, <2>1 DEF Selected
  <2>3. ignored' \in Seq(RawIds)
    <3> DEFINE n == Len(ignored)
    <3>1. ignored' = SubSeq(ignored, 1, Selected - 1) \o SubSeq(ignored, Selected + 1, n)
      BY <2>1 DEF RemoveAt
    <3>2. n \in Nat /\ Selected - 1 \in 0 .. n /\ Selected + 1 \in 1 .. n + 1
      BY <1>1, <2>2
    <3>3. SubSeq(ignored, 1, Selected - 1) \in Seq(RawIds) /\ SubSeq(ignored, Selected + 1, n) \in Seq(RawIds)
      BY <1>1, <3>2
    <3> QED
      BY <3>1, <3>3
  <2>4. saved' \in Seq(RawIds) /\ filter' \in BOOLEAN
    BY <1>1, <2>1
  <2> QED
    BY <2>1, <2>3, <2>4, RebuildKeepsTables
<1>12. CASE RemoveNothing
  BY <1>2, <1>12 DEF RemoveNothing, rxVars, listsVars, filterVars
<1>13. ASSUME NEW k, Select(k) PROVE TablesInvariant'
  <2>1. broken => broken'
    BY <1>13 DEF Select, Here, Race
  <2> QED
    BY <1>2, <1>13, <2>1 DEF Select, Here, listsVars
<1>14. CASE Restart
  BY <1>1, <1>14, ClearKeepsTables DEF Restart
<1>15. CASE UNCHANGED toolVars
  BY <1>2, <1>15 DEF toolVars, windowVars, rxVars, listsVars, filterVars
<1> QED
  BY <1>3, <1>4, <1>5, <1>6, <1>7, <1>8, <1>9, <1>10, <1>11, <1>12, <1>13, <1>14, <1>15,
     ReceiveEndKeepsTables, CloseKeepsTables DEF ToolNext

(***************************************************************************)
(* The tables of the receive window show what the filter lets through      *)
(* (receiveMsg, rebuildFilter and filterMatch of WindowCanRx), whatever is *)
(* received between whichever clicks, for lists of every length and every  *)
(* ignore list, as long as nothing undefined has happened.                 *)
(***************************************************************************)
THEOREM TablesShowWhatPasses == ToolSpec => []TablesFollowTheFilter
<1>1. TablesInvariant => TablesFollowTheFilter
  <2> SUFFICES ASSUME TablesInvariant, ~ broken, handler = "idle", NEW k \in Lists
      PROVE  /\ \A i \in DOMAIN shown[k] : shown[k][i] \in DOMAIN all[k]
             /\ \A i, j \in DOMAIN shown[k] : i < j => shown[k][i] < shown[k][j]
             /\ filter => ToSet(shown[k]) = {i \in DOMAIN all[k] : all[k][i] \notin ToSet(ignored)}
    BY DEF TablesFollowTheFilter
  <2>1. all[k] \in Seq(Identifiers) /\ handler # k
    BY DEF TablesInvariant, TablesTypeOK, Lists
  <2>2. DOMAIN all[k] = 1 .. Len(all[k]) /\ Passed(k) = Len(all[k])
    BY <2>1 DEF Passed
  <2>3. Follows(shown[k], all[k], Len(all[k]), filter, ignored)
    BY <2>2 DEF TablesInvariant
  <2> QED
    BY <2>2, <2>3 DEF Follows
<1> QED
  BY <1>1, TablesAtFirst, TablesKeep, PTL DEF ToolSpec

-----------------------------------------------------------------------------
(* Numbers as bytes.                                                       *)

LEMMA Widths ==
  /\ DOMAIN Width = {"u8", "u16le", "u32le", "u32be"}
  /\ \A type \in DOMAIN Width : Width[type] \in Nat \ {0} /\ Width[type] <= 4
  BY DEF Width

\* The shift to the k-th byte is one of those that Pow2 knows.
LEMMA Shifts ==
  /\ ByteBits \in Nat \ {0}
  /\ \A k \in 0 .. 4 : ByteBits * k \in 0 .. WordBits
<1>1. ByteBits \in 1 .. 16
  BY ByteAssumption DEF WordBits
<1>2. \A k \in 0 .. 4 : ByteBits * k \in 0 .. 64
  <2>1. ByteBits * 0 = 0 /\ ByteBits * 1 = ByteBits /\ ByteBits * 2 = ByteBits + ByteBits
        /\ ByteBits * 3 = ByteBits + ByteBits + ByteBits
        /\ ByteBits * 4 = ByteBits + ByteBits + ByteBits + ByteBits
    BY <1>1
  <2> QED
    BY <1>1, <2>1
<1> QED
  BY <1>1, <1>2 DEF WordBits

LEMMA Weights ==
  /\ Radix \in Nat \ {0}
  /\ Weight(1) = 1
  /\ \A k \in 1 .. 5 : Weight(k) \in Nat \ {0}
  /\ \A k \in 1 .. 4 : Weight(k + 1) = Weight(k) * Radix
<1>1. ByteBits \in Nat \ {0} /\ \A k \in 0 .. 4 : ByteBits * k \in 0 .. WordBits
  BY Shifts
<1>2. Radix \in Nat \ {0}
  <2>1. ByteBits * 1 = ByteBits
    BY <1>1
  <2> QED
    BY <1>1, <2>1, Powers DEF Radix
<1>3. Weight(1) = 1
  <2>1. ByteBits * (1 - 1) = 0
    BY <1>1
  <2> QED
    BY <2>1, Powers DEF Weight
<1>4. \A k \in 1 .. 5 : Weight(k) \in Nat \ {0}
  <2>1. \A k \in 1 .. 5 : k - 1 \in 0 .. 4
    OBVIOUS
  <2> QED
    BY <1>1, <2>1, Powers DEF Weight
<1>5. ASSUME NEW k \in 1 .. 4 PROVE Weight(k + 1) = Weight(k) * Radix
  <2> DEFINE a == ByteBits * (k - 1)
  <2>1. a \in 0 .. WordBits /\ ByteBits * k \in 0 .. WordBits
    <3>1. k - 1 \in 0 .. 4 /\ k \in 0 .. 4
      OBVIOUS
    <3> QED
      BY <1>1, <3>1
  <2>2. ByteBits * k = a + ByteBits /\ ByteBits * ((k + 1) - 1) = ByteBits * k
    BY <1>1
  <2>3. Weight(k) = Pow2[a] /\ Weight(k + 1) = Pow2[ByteBits * k]
    BY <2>2 DEF Weight
  <2> HIDE DEF a
  <2>4. a \in Nat /\ a + ByteBits <= WordBits
    BY <1>1, <2>1, <2>2 DEF WordBits
  <2>5. Pow2[a + ByteBits] = Pow2[a] * Pow2[ByteBits]
    BY <1>1, <2>4, PowersMultiply
  <2> QED
    BY <2>2, <2>3, <2>5 DEF Radix
<1> QED
  BY <1>2, <1>3, <1>4, <1>5

\* One digit more.
LEMMA Digit ==
  ASSUME NEW v \in Nat, NEW s \in Nat \ {0}, NEW r \in Nat \ {0}
  PROVE  v % (s * r) = (v % s) + ((v \div s) % r) * s
<1>1. PICK h, e, l : Fielded(v, s, r, h, e, l)
  BY FieldSplit
<1>2. h \in Nat /\ e \in 0 .. r - 1 /\ l \in 0 .. s - 1 /\ v = s * (r * h + e) + l
  BY <1>1 DEF Fielded
<1>3. (v \div s) % r = e /\ v % s = l
  BY <1>1, FieldRead
<1>4. /\ s * e + l \in 0 .. s * r - 1 /\ s * r \in Nat \ {0}
      /\ v = (s * r) * h + (s * e + l)
  BY <1>2, FieldBounds
<1>5. v % (s * r) = s * e + l
  <2>1. PICK d, x, y : d = s * r /\ x = h /\ y = s * e + l
    OBVIOUS
  <2>2. x \in Nat /\ d \in Nat \ {0} /\ y \in 0 .. d - 1 /\ v = d * x + y
    BY <1>2, <1>4, <2>1
  <2>3. v % d = y
    BY <2>2, DividedOnce
  <2> QED
    BY <2>1, <2>3
<1>6. s * e + l = l + e * s
  BY <1>2
<1> QED
  BY <1>3, <1>5, <1>6

LEMMA LowestFacts ==
  ASSUME NEW v \in Nat, NEW w \in 0 .. 4
  PROVE  /\ Lowest(v, w) \in Seq(Bytes) /\ Len(Lowest(v, w)) = w
         /\ \A k \in 1 .. w : Lowest(v, w)[k] = (v \div Weight(k)) % Radix
<1>1. \A k \in 1 .. w : (v \div Weight(k)) % Radix \in Bytes
  <2> SUFFICES ASSUME NEW k \in 1 .. w PROVE (v \div Weight(k)) % Radix \in Bytes
    OBVIOUS
  <2>1. k \in 1 .. 5
    OBVIOUS
  <2>2. Weight(k) \in Nat \ {0} /\ Radix \in Nat \ {0}
    BY <2>1, Weights
  <2>3. v \div Weight(k) \in Nat
    BY <2>2, Divided
  <2> QED
    BY <2>2, <2>3, Divided DEF Bytes
<1> QED
  BY <1>1 DEF Lowest

\* The bytes of a number add up to it.
LEMMA LowestAddUp ==
  ASSUME NEW v \in Nat, NEW w \in 1 .. 4, v < Weight(w + 1),
         NEW sum, sum = [k \in 0 .. w |-> IF k = 0 THEN 0 ELSE sum[k - 1] + Lowest(v, w)[k] * Weight(k)]
  PROVE  sum[w] = v
<1> DEFINE Adds(k) == sum[k] = v % Weight(k + 1)
           S == {k \in Nat : k <= w => Adds(k)}
<1>0. w \in 0 .. 4 /\ w + 1 \in 1 .. 5
  OBVIOUS
<1>1. 0 \in S
  <2>1. sum[0] = 0 /\ 0 + 1 = 1
    OBVIOUS
  <2>2. Weight(1) = 1
    BY Weights
  <2>3. v % 1 = 0
    OBVIOUS
  <2> QED
    BY <2>1, <2>2, <2>3
<1>2. \A k \in Nat : k \in S => k + 1 \in S
  <2> HIDE DEF Adds
  <2> SUFFICES ASSUME NEW k \in Nat, Adds(k), k + 1 <= w PROVE Adds(k + 1)
    OBVIOUS
  <2> USE DEF Adds
  <2>1. sum[k] = v % Weight(k + 1)
    OBVIOUS
  <2> DEFINE j == k + 1
  <2>2. j \in 1 .. w /\ j \in 1 .. 4 /\ j \in 1 .. 5 /\ j \in 0 .. w /\ j # 0 /\ j - 1 = k
    OBVIOUS
  <2> HIDE DEF j
  <2>3. sum[j] = sum[k] + Lowest(v, w)[j] * Weight(j)
    BY <2>2
  <2>4. Lowest(v, w)[j] = (v \div Weight(j)) % Radix
    BY <1>0, <2>2, LowestFacts
  <2>5. Weight(j) \in Nat \ {0} /\ Radix \in Nat \ {0} /\ Weight(j + 1) = Weight(j) * Radix
    BY <2>2, Weights
  <2>6. v % (Weight(j) * Radix) = (v % Weight(j)) + ((v \div Weight(j)) % Radix) * Weight(j)
    BY <2>5, Digit
  <2> QED
    BY <2>1, <2>3, <2>4, <2>5, <2>6 DEF j
<1> HIDE DEF S
<1>3. w \in S
  BY <1>1, <1>2, AllNaturals
<1>4. sum[w] = v % Weight(w + 1)
  BY <1>3 DEF S
<1>5. v % Weight(w + 1) = v
  <2>1. PICK s : s = Weight(w + 1)
    OBVIOUS
  <2>2. s \in Nat \ {0} /\ v \in 0 .. s - 1
    <3>1. Weight(w + 1) \in Nat \ {0}
      BY <1>0, Weights
    <3>2. s \in Nat \ {0} /\ v < s
      BY <2>1, <3>1
    <3> QED
      BY <3>2
  <2>3. s * 0 + v = v
    BY <2>2
  <2>4. (s * 0 + v) % s = v
    BY <2>2, DividedOnce
  <2> QED
    BY <2>1, <2>3, <2>4
<1> QED
  BY <1>4, <1>5

LEMMA ReverseTwice ==
  ASSUME NEW X, NEW s \in Seq(X)
  PROVE  /\ Reverse(s) \in Seq(X) /\ Len(Reverse(s)) = Len(s)
         /\ Reverse(Reverse(s)) = s
<1> DEFINE n == Len(s)
           t == Reverse(s)
<1>1. n \in Nat /\ (\A i \in 1 .. n : s[i] \in X /\ n - i + 1 \in 1 .. n) /\ DOMAIN s = 1 .. n
  OBVIOUS
<1>2. t = [i \in 1 .. n |-> s[(n - i) + 1]]
  BY DEF Reverse
<1> HIDE DEF n, t
<1>3. t \in Seq(X) /\ Len(t) = n
  BY <1>1, <1>2
<1>4. Reverse(t) = [i \in 1 .. n |-> t[(n - i) + 1]]
  BY <1>3 DEF Reverse
<1>5. \A i \in 1 .. n : t[(n - i) + 1] = s[i]
  <2> SUFFICES ASSUME NEW i \in 1 .. n PROVE t[(n - i) + 1] = s[i]
    OBVIOUS
  <2>1. (n - i) + 1 \in 1 .. n /\ (n - ((n - i) + 1)) + 1 = i
    BY <1>1
  <2>2. t[(n - i) + 1] = s[(n - ((n - i) + 1)) + 1]
    BY <1>2, <2>1
  <2> QED
    BY <2>1, <2>2
<1>6. s = [i \in 1 .. n |-> s[i]]
  BY <1>1
<1>7. Reverse(t) = s
  BY <1>4, <1>5, <1>6
<1> QED
  BY <1>3, <1>7 DEF t, n

\* What is typed for a field fits into it.
Fits(f, v) ==
  /\ IsNumber(f) => v \in 0 .. MaxValue(f.type)
  /\ f.type = "bit" => v \in {0, 1}
  /\ ~ IsNumber(f) /\ f.type # "bit" => v \in Seq(Bytes)

LEMMA DecodedIsEncoded ==
  ASSUME NEW type \in DOMAIN Width, NEW v \in 0 .. MaxValue(type)
  PROVE  /\ Encoded(type, v) \in Seq(Bytes)
         /\ Len(Encoded(type, v)) = Width[type]
         /\ Decoded(type, Encoded(type, v)) = v
<1> DEFINE w == Width[type]
           low == Lowest(v, w)
           e == Encoded(type, v)
<1>1. w \in 1 .. 4 /\ w \in 0 .. 4
  BY Widths
<1>2. v \in Nat /\ v < Weight(w + 1)
  <2>1. PICK p : p = Weight(w + 1)
    OBVIOUS
  <2>2. w + 1 \in 1 .. 5 /\ (w + 1) - 1 = w
    BY <1>1
  <2>3. p \in Nat \ {0}
    BY <2>1, <2>2, Weights
  <2>4. MaxValue(type) = p - 1
    BY <2>1, <2>2 DEF MaxValue, Weight
  <2> QED
    BY <2>1, <2>3, <2>4
<1>3. low \in Seq(Bytes) /\ Len(low) = w
  BY <1>1, <1>2, LowestFacts
<1>4. e = IF type = "u32be" THEN Reverse(low) ELSE low
  BY DEF Encoded
<1> HIDE DEF low
<1>5. e \in Seq(Bytes) /\ Len(e) = w /\ (IF type = "u32be" THEN Reverse(e) ELSE e) = low
  BY <1>3, <1>4, ReverseTwice
<1> DEFINE Sum(f) == [k \in 0 .. w |-> IF k = 0 THEN 0 ELSE f[k - 1] + low[k] * Weight(k)]
           sum == CHOOSE f : f = Sum(f)
<1> HIDE DEF w, e
<1>6. \E f : f = Sum(f)
  <2> DEFINE len == [k \in 1 .. w |-> low[k] * Weight(k)]
  <2>1. \A k \in 1 .. w : low[k] * Weight(k) \in Nat
    <3> SUFFICES ASSUME NEW k \in 1 .. w PROVE low[k] * Weight(k) \in Nat
      OBVIOUS
    <3>1. low[k] \in Nat
      <4>1. low[k] \in Bytes
        BY <1>1, <1>3
      <4>2. Radix \in Nat
        BY Weights
      <4> QED
        BY <4>1, <4>2 DEF Bytes
    <3>2. Weight(k) \in Nat
      <4>1. k \in 1 .. 5
        BY <1>1
      <4> QED
        BY <4>1, Weights
    <3> QED
      BY <3>1, <3>2
  <2>2. len \in [1 .. w -> Nat]
    BY <2>1
  <2>3. \A k \in 1 .. w : len[k] = low[k] * Weight(k)
    OBVIOUS
  <2> HIDE DEF len
  <2>4. w \in Nat
    BY <1>1
  <2>5. PICK f : f = [k \in 0 .. w |-> IF k = 0 THEN 0 ELSE f[k - 1] + len[k]]
    BY <2>2, <2>4, Summing
  <2>6. \A k \in 0 .. w : k # 0 => k \in 1 .. w
    BY <1>1
  <2>7. f = Sum(f)
    BY <2>3, <2>5, <2>6
  <2> QED
    BY <2>7
<1>7. sum = Sum(sum)
  <2> HIDE DEF Sum
  <2> QED
    BY <1>6
<1>8. Decoded(type, e) = sum[w]
  BY <1>3, <1>5 DEF Decoded
<1> HIDE DEF sum
<1>9. sum[w] = v
  BY <1>1, <1>2, <1>7, LowestAddUp DEF low
<1> QED
  BY <1>5, <1>8, <1>9 DEF w, e

-----------------------------------------------------------------------------
(* Bits of a byte.                                                         *)

\* The powers that a byte is made of, and those between two of its bits.
LEMMA BitPowers ==
  ASSUME NEW b \in 0 .. ByteBits - 1
  PROVE  /\ Pow2[b] \in Nat \ {0}
         /\ \E d \in Nat \ {0} : Radix = (Pow2[b] * 2) * d
         /\ \A c \in 0 .. ByteBits - 1 : b < c => \E d \in Nat \ {0} : Pow2[c] = (Pow2[b] * 2) * d
<1>1. ByteBits \in 1 .. WordBits /\ WordBits \in Nat
  BY ByteAssumption DEF WordBits
<1>2. b \in 0 .. WordBits
  BY <1>1
<1>3. Pow2[b] \in Nat \ {0}
  BY <1>2, Powers
<1>4. ASSUME NEW c \in 0 .. ByteBits, b < c PROVE \E d \in Nat \ {0} : Pow2[c] = (Pow2[b] * 2) * d
  <2>1. PICK a : a = (c - b) - 1
    OBVIOUS
  <2>2. a \in Nat /\ a \in 0 .. WordBits /\ a + 1 = c - b /\ a + 1 \in 1 .. WordBits
        /\ b + (a + 1) = c /\ (a + 1) - 1 = a /\ b + (a + 1) <= WordBits /\ a + 1 \in Nat /\ b \in Nat
    BY <1>1, <1>4, <2>1
  <2>3. Pow2[a] \in Nat \ {0} /\ Pow2[a + 1] = 2 * Pow2[a]
    BY <2>2, Powers
  <2>4. Pow2[b + (a + 1)] = Pow2[b] * Pow2[a + 1]
    BY <2>2, PowersMultiply
  <2>5. Pow2[b] * (2 * Pow2[a]) = (Pow2[b] * 2) * Pow2[a]
    BY <1>3, <2>3
  <2> QED
    BY <2>2, <2>3, <2>4, <2>5
<1>5. \E d \in Nat \ {0} : Radix = (Pow2[b] * 2) * d
  <2>1. ByteBits \in 0 .. ByteBits /\ b < ByteBits
    BY <1>1
  <2> QED
    BY <1>4, <2>1 DEF Radix
<1>6. \A c \in 0 .. ByteBits - 1 : c \in 0 .. ByteBits
  BY <1>1
<1> QED
  BY <1>3, <1>4, <1>5, <1>6

\* Writing a bit of a byte leaves a byte, with this bit and the others as they were.
LEMMA WithBitFacts ==
  ASSUME NEW byte \in Bytes, NEW bit \in 0 .. ByteBits - 1, NEW v \in {0, 1}
  PROVE  /\ WithBit(byte, bit, v) \in Bytes
         /\ Bit(WithBit(byte, bit, v), bit) = v
         /\ \A b \in 0 .. ByteBits - 1 : b # bit => Bit(WithBit(byte, bit, v), b) = Bit(byte, b)
<1> DEFINE q == WithBit(byte, bit, v)
<1>1. Radix \in Nat \ {0}
  BY Weights
<1>2. byte \in Nat /\ byte < Radix
  BY <1>1 DEF Bytes
<1>3. PICK s : s = Pow2[bit]
  OBVIOUS
<1>4. s \in Nat \ {0} /\ 2 \in Nat \ {0}
  BY <1>3, BitPowers
<1>5. Overwritten(q, byte, s, 2, v)
  BY <1>3 DEF Overwritten, WithBit, Bit
<1> HIDE DEF q
<1>6. /\ q \in Nat /\ (q \div s) % 2 = v /\ q % s = byte % s
      /\ q \div (s * 2) = byte \div (s * 2)
  BY <1>2, <1>4, <1>5, FieldWritten
<1>7. s * 2 \in Nat \ {0}
  BY <1>4
<1>8. q \in Bytes
  <2>1. PICK d \in Nat \ {0} : Radix = (s * 2) * d
    BY <1>3, BitPowers
  <2>2. q \div Radix = byte \div Radix
    <3>1. q \div Radix = (q \div (s * 2)) \div d
      BY <1>6, <1>7, <2>1, FieldBehind
    <3>2. byte \div Radix = (byte \div (s * 2)) \div d
      BY <1>2, <1>7, <2>1, FieldBehind
    <3> QED
      BY <1>6, <3>1, <3>2
  <2>3. byte \div Radix = 0
    <3>1. byte \in 0 .. Radix - 1 /\ Radix * 0 + byte = byte
      BY <1>1, <1>2
    <3>2. (Radix * 0 + byte) \div Radix = 0
      BY <1>1, <3>1, DividedOnce
    <3> QED
      BY <3>1, <3>2
  <2>4. q = Radix * (q \div Radix) + (q % Radix) /\ q % Radix \in 0 .. Radix - 1
    BY <1>1, <1>6, Divided
  <2>5. q = q % Radix
    BY <1>1, <2>2, <2>3, <2>4
  <2> QED
    BY <2>4, <2>5 DEF Bytes
<1>9. ASSUME NEW b \in 0 .. ByteBits - 1, b # bit PROVE Bit(q, b) = Bit(byte, b)
  <2>0. PICK t : t = Pow2[b]
    OBVIOUS
  <2>1. t \in Nat \ {0}
    BY <2>0, BitPowers
  <2>2. CASE b < bit
    <3>1. PICK d \in Nat \ {0} : s = (t * 2) * d
      BY <1>3, <2>0, <2>2, BitPowers
    <3>2. FartherOn(s, t, 2, d)
      BY <3>1 DEF FartherOn
    <3>3. \A x \in Nat : (x \div t) % 2 = ((x % s) \div t) % 2
      <4>1. PICK w \in Nat \ {0} : w = 2
        OBVIOUS
      <4>2. FartherOn(s, t, w, d)
        BY <3>2, <4>1
      <4>3. \A x \in Nat : (x \div t) % w = ((x % s) \div t) % w
        BY <2>1, <4>2, FieldBefore
      <4> QED
        BY <4>1, <4>3
    <3>4. (q \div t) % 2 = ((q % s) \div t) % 2 /\ (byte \div t) % 2 = ((byte % s) \div t) % 2
      BY <1>2, <1>6, <3>3
    <3> QED
      BY <1>6, <2>0, <3>4 DEF Bit
  <2>3. CASE bit < b
    <3>1. PICK d \in Nat \ {0} : t = (s * 2) * d
      BY <1>3, <2>0, <2>3, BitPowers
    <3>2. q \div t = (q \div (s * 2)) \div d
      BY <1>6, <1>7, <3>1, FieldBehind
    <3>3. byte \div t = (byte \div (s * 2)) \div d
      BY <1>2, <1>7, <3>1, FieldBehind
    <3> QED
      BY <1>6, <2>0, <3>2, <3>3 DEF Bit
  <2>4. b \in Int /\ bit \in Int
    BY Shifts
  <2>5. b < bit \/ bit < b
    BY <1>9, <2>4
  <2> QED
    BY <2>2, <2>3, <2>5
<1>10. Bit(q, bit) = v
  BY <1>3, <1>6 DEF Bit
<1> QED
  BY <1>8, <1>9, <1>10 DEF q

-----------------------------------------------------------------------------
(* Payloads.                                                               *)

\* Bytes that are put into a payload are there, and the others stay.
LEMMA PutFacts ==
  ASSUME NEW data \in Seq(Bytes), NEW offset \in Nat, NEW bytes \in Seq(Bytes)
  PROVE  /\ Put(data, offset, bytes) \in Seq(Bytes)
         /\ Len(Put(data, offset, bytes)) \in Nat
         /\ Len(data) <= Len(Put(data, offset, bytes))
         /\ offset + Len(bytes) <= Len(Put(data, offset, bytes))
         /\ \A k \in 1 .. Len(bytes) : Put(data, offset, bytes)[offset + k] = bytes[k]
         /\ \A k \in 1 .. Len(data) :
              k \notin offset + 1 .. offset + Len(bytes) => Put(data, offset, bytes)[k] = data[k]
<1> DEFINE n == Len(data)
           m == Len(bytes)
           l == IF n > offset + m THEN n ELSE offset + m
           p == Put(data, offset, bytes)
<1>1. n \in Nat /\ m \in Nat
  OBVIOUS
<1>2. (\A k \in 1 .. n : data[k] \in Bytes) /\ (\A k \in 1 .. m : bytes[k] \in Bytes)
  OBVIOUS
<1>3. 0 \in Bytes
  BY Weights DEF Bytes
<1>4. p = [k \in 1 .. l |-> IF k > offset /\ k <= offset + m THEN bytes[k - offset]
                            ELSE IF k <= n THEN data[k] ELSE 0]
  BY DEF Put
<1> HIDE DEF n, m, p
<1>5. l \in Nat /\ n <= l /\ offset + m <= l
  BY <1>1
<1>6. \A k \in 1 .. l : /\ k > offset /\ k <= offset + m => k - offset \in 1 .. m
                        /\ k <= n => k \in 1 .. n
  BY <1>1, <1>5
<1> HIDE DEF l
<1>7. \A k \in 1 .. l : p[k] \in Bytes
  BY <1>2, <1>3, <1>4, <1>6
<1>8. p \in Seq(Bytes) /\ Len(p) = l
  <2>1. DOMAIN p = 1 .. l /\ p = [k \in 1 .. l |-> p[k]]
    BY <1>4
  <2>2. p \in [1 .. l -> Bytes]
    BY <1>7, <2>1
  <2>3. p \in Seq(Bytes)
    BY <1>5, <2>2
  <2> QED
    BY <1>5, <2>1, <2>3
<1>9. \A k \in 1 .. m : p[offset + k] = bytes[k]
  <2> SUFFICES ASSUME NEW k \in 1 .. m PROVE p[offset + k] = bytes[k]
    OBVIOUS
  <2>1. offset + k \in 1 .. l /\ offset + k > offset /\ offset + k <= offset + m /\ (offset + k) - offset = k
    BY <1>1, <1>5
  <2> QED
    BY <1>4, <2>1
<1>10. \A k \in 1 .. n : k \notin offset + 1 .. offset + m => p[k] = data[k]
  <2> SUFFICES ASSUME NEW k \in 1 .. n, k \notin offset + 1 .. offset + m PROVE p[k] = data[k]
    OBVIOUS
  <2>1. k \in 1 .. l /\ ~ (k > offset /\ k <= offset + m) /\ k <= n
    BY <1>1, <1>5
  <2> QED
    BY <1>4, <2>1
<1> QED
  BY <1>5, <1>8, <1>9, <1>10 DEF p, n, m

\* What writing to some cells of a payload leaves alone.
Leaves(p, data, cells) ==
  /\ p \in Seq(Bytes) /\ Len(p) \in Nat /\ Len(data) <= Len(p)
  /\ \A o \in 0 .. Len(data) - 1, b \in 0 .. ByteBits - 1 :
       <<o, b>> \notin cells => Bit(p[o + 1], b) = Bit(data[o + 1], b)
  /\ \A o \in 0 .. Len(data) - 1 :
       (\A b \in 0 .. ByteBits - 1 : <<o, b>> \notin cells) => p[o + 1] = data[o + 1]

\* The payload has the value of a field.
Held(data, f, v) ==
  /\ IsNumber(f) =>
       /\ f.offset + Width[f.type] <= Len(data)
       /\ \A k \in 1 .. Width[f.type] : data[f.offset + k] = Encoded(f.type, v)[k]
  /\ f.type = "bit" /\ f.bit \in 0 .. ByteBits - 1 =>
       f.offset < Len(data) /\ Bit(data[f.offset + 1], f.bit) = v

LEMMA BytesLeave ==
  ASSUME NEW data \in Seq(Bytes), NEW offset \in Nat, NEW bytes \in Seq(Bytes), NEW cells,
         cells = (offset .. offset + Len(bytes) - 1) \X (0 .. ByteBits - 1)
  PROVE  Leaves(Put(data, offset, bytes), data, cells)
<1> DEFINE p == Put(data, offset, bytes)
           n == Len(data)
           m == Len(bytes)
<1>1. /\ p \in Seq(Bytes) /\ Len(p) \in Nat /\ n <= Len(p)
      /\ \A k \in 1 .. n : k \notin offset + 1 .. offset + m => p[k] = data[k]
  BY PutFacts
<1>2. n \in Nat /\ m \in Nat /\ ByteBits \in Nat \ {0}
  BY Shifts
<1> HIDE DEF p, n, m
<1>3. \A o \in 0 .. n - 1 : o \notin offset .. offset + m - 1 => p[o + 1] = data[o + 1]
  <2> SUFFICES ASSUME NEW o \in 0 .. n - 1, o \notin offset .. offset + m - 1 PROVE p[o + 1] = data[o + 1]
    OBVIOUS
  <2>1. o + 1 \in 1 .. n /\ o + 1 \notin offset + 1 .. offset + m
    BY <1>2
  <2> QED
    BY <1>1, <2>1
<1>4. \A o, b : b \in 0 .. ByteBits - 1 /\ <<o, b>> \notin cells => o \notin offset .. offset + m - 1
  BY DEF m
<1>5. 0 \in 0 .. ByteBits - 1
  BY <1>2
<1>6. \A o \in 0 .. n - 1, b \in 0 .. ByteBits - 1 : <<o, b>> \notin cells => Bit(p[o + 1], b) = Bit(data[o + 1], b)
  BY <1>3, <1>4
<1>7. \A o \in 0 .. n - 1 : (\A b \in 0 .. ByteBits - 1 : <<o, b>> \notin cells) => p[o + 1] = data[o + 1]
  BY <1>3, <1>4, <1>5
<1>8. Leaves(p, data, cells)
  BY <1>1, <1>6, <1>7 DEF Leaves, n
<1> QED
  BY <1>8 DEF p

LEMMA BitLeaves ==
  ASSUME NEW data \in Seq(Bytes), NEW offset \in Nat, NEW bit \in 0 .. ByteBits - 1, NEW v \in {0, 1}
  PROVE  LET p == Put(data, offset, <<WithBit(At(data, offset), bit, v)>>)
         IN  /\ Leaves(p, data, {<<offset, bit>>})
             /\ offset < Len(p) /\ Bit(p[offset + 1], bit) = v
<1> DEFINE byte == At(data, offset)
           w == WithBit(byte, bit, v)
           bytes == <<w>>
           m == Len(bytes)
           p == Put(data, offset, bytes)
           n == Len(data)
<1>1. n \in Nat /\ ByteBits \in Nat \ {0}
  BY Shifts
<1>2. byte \in Bytes
  <2>1. 0 \in Bytes
    BY Weights DEF Bytes
  <2>2. offset < n => data[offset + 1] \in Bytes
    BY <1>1
  <2> QED
    BY <2>1, <2>2 DEF At
<1>3. offset < n => byte = data[offset + 1]
  BY DEF At
<1> HIDE DEF byte, n
<1>4. /\ w \in Bytes /\ Bit(w, bit) = v
      /\ \A b \in 0 .. ByteBits - 1 : b # bit => Bit(w, b) = Bit(byte, b)
  BY <1>2, WithBitFacts
<1> HIDE DEF w
<1>5. bytes \in Seq(Bytes) /\ m = 1 /\ bytes[1] = w
  BY <1>4
<1> HIDE DEF bytes
<1>6. /\ p \in Seq(Bytes) /\ Len(p) \in Nat /\ n <= Len(p) /\ offset + 1 <= Len(p)
      /\ \A k \in 1 .. 1 : p[offset + k] = bytes[k]
      /\ \A k \in 1 .. n : k \notin offset + 1 .. offset + 1 => p[k] = data[k]
  <2>1. /\ p \in Seq(Bytes) /\ Len(p) \in Nat /\ n <= Len(p) /\ offset + m <= Len(p)
        /\ \A k \in 1 .. m : p[offset + k] = bytes[k]
        /\ \A k \in 1 .. n : k \notin offset + 1 .. offset + m => p[k] = data[k]
    BY <1>5, PutFacts DEF n
  <2> HIDE DEF p, m
  <2> QED
    BY <1>5, <2>1
<1> HIDE DEF p
<1>7. offset < Len(p) /\ p[offset + 1] = w
  BY <1>5, <1>6
<1>8. \A o \in 0 .. n - 1 : o # offset => p[o + 1] = data[o + 1]
  <2> SUFFICES ASSUME NEW o \in 0 .. n - 1, o # offset PROVE p[o + 1] = data[o + 1]
    OBVIOUS
  <2>1. o + 1 \in 1 .. n /\ o + 1 \notin offset + 1 .. offset + 1
    BY <1>1
  <2> QED
    BY <1>6, <2>1
<1> DEFINE cells == {<<offset, bit>>}
<1>9. ASSUME NEW o \in 0 .. n - 1, NEW b \in 0 .. ByteBits - 1, <<o, b>> \notin cells
      PROVE  Bit(p[o + 1], b) = Bit(data[o + 1], b)
  <2>1. CASE o # offset
    BY <1>8, <2>1
  <2>2. CASE o = offset
    <3>1. b # bit /\ offset < n
      BY <1>1, <1>9, <2>2
    <3> QED
      BY <1>3, <1>4, <1>7, <2>2, <3>1
  <2> QED
    BY <2>1, <2>2
<1>10. ASSUME NEW o \in 0 .. n - 1, \A b \in 0 .. ByteBits - 1 : <<o, b>> \notin cells
       PROVE  p[o + 1] = data[o + 1]
  BY <1>8, <1>10
<1>11. Leaves(p, data, cells)
  BY <1>6, <1>9, <1>10 DEF Leaves, n
<1> QED
  BY <1>4, <1>7, <1>11 DEF p, bytes, w, byte

\* A field is written, and everything outside of its cells is left alone.
LEMMA WriteFieldFacts ==
  ASSUME NEW data \in Seq(Bytes), NEW f \in Field, NEW v, Fits(f, v)
  PROVE  Leaves(WriteField(data, f, v), data, Cells(f, v)) /\ Held(WriteField(data, f, v), f, v)
<1> DEFINE p == WriteField(data, f, v)
<1>1. f.offset \in Nat /\ f.bit \in Int
  BY DEF Field
<1>2. "bit" \notin DOMAIN Width /\ "bytes" \notin DOMAIN Width
  BY Widths
<1>3. CASE IsNumber(f)
  <2> DEFINE e == Encoded(f.type, v)
             w == Width[f.type]
  <2>1. f.type \in DOMAIN Width /\ f.type # "bit" /\ f.type # "bytes" /\ v \in 0 .. MaxValue(f.type)
    BY <1>2, <1>3 DEF IsNumber, Fits
  <2>2. e \in Seq(Bytes) /\ Len(e) = w /\ w \in Nat
    BY <2>1, DecodedIsEncoded, Widths
  <2>3. p = Put(data, f.offset, e)
    BY <1>3 DEF WriteField
  <2>4. Cells(f, v) = (f.offset .. f.offset + Len(e) - 1) \X (0 .. ByteBits - 1)
    BY <1>3, <2>1, <2>2 DEF Cells
  <2> HIDE DEF p, e, w
  <2>5. Leaves(p, data, Cells(f, v))
    BY <1>1, <2>2, <2>3, <2>4, BytesLeave
  <2>6. f.offset + w <= Len(p) /\ \A k \in 1 .. w : p[f.offset + k] = e[k]
    BY <1>1, <2>2, <2>3, PutFacts, SMTT(30)
  <2>7. Held(p, f, v)
    BY <2>1, <2>6 DEF Held, e, w
  <2> QED
    BY <2>5, <2>7 DEF p
<1>4. CASE f.type = "bit" /\ f.bit \in 0 .. ByteBits - 1
  <2>1. ~ IsNumber(f) /\ v \in {0, 1}
    BY <1>2, <1>4 DEF IsNumber, Fits
  <2>2. p = Put(data, f.offset, <<WithBit(At(data, f.offset), f.bit, v)>>)
    BY <1>4, <2>1 DEF WriteField
  <2>3. Cells(f, v) = {<<f.offset, f.bit>>}
    BY <1>4 DEF Cells
  <2> HIDE DEF p
  <2>4. Leaves(p, data, Cells(f, v)) /\ f.offset < Len(p) /\ Bit(p[f.offset + 1], f.bit) = v
    BY <1>1, <1>4, <2>1, <2>2, <2>3, BitLeaves
  <2>5. Held(p, f, v)
    BY <2>1, <2>4 DEF Held
  <2> QED
    BY <2>4, <2>5 DEF p
<1>5. CASE f.type = "bytes"
  <2>1. ~ IsNumber(f) /\ f.type # "bit"
    BY <1>2, <1>5 DEF IsNumber
  <2>2. v \in Seq(Bytes) /\ Held(p, f, v)
    BY <2>1 DEF Fits, Held
  <2>3. CASE v = <<>>
    <3>1. p = data
      BY <1>5, <2>1, <2>3 DEF WriteField
    <3> HIDE DEF p
    <3>2. Leaves(p, data, Cells(f, v))
      BY <3>1 DEF Leaves
    <3> QED
      BY <2>2, <3>2 DEF p
  <2>4. CASE v # <<>>
    <3>1. p = Put(data, f.offset, v)
      BY <1>5, <2>1, <2>4 DEF WriteField
    <3>2. Cells(f, v) = (f.offset .. f.offset + Len(v) - 1) \X (0 .. ByteBits - 1)
      BY <1>5 DEF Cells
    <3> HIDE DEF p
    <3>3. Leaves(p, data, Cells(f, v))
      BY <1>1, <2>2, <3>1, <3>2, BytesLeave
    <3> QED
      BY <2>2, <3>3 DEF p
  <2> QED
    BY <2>3, <2>4
<1>6. CASE ~ IsNumber(f) /\ ~ (f.type = "bit" /\ f.bit \in 0 .. ByteBits - 1) /\ f.type # "bytes"
  <2>1. p = data
    BY <1>6 DEF WriteField
  <2>2. Held(p, f, v)
    BY <1>6 DEF Held
  <2> HIDE DEF p
  <2>3. Leaves(p, data, Cells(f, v))
    BY <2>1 DEF Leaves
  <2> QED
    BY <2>2, <2>3 DEF p
<1> QED
  BY <1>3, <1>4, <1>5, <1>6

\* A field whose value is explained by the summary.
Explained(f) ==
  f.type \in {"u8", "u32le", "u32be", "bit"} /\ (f.type = "bit" => f.bit \in 0 .. ByteBits - 1)

\* Writing to other cells does not change the value of a field.
LEMMA HeldStays ==
  ASSUME NEW data \in Seq(Bytes), NEW p, NEW cells, Leaves(p, data, cells),
         NEW f \in Field, NEW v, Explained(f), Held(data, f, v), Cells(f, v) \intersect cells = {}
  PROVE  Held(p, f, v)
<1> DEFINE n == Len(data)
<1>1. f.offset \in Nat /\ n \in Nat /\ ByteBits \in Nat \ {0}
  BY Shifts DEF Field
<1>2. "bit" \notin DOMAIN Width
  BY Widths
<1>3. /\ Len(p) \in Nat /\ n <= Len(p)
      /\ \A o \in 0 .. n - 1, b \in 0 .. ByteBits - 1 :
           <<o, b>> \notin cells => Bit(p[o + 1], b) = Bit(data[o + 1], b)
      /\ \A o \in 0 .. n - 1 :
           (\A b \in 0 .. ByteBits - 1 : <<o, b>> \notin cells) => p[o + 1] = data[o + 1]
  BY DEF Leaves
<1> DEFINE l == Len(p)
<1> HIDE DEF n, l
<1>4. CASE IsNumber(f)
  <2> DEFINE e == Encoded(f.type, v)
             w == Width[f.type]
  <2>1. f.type # "bit" /\ f.type \in DOMAIN Width
    BY <1>2, <1>4 DEF IsNumber
  <2>2. f.offset + w <= n /\ \A k \in 1 .. w : data[f.offset + k] = e[k]
    BY <1>4 DEF Held, n
  <2>3. w \in Nat
    BY <2>1, Widths
  <2>4. Cells(f, v) = (f.offset .. f.offset + w - 1) \X (0 .. ByteBits - 1)
    <3>1. f.type # "bytes"
      BY <2>1, Widths
    <3> QED
      BY <1>4, <2>1, <3>1 DEF Cells
  <2> HIDE DEF e, w
  <2>5. ASSUME NEW k \in 1 .. w PROVE p[f.offset + k] = e[k]
    <3>1. PICK o : o = f.offset + k - 1
      OBVIOUS
    <3>2. o \in 0 .. n - 1 /\ o \in f.offset .. f.offset + w - 1 /\ o + 1 = f.offset + k
      BY <1>1, <2>2, <2>3, <3>1
    <3>3. \A b \in 0 .. ByteBits - 1 : <<o, b>> \in Cells(f, v)
      BY <2>4, <3>2
    <3>4. \A b \in 0 .. ByteBits - 1 : <<o, b>> \notin cells
      BY <3>3
    <3>5. p[o + 1] = data[o + 1]
      BY <1>3, <3>2, <3>4
    <3> QED
      BY <2>2, <3>2, <3>5
  <2>6. f.offset + w <= l
    BY <1>1, <1>3, <2>2, <2>3 DEF l
  <2> QED
    BY <2>1, <2>5, <2>6 DEF Held, e, w, l
<1>5. CASE ~ IsNumber(f)
  <2>1. f.type = "bit" /\ f.bit \in 0 .. ByteBits - 1
    BY <1>5, Widths DEF IsNumber, Explained
  <2>2. f.offset < n /\ Bit(data[f.offset + 1], f.bit) = v
    BY <2>1 DEF Held, n
  <2>3. Cells(f, v) = {<<f.offset, f.bit>>}
    BY <2>1 DEF Cells
  <2>4. <<f.offset, f.bit>> \notin cells
    BY <2>3
  <2>5. f.offset \in 0 .. n - 1
    BY <1>1, <2>2
  <2>6. Bit(p[f.offset + 1], f.bit) = v
    BY <1>3, <2>1, <2>2, <2>4, <2>5
  <2>7. f.offset < l
    BY <1>1, <1>3, <2>2 DEF l
  <2> QED
    BY <1>5, <2>6, <2>7 DEF Held, l
<1> QED
  BY <1>4, <1>5

\* The value that a payload has for a field is shown.
LEMMA HeldIsShown ==
  ASSUME NEW data \in Seq(Bytes), NEW f \in Field, NEW v, Fits(f, v), Explained(f), Held(data, f, v)
  PROVE  IsShown(f, data) /\ Shown(f, data) = v
<1>1. f.offset \in Nat /\ Len(data) \in Nat
  BY DEF Field
<1>2. CASE IsNumber(f)
  <2> DEFINE e == Encoded(f.type, v)
             w == Width[f.type]
             n == Len(data)
             s == SubSeq(data, f.offset + 1, f.offset + w)
  <2>1. f.type \in DOMAIN Width /\ f.type # "bit" /\ f.type \in {"u8", "u32le", "u32be"}
    BY <1>2, Widths DEF IsNumber, Explained
  <2>2. v \in 0 .. MaxValue(f.type)
    BY <1>2 DEF Fits
  <2>3. e \in Seq(Bytes) /\ Len(e) = w /\ Decoded(f.type, e) = v
    BY <2>1, <2>2, DecodedIsEncoded
  <2>4. w \in Nat
    BY <2>1, Widths
  <2>5. f.offset + w <= n /\ \A k \in 1 .. w : data[f.offset + k] = e[k]
    BY <1>2 DEF Held
  <2> HIDE DEF e, w
  <2>6. s = e
    <3>1. s \in Seq(Bytes) /\ Len(s) = w /\ \A k \in 1 .. w : s[k] = data[f.offset + k]
      BY <1>1, <2>4, <2>5, SMTT(30)
    <3> HIDE DEF s
    <3>2. \A k \in 1 .. Len(s) : s[k] = e[k]
      BY <2>5, <3>1
    <3> QED
      BY <2>3, <3>1, <3>2
  <2>7. IsShown(f, data)
    BY <2>1, <2>5 DEF IsShown, w
  <2>8. Shown(f, data) = Decoded(f.type, s)
    BY <2>1 DEF Shown, w
  <2> HIDE DEF s
  <2> QED
    BY <2>3, <2>6, <2>7, <2>8
<1>3. CASE ~ IsNumber(f)
  <2>1. f.type = "bit" /\ f.bit \in 0 .. ByteBits - 1
    BY <1>3, Widths DEF IsNumber, Explained
  <2> QED
    BY <2>1 DEF Held, IsShown, Shown
<1> QED
  BY <1>2, <1>3

\* The payload has the value of every field whose cells no later field overwrites.
LEMMA PayloadHolds ==
  ASSUME NEW fields \in Seq(Field), NEW typed,
         \A i \in DOMAIN fields : Fits(fields[i], Given(typed, fields[i]))
  PROVE  /\ PayloadOf(fields, typed) \in Seq(Bytes)
         /\ \A i \in DOMAIN fields :
              /\ Explained(fields[i])
              /\ \A j \in i + 1 .. Len(fields) :
                   Cells(fields[i], Given(typed, fields[i]))
                     \intersect Cells(fields[j], Given(typed, fields[j])) = {}
              => Held(PayloadOf(fields, typed), fields[i], Given(typed, fields[i]))
<1> DEFINE n == Len(fields)
           P == Seq(Bytes)
           empty == <<>>
           V(i) == Given(typed, fields[i])
           C(i) == Cells(fields[i], V(i))
           H(p, i) == Held(p, fields[i], V(i))
           W(f) == [k \in 0 .. n |-> IF k = 0 THEN empty ELSE WriteField(f[k - 1], fields[k], V(k))]
           written == CHOOSE f : f = W(f)
<1>1. n \in Nat /\ DOMAIN fields = 1 .. n /\ \A i \in 1 .. n : fields[i] \in Field /\ Fits(fields[i], V(i))
  OBVIOUS
<1>2. empty \in P
  OBVIOUS
<1>3. PayloadOf(fields, typed) = written[n]
  BY DEF PayloadOf
<1> HIDE DEF n, empty, V, C, H
<1>4. ASSUME NEW i \in 1 .. n, NEW p \in P
      PROVE  /\ Leaves(WriteField(p, fields[i], V(i)), p, C(i))
             /\ H(WriteField(p, fields[i], V(i)), i)
             /\ WriteField(p, fields[i], V(i)) \in P
  BY <1>1, WriteFieldFacts DEF Leaves, C, H
<1> HIDE DEF P
<1>5. \E f : f = W(f)
  <2> DEFINE g == [i \in 1 .. n |-> [p \in P |-> WriteField(p, fields[i], V(i))]]
  <2>1. g \in [1 .. n -> [P -> P]]
    BY <1>4
  <2>2. \A i \in 1 .. n, p \in P : g[i][p] = WriteField(p, fields[i], V(i))
    OBVIOUS
  <2> HIDE DEF g
  <2>3. StepsUpTo(P, g, empty, n)
    BY <1>2, <2>1 DEF StepsUpTo
  <2>4. PICK f \in [0 .. n -> P] : f[0] = empty /\ \A i \in 1 .. n : f[i] = g[i][f[i - 1]]
    BY <1>1, <2>3, StepByStep
  <2>5. \A i \in 1 .. n : i - 1 \in 0 .. n /\ f[i - 1] \in P
    BY <1>1
  <2>6. \A i \in 1 .. n : f[i] = WriteField(f[i - 1], fields[i], V(i))
    BY <2>2, <2>4, <2>5
  <2>7. \A i \in 0 .. n : i # 0 => i \in 1 .. n
    BY <1>1
  <2>8. f = W(f)
    <3>1. f = [k \in 0 .. n |-> f[k]]
      OBVIOUS
    <3> QED
      BY <2>4, <2>6, <2>7, <3>1
  <2> QED
    BY <2>8
<1>6. written = W(written)
  <2> HIDE DEF W
  <2> QED
    BY <1>5
<1> HIDE DEF written
<1>7. written[0] = empty /\ \A k \in 1 .. n : written[k] = WriteField(written[k - 1], fields[k], V(k))
  <2>1. \A k \in 0 .. n : written[k] = IF k = 0 THEN empty ELSE WriteField(written[k - 1], fields[k], V(k))
    BY <1>6
  <2>2. 0 \in 0 .. n /\ \A k \in 1 .. n : k \in 0 .. n /\ k # 0
    BY <1>1
  <2> QED
    BY <2>1, <2>2
<1>8. \A k \in 0 .. n : written[k] \in P
  <2> DEFINE S == {k \in Nat : k <= n => written[k] \in P}
  <2>1. 0 \in S
    BY <1>2, <1>7
  <2>2. \A k \in Nat : k \in S => k + 1 \in S
    <3> SUFFICES ASSUME NEW k \in Nat, k <= n => written[k] \in P, k + 1 <= n PROVE written[k + 1] \in P
      OBVIOUS
    <3>1. k + 1 \in 1 .. n /\ (k + 1) - 1 = k /\ k <= n
      BY <1>1
    <3>2. written[k + 1] = WriteField(written[k], fields[k + 1], V(k + 1))
      BY <1>7, <3>1
    <3> QED
      BY <1>4, <3>1, <3>2
  <2> HIDE DEF S
  <2>3. Nat \subseteq S
    BY <2>1, <2>2, AllNaturals
  <2> QED
    BY <1>1, <2>3 DEF S
<1>9. ASSUME NEW i \in 1 .. n, Explained(fields[i]), \A j \in i + 1 .. n : C(i) \intersect C(j) = {}
      PROVE  H(written[n], i)
  <2> DEFINE S == {k \in Nat : i + k <= n => H(written[i + k], i)}
  <2>1. 0 \in S
    <3>1. i + 0 = i /\ i - 1 \in 0 .. n
      BY <1>1
    <3>2. written[i] = WriteField(written[i - 1], fields[i], V(i)) /\ written[i - 1] \in P
      BY <1>7, <1>8, <3>1
    <3>3. H(written[i], i)
      BY <1>4, <3>2
    <3> QED
      BY <3>1, <3>3
  <2>2. \A k \in Nat : k \in S => k + 1 \in S
    <3> SUFFICES ASSUME NEW k \in Nat, i + k <= n => H(written[i + k], i), i + (k + 1) <= n
                 PROVE  H(written[i + (k + 1)], i)
      OBVIOUS
    <3>1. PICK j : j = i + (k + 1)
      OBVIOUS
    <3>2. j \in 1 .. n /\ j \in i + 1 .. n /\ j - 1 = i + k /\ i + k <= n /\ j - 1 \in 0 .. n
      BY <1>1, <3>1
    <3>3. PICK p : p = written[j - 1]
      OBVIOUS
    <3>4. p \in P /\ H(p, i)
      BY <1>8, <3>2, <3>3
    <3>5. written[j] = WriteField(p, fields[j], V(j))
      BY <1>7, <3>2, <3>3
    <3>6. Leaves(written[j], p, C(j))
      BY <1>4, <3>2, <3>4, <3>5
    <3>7. C(i) \intersect C(j) = {} /\ fields[i] \in Field
      BY <1>1, <1>9, <3>2
    <3>8. H(written[j], i)
      BY <1>9, <3>4, <3>6, <3>7, HeldStays DEF C, H, P
    <3> QED
      BY <3>1, <3>8
  <2> HIDE DEF S
  <2>3. n - i \in S
    <3>1. n - i \in Nat
      BY <1>1
    <3> QED
      BY <2>1, <2>2, <3>1, AllNaturals
  <2>4. i + (n - i) = n
    BY <1>1
  <2> QED
    BY <1>1, <2>3, <2>4 DEF S
<1>10. written[n] \in P
  BY <1>1, <1>8
<1> QED
  BY <1>1, <1>3, <1>9, <1>10 DEF n, P, V, C, H

\* The summary has every field that the payload is long enough for.
LEMMA SummaryHas ==
  ASSUME NEW fields \in Seq(Field), NEW data, NEW i \in DOMAIN fields, IsShown(fields[i], data)
  PROVE  <<fields[i].name, Shown(fields[i], data)>> \in ToSet(Summary(fields, data))
<1> DEFINE S == {k \in DOMAIN fields : IsShown(fields[k], data)}
           picked == Picked(fields, S)
<1>1. S \in SUBSET (1 .. Len(fields)) /\ i \in S
  OBVIOUS
<1>2. Summary(fields, data) = [k \in DOMAIN picked |-> <<picked[k].name, Shown(picked[k], data)>>]
  BY DEF Summary
<1> HIDE DEF S
<1>3. \E k \in DOMAIN picked : Nth(S, k) = i /\ picked[k] = fields[Nth(S, k)]
  BY <1>1, PickedFacts
<1> HIDE DEF picked
<1>4. PICK k \in DOMAIN picked : picked[k] = fields[i]
  BY <1>3
<1> DEFINE s == Summary(fields, data)
<1>5. DOMAIN s = DOMAIN picked /\ s[k] = <<fields[i].name, Shown(fields[i], data)>>
  BY <1>2, <1>4
<1>6. s[k] \in ToSet(s)
  BY <1>5 DEF ToSet
<1> QED
  BY <1>5, <1>6

\* What is typed fits into every field of its name.
LEMMA TypedFits ==
  ASSUME NEW fields \in Seq(Field), NEW typed \in Typed(fields), NEW i \in DOMAIN fields
  PROVE  Fits(fields[i], Given(typed, fields[i]))
<1> DEFINE f == fields[i]
           N(kind) == NamesOf(fields, kind)
<1>1. f \in ToSet(fields) /\ f \in Field
  BY DEF ToSet
<1>2. f.name \in N(Kind(f))
  BY <1>1 DEF NamesOf
<1>3. /\ \E n \in [N("value") -> TypedNumbers] :
           typed.value = [name \in N("value") |-> Clamped(fields, name, n[name])]
      /\ typed.bool_value \in [N("bool_value") -> {0, 1}]
      /\ typed.bytes_hex \in [N("bytes_hex") -> TypedBytes]
  BY DEF Typed
<1>4. "bit" \notin DOMAIN Width
  BY Widths
<1> HIDE DEF N
<1>5. CASE IsNumber(f)
  <2>1. Kind(f) = "value" /\ f.type # "bit" /\ f.type \in DOMAIN Width
    BY <1>4, <1>5 DEF Kind, IsNumber
  <2>2. PICK n \in [N("value") -> TypedNumbers] :
          typed.value = [name \in N("value") |-> Clamped(fields, name, n[name])]
    BY <1>3
  <2>3. PICK v : v = n[f.name]
    OBVIOUS
  <2>4. v \in Nat /\ Given(typed, f) = Clamped(fields, f.name, v)
    <3>1. f.name \in N("value")
      BY <1>2, <2>1
    <3>2. v \in TypedNumbers
      BY <2>2, <2>3, <3>1
    <3>3. typed.value[f.name] = Clamped(fields, f.name, v)
      BY <2>2, <2>3, <3>1
    <3> QED
      BY <2>1, <3>2, <3>3, ToolAssumption DEF Given
  <2> DEFINE M == {g \in ToSet(fields) : IsNumber(g) /\ g.name = f.name}
             T == {v} \union {MaxValue(g.type) : g \in M}
  <2>5. \A type \in DOMAIN Width : MaxValue(type) \in Nat
    <3> SUFFICES ASSUME NEW type \in DOMAIN Width PROVE MaxValue(type) \in Nat
      OBVIOUS
    <3>1. Width[type] \in 0 .. 4
      BY Widths
    <3>2. ByteBits * Width[type] \in 0 .. WordBits
      BY <3>1, Shifts
    <3>3. Pow2[ByteBits * Width[type]] \in Nat \ {0}
      BY <3>2, Powers
    <3> QED
      BY <3>3 DEF MaxValue
  <2>6. \A g \in M : g.type \in DOMAIN Width
    BY DEF IsNumber
  <2>7. f \in M
    BY <1>1, <1>5
  <2>8. Given(typed, f) = Min(T)
    BY <2>4 DEF Clamped
  <2>9. T \in SUBSET Nat /\ v \in T /\ MaxValue(f.type) \in T
    <3> HIDE DEF M
    <3> QED
      BY <2>4, <2>5, <2>6, <2>7
  <2> HIDE DEF T
  <2>10. Min(T) \in T /\ \A y \in T : Min(T) <= y
    <3>1. \E x \in T : \A y \in T : x <= y
      BY <2>9, FirstOfMember
    <3> QED
      BY <3>1 DEF Min
  <2>11. Given(typed, f) \in 0 .. MaxValue(f.type)
    <3>1. PICK x : x = Min(T)
      OBVIOUS
    <3>2. x \in Nat /\ x <= MaxValue(f.type) /\ MaxValue(f.type) \in Nat
      BY <2>9, <2>10, <3>1
    <3>3. x \in 0 .. MaxValue(f.type)
      BY <3>2
    <3> QED
      BY <2>8, <3>1, <3>3
  <2> QED
    BY <1>5, <2>1, <2>11 DEF Fits
<1>6. CASE f.type = "bit"
  <2>1. ~ IsNumber(f) /\ Kind(f) = "bool_value"
    BY <1>4, <1>6 DEF Kind, IsNumber
  <2>2. Given(typed, f) \in {0, 1}
    BY <1>2, <1>3, <2>1 DEF Given
  <2> QED
    BY <1>6, <2>1, <2>2 DEF Fits
<1>7. CASE ~ IsNumber(f) /\ f.type # "bit"
  <2>1. Kind(f) = "bytes_hex"
    BY <1>7 DEF Kind
  <2>2. Given(typed, f) \in TypedBytes
    BY <1>2, <1>3, <2>1 DEF Given
  <2> QED
    BY <1>7, <2>2, ToolAssumption DEF Fits
<1> QED
  BY <1>5, <1>6, <1>7

-----------------------------------------------------------------------------
(* The dictionary.                                                         *)

LEMMA LastOfMember ==
  ASSUME NEW n \in Nat, NEW S \in SUBSET (1 .. n), S # {}
  PROVE  Max(S) \in S
<1> DEFINE T == {n - x : x \in S}
<1>1. T \in SUBSET Nat /\ T # {}
  <2>1. \A x \in S : n - x \in Nat
    OBVIOUS
  <2>2. \E x : x \in S
    OBVIOUS
  <2> QED
    BY <2>1, <2>2
<1>2. PICK m \in T : \A j \in T : m <= j
  BY <1>1, FirstOfMember
<1>3. PICK x \in S : m = n - x
  BY <1>2
<1>4. \A y \in S : x >= y
  <2> SUFFICES ASSUME NEW y \in S PROVE x >= y
    OBVIOUS
  <2>1. n - y \in T
    OBVIOUS
  <2>2. n - x <= n - y
    BY <1>2, <1>3, <2>1
  <2> QED
    BY <2>2
<1> HIDE DEF T
<1>5. \E z \in S : \A y \in S : z >= y
  BY <1>4
<1> QED
  BY <1>5 DEF Max

\* A message of the dictionary has a sequence of fields.
FieldsOK(dict) == \A id \in DOMAIN dict : dict[id] \in Seq(Field)

LEMMA LoadedFields ==
  ASSUME NEW dict, NEW file \in File, FieldsOK(dict)
  PROVE  FieldsOK(TryLoadFromFile(dict, file))
<1> DEFINE entries == file.entries
<1>1. entries \in Seq(Entries)
  BY DEF File
<1>2. CASE file.exists
  <2> DEFINE d == TryLoadFromFile(dict, file)
             U(id) == {k \in Usable(entries) : entries[k].id = id}
  <2>1. d = [id \in Described(entries) |-> entries[Max(U(id))].fields]
    BY <1>2 DEF TryLoadFromFile
  <2>2. Usable(entries) \in SUBSET (1 .. Len(entries)) /\ Len(entries) \in Nat
    BY <1>1 DEF Usable
  <2> HIDE DEF d, entries
  <2>3. ASSUME NEW id \in DOMAIN d PROVE d[id] \in Seq(Field)
    <3>1. id \in Described(entries) /\ d[id] = entries[Max(U(id))].fields
      BY <2>1
    <3>2. U(id) # {} /\ U(id) \in SUBSET (1 .. Len(entries))
      BY <2>2, <3>1 DEF Described
    <3>3. PICK k : k = Max(U(id))
      OBVIOUS
    <3>4. k \in U(id)
      <4> HIDE DEF U
      <4> QED
        BY <2>2, <3>2, <3>3, LastOfMember
    <3>5. k \in 1 .. Len(entries) /\ entries[k].is = "good"
      BY <2>2, <3>4 DEF Usable
    <3>6. PICK e : e = entries[k]
      OBVIOUS
    <3>7. e \in Entries /\ e.is = "good"
      BY <1>1, <3>5, <3>6
    <3>8. e.fields \in Seq(Field)
      BY <3>7 DEF Entries
    <3> QED
      BY <3>1, <3>3, <3>6, <3>8
  <2> QED
    BY <2>3 DEF FieldsOK, d
<1>3. CASE ~ file.exists
  BY <1>3 DEF TryLoadFromFile
<1> QED
  BY <1>2, <1>3

LEMMA FieldsOfMessages ==
  ASSUME NEW id
  PROVE  Fields(id) \in Seq(Field)
<1> DEFINE none == <<>>
<1>1. FieldsOK(none)
  BY DEF FieldsOK
<1> HIDE DEF none
<1>2. FieldsOK(TryLoadFromFile(none, First))
  BY <1>1, LoadedFields, ToolAssumption
<1>3. FieldsOK(TryLoadFromFile(TryLoadFromFile(none, First), Second))
  BY <1>2, LoadedFields, ToolAssumption
<1>4. FieldsOK(Dict)
  BY <1>2, <1>3 DEF Dict, Dictionary, none
<1> QED
  BY <1>4 DEF FieldsOK, Fields

-----------------------------------------------------------------------------
(* The message in the handler.                                             *)

RowInvariant ==
  \/ row.fields = <<>>
  \/ /\ row.fields \in Seq(Field)
     /\ row.typed \in Typed(row.fields)
     /\ row.data = PayloadOf(row.fields, row.typed)

LEMMA RowsKeep ==
  ASSUME NEW id, row' \in Rows(id)
  PROVE  RowInvariant'
<1>1. CASE Fields(id) = <<>>
  BY <1>1 DEF Rows, NoRow, RowInvariant
<1>2. CASE Fields(id) # <<>>
  <2>1. PICK typed \in Typed(Fields(id)) :
          row' = [fields |-> Fields(id), typed |-> typed, data |-> PayloadOf(Fields(id), typed)]
    BY <1>2 DEF Rows
  <2>2. row'.fields = Fields(id) /\ row'.typed = typed /\ row'.data = PayloadOf(Fields(id), typed)
    BY <2>1
  <2> QED
    BY <2>1, <2>2, FieldsOfMessages DEF RowInvariant
<1> QED
  BY <1>1, <1>2

LEMMA RowAtFirst == ToolInit => RowInvariant
<1> SUFFICES ASSUME ToolInit PROVE RowInvariant
  OBVIOUS
<1>1. row = NoRow
  BY DEF ToolInit
<1> QED
  BY <1>1 DEF NoRow, RowInvariant

LEMMA RowKeeps == RowInvariant /\ [ToolNext]_toolVars => RowInvariant'
<1> SUFFICES ASSUME RowInvariant, [ToolNext]_toolVars PROVE RowInvariant'
  OBVIOUS
<1>1. ASSUME row' = row PROVE RowInvariant'
  BY <1>1 DEF RowInvariant
<1>2. ASSUME row' = NoRow PROVE RowInvariant'
  BY <1>2 DEF RowInvariant, NoRow
<1>3. ASSUME NEW u, Plug(u) PROVE RowInvariant'
  BY <1>1, <1>3 DEF Plug, windowVars, rxVars
<1>4. CASE Draw
  BY <1>1, <1>4 DEF Draw, rxVars
<1>5. CASE Click
  BY <1>1, <1>5 DEF Click, windowVars, rxVars
<1>6. ASSUME NEW id, ReceiveBegin("pp", id, Rows(id)) PROVE RowInvariant'
  BY <1>6, RowsKeep DEF ReceiveBegin
<1>7. ASSUME NEW id, ReceiveBegin("raw", id, {NoRow}) PROVE RowInvariant'
  BY <1>2, <1>7 DEF ReceiveBegin
<1>8. CASE ReceiveEnd
  BY <1>2, <1>8 DEF ReceiveEnd
<1>9. CASE Here
  BY <1>1, <1>9 DEF Here
<1>10. CASE RemoveNothing
  BY <1>1, <1>10 DEF RemoveNothing, rxVars
<1>11. CASE Restart
  BY <1>1, <1>11 DEF Restart
<1>12. CASE UNCHANGED toolVars
  BY <1>1, <1>12 DEF toolVars, windowVars, rxVars
<1>13. Clear \/ CheckFilter \/ CloseFilter \/ RemoveIgnored \/ (\E k \in 1 .. MaxFilters : Select(k))
         \/ (\E id \in RawIds : AddIgnored(id)) => Here
  BY DEF Clear, CheckFilter, CloseFilter, RemoveIgnored, Select, AddIgnored
<1> QED
  BY <1>3, <1>4, <1>5, <1>6, <1>7, <1>8, <1>9, <1>10, <1>11, <1>12, <1>13 DEF ToolNext

(***************************************************************************)
(* What the peer types into the transmit window                            *)
(* (update_payload_from_fields of window_can_tx.cpp) is what the receive   *)
(* window explains (FormatPayloadSummary), for every dictionary, every     *)
(* number and every payload: for the fields of a type that is explained    *)
(* and that no later field of the message overwrites.                      *)
(***************************************************************************)
THEOREM WhatIsTypedIsShown == ToolSpec => []TypedIsShown
<1>1. RowInvariant => TypedIsShown
  <2> SUFFICES ASSUME RowInvariant, NEW i \in DOMAIN row.fields,
                      Explained(row.fields[i]),
                      \A j \in i + 1 .. Len(row.fields) :
                        Cells(row.fields[i], Given(row.typed, row.fields[i]))
                          \intersect Cells(row.fields[j], Given(row.typed, row.fields[j])) = {}
               PROVE  <<row.fields[i].name, Given(row.typed, row.fields[i])>>
                        \in ToSet(Summary(row.fields, row.data))
    BY DEF TypedIsShown, Explained
  <2> DEFINE fields == row.fields
             typed == row.typed
             data == row.data
             f == fields[i]
             v == Given(typed, f)
  <2>1. fields \in Seq(Field) /\ typed \in Typed(fields) /\ data = PayloadOf(fields, typed)
    BY DEF RowInvariant
  <2>2. \A j \in i + 1 .. Len(fields) : Cells(f, v) \intersect Cells(fields[j], Given(typed, fields[j])) = {}
    OBVIOUS
  <2>3. Explained(f) /\ i \in DOMAIN fields
    OBVIOUS
  <2> HIDE DEF fields, typed, data
  <2>4. \A j \in DOMAIN fields : Fits(fields[j], Given(typed, fields[j]))
    BY <2>1, TypedFits
  <2>5. data \in Seq(Bytes) /\ Held(data, f, v)
    BY <2>1, <2>2, <2>3, <2>4, PayloadHolds
  <2>6. f \in Field
    BY <2>1, <2>3
  <2>7. IsShown(f, data) /\ Shown(f, data) = v
    BY <2>3, <2>4, <2>5, <2>6, HeldIsShown
  <2>8. <<f.name, Shown(f, data)>> \in ToSet(Summary(fields, data))
    BY <2>1, <2>3, <2>7, SummaryHas
  <2> QED
    BY <2>7, <2>8 DEF fields, typed, data
<1> QED
  BY <1>1, RowAtFirst, RowKeeps, PTL DEF ToolSpec
=============================================================================
