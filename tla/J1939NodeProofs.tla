--------------------------- MODULE J1939NodeProofs ---------------------------
(***************************************************************************)
(* Proofs about the Uni.HAL backend and the J1939 nodes on it, for every   *)
(* number of channels, every division of the filter bank that gives the    *)
(* channels slots of their own, every set of parameter groups and every    *)
(* description of signals: filters are in force; signals keep their        *)
(* values; what is wanted is received; what is received means what its     *)
(* sender meant.  The second half of the module is about numbers: powers   *)
(* of two, fields between them, and the identifiers and payloads that are  *)
(* made of fields.                                                         *)
(***************************************************************************)
EXTENDS J1939Node, DataProofs

\* What filter_add can be asked for by the applications.
Filters ==
  {CanonFilter(FilterFor(c, pgn)) : c \in Channels, pgn \in UNION {Wanted[d] : d \in Channels}}

\* The entry of a slot of the bank.
Entry(c, f) == [can |-> c, id |-> f[1], mask |-> f[2]]
Entries == {NoFilter} \union {Entry(c, f) : c \in Channels, f \in Filters}

FilterTypeOK ==
  /\ filters \in [Channels -> Seq(Filters)]
  /\ bank \in [BankSlots -> Entries]

FilterInvariant == FilterTypeOK /\ FiltersInForce

-----------------------------------------------------------------------------
(* Facts about the slots.                                                  *)

(***************************************************************************)
(* filter_add puts a filter into a slot of its channel, and the slots of   *)
(* two filters of one or of two channels are different.                    *)
(***************************************************************************)
LEMMA SlotsOfChannel ==
  ASSUME NEW c \in Channels, NEW n \in Nat, n < Least(SlotCount[c], FiltersMax)
  PROVE  /\ SlotFirst[c] + n \in SlotsOf(c)
         /\ SlotFirst[c] + n \in BankSlots
<1>1. SlotFirst[c] \in Nat /\ SlotCount[c] \in Nat /\ FiltersMax \in Nat
  BY SlotsAssumption
<1>2. Least(SlotCount[c], FiltersMax) \in Nat
  BY <1>1 DEF Least
<1>3. SlotFirst[c] + n \in SlotsOf(c)
  BY <1>1, <1>2 DEF SlotsOf
<1> QED
  BY <1>3, SlotsAssumption

(***************************************************************************)
(* Appending a filter to those of a channel.                               *)
(***************************************************************************)
LEMMA AppendFacts ==
  ASSUME NEW S, NEW q \in Seq(S), NEW e \in S
  PROVE  /\ Append(q, e) \in Seq(S)
         /\ Len(Append(q, e)) = Len(q) + 1
         /\ DOMAIN Append(q, e) = 1 .. Len(q) + 1
         /\ \A k \in 1 .. Len(q) : Append(q, e)[k] = q[k]
         /\ Append(q, e)[Len(q) + 1] = e
  OBVIOUS

-----------------------------------------------------------------------------
(* Steps.                                                                  *)

(***************************************************************************)
(* A channel that is set up has no filters; its old ones stay in the bank, *)
(* in slots of its own.                                                    *)
(***************************************************************************)
LEMMA SetupKeeps ==
  ASSUME FilterInvariant, NEW c \in Channels, Setup(c)
  PROVE  FilterInvariant'
<1>1. filters' = [filters EXCEPT ![c] = <<>>] /\ bank' = bank
  BY DEF Setup, halVars
<1>2. FilterTypeOK'
  BY <1>1 DEF FilterInvariant, FilterTypeOK
<1>3. \A d \in Channels : filters'[d] = IF d = c THEN <<>> ELSE filters[d]
  BY <1>1 DEF FilterInvariant, FilterTypeOK
<1>4. FiltersInForce'
  <2>1. ASSUME NEW d \in Channels
        PROVE  /\ Len(filters'[d]) <= Least(SlotCount[d], FiltersMax)
               /\ \A k \in DOMAIN filters'[d] :
                    bank'[SlotFirst[d] + k - 1] = [can |-> d, id |-> filters'[d][k][1], mask |-> filters'[d][k][2]]
               /\ \A j, k \in DOMAIN filters'[d] : filters'[d][j] = filters'[d][k] => j = k
    <3>1. CASE d = c
      <4>1. filters'[d] = <<>>
        BY <3>1, <1>3
      <4>2. Least(SlotCount[d], FiltersMax) \in Nat
        BY SlotsAssumption DEF Least
      <4> QED
        BY <4>1, <4>2
    <3>2. CASE d # c
      <4>1. filters'[d] = filters[d]
        BY <3>2, <1>3
      <4> QED
        BY <4>1, <1>1 DEF FilterInvariant, FiltersInForce
    <3> QED
      BY <3>1, <3>2
  <2>2. \A s \in BankSlots : bank'[s] # NoFilter =>
          \E d \in Channels : bank'[s].can = d /\ s \in SlotsOf(d)
    BY <1>1 DEF FilterInvariant, FiltersInForce
  <2> QED
    BY <2>1, <2>2 DEF FiltersInForce
<1> QED
  BY <1>2, <1>4 DEF FilterInvariant

(***************************************************************************)
(* filter_add: a filter that is new takes the next slot of its channel.    *)
(***************************************************************************)
LEMMA FilterAddKeeps ==
  ASSUME FilterInvariant, NEW c \in Channels, NEW f, CanonFilter(f) \in Filters, FilterAdd(c, f)
  PROVE  FilterInvariant'
<1> DEFINE g == CanonFilter(f)
           n == Len(filters[c])
           slot == SlotFirst[c] + n
<1>1. CASE UNCHANGED <<filters, bank>>
  BY <1>1 DEF FilterInvariant, FilterTypeOK, FiltersInForce
<1>2. CASE /\ filters' = [filters EXCEPT ![c] = Append(@, CanonFilter(f))]
           /\ bank' = [bank EXCEPT ![SlotFirst[c] + Len(filters[c])] =
                         [can |-> c, id |-> Canon(f[1]), mask |-> Canon(f[2])]]
  <2>1. filters[c] \in Seq(Filters) /\ n \in Nat
    BY DEF FilterInvariant, FilterTypeOK
  <2>2. n < Least(SlotCount[c], FiltersMax) /\ ~ IsSet(c, f)
    BY DEF FilterAdd, HasSlot
  <2>3. slot \in SlotsOf(c) /\ slot \in BankSlots
    BY <2>1, <2>2, SlotsOfChannel
  <2>4. Entry(c, g) = [can |-> c, id |-> Canon(f[1]), mask |-> Canon(f[2])] /\ Entry(c, g) \in Entries
    BY DEF Entry, Entries, CanonFilter
  <2>5. \A d \in Channels : filters'[d] = IF d = c THEN Append(filters[c], g) ELSE filters[d]
    BY <1>2 DEF FilterInvariant, FilterTypeOK
  <2>6. \A s \in BankSlots : bank'[s] = IF s = slot THEN Entry(c, g) ELSE bank[s]
    BY <1>2, <2>3, <2>4 DEF FilterInvariant, FilterTypeOK
  <2>7. /\ Append(filters[c], g) \in Seq(Filters)
        /\ Len(Append(filters[c], g)) = n + 1
        /\ DOMAIN Append(filters[c], g) = 1 .. n + 1
        /\ \A k \in 1 .. n : Append(filters[c], g)[k] = filters[c][k]
        /\ Append(filters[c], g)[n + 1] = g
    BY <2>1, AppendFacts
  <2>8. FilterTypeOK'
    <3>1. filters' \in [Channels -> Seq(Filters)]
      BY <1>2, <2>7 DEF FilterInvariant, FilterTypeOK
    <3>2. bank' \in [BankSlots -> Entries]
      BY <1>2, <2>3, <2>4 DEF FilterInvariant, FilterTypeOK
    <3> QED
      BY <3>1, <3>2 DEF FilterTypeOK
  <2>9. ASSUME NEW d \in Channels
        PROVE  /\ Len(filters'[d]) <= Least(SlotCount[d], FiltersMax)
               /\ \A k \in DOMAIN filters'[d] : bank'[SlotFirst[d] + k - 1] = Entry(d, filters'[d][k])
               /\ \A j, k \in DOMAIN filters'[d] : filters'[d][j] = filters'[d][k] => j = k
    <3>1. /\ Len(filters[d]) <= Least(SlotCount[d], FiltersMax)
          /\ \A k \in DOMAIN filters[d] : bank[SlotFirst[d] + k - 1] = Entry(d, filters[d][k])
          /\ \A j, k \in DOMAIN filters[d] : filters[d][j] = filters[d][k] => j = k
      BY DEF FilterInvariant, FiltersInForce, Entry
    <3>2. /\ SlotFirst[d] \in Nat /\ Least(SlotCount[d], FiltersMax) \in Nat
          /\ filters[d] \in Seq(Filters) /\ DOMAIN filters[d] = 1 .. Len(filters[d])
      BY SlotsAssumption DEF Least, FilterInvariant, FilterTypeOK
    <3>3. \A k \in 1 .. Len(filters[d]) :
            /\ SlotFirst[d] + k - 1 \in SlotsOf(d)
            /\ SlotFirst[d] + k - 1 \in BankSlots
      <4>1. TAKE k \in 1 .. Len(filters[d])
      <4>2. k - 1 \in Nat /\ k - 1 < Least(SlotCount[d], FiltersMax) /\ SlotFirst[d] + k - 1 = SlotFirst[d] + (k - 1)
        BY <3>1, <3>2
      <4> QED
        BY <4>2, SlotsOfChannel
    <3>4. CASE d # c
      <4>1. filters'[d] = filters[d]
        BY <3>4, <2>5
      <4>2. \A k \in DOMAIN filters[d] : SlotFirst[d] + k - 1 # slot
        BY <3>2, <3>3, <3>4, <2>3, SlotsAssumption
      <4>3. \A k \in DOMAIN filters[d] : bank'[SlotFirst[d] + k - 1] = bank[SlotFirst[d] + k - 1]
        BY <3>2, <3>3, <4>2, <2>6
      <4> QED
        BY <4>1, <4>3, <3>1
    <3>5. CASE d = c
      <4>1. filters'[d] = Append(filters[c], g)
        BY <3>5, <2>5
      <4>2. Len(filters'[d]) <= Least(SlotCount[d], FiltersMax)
        BY <4>1, <2>7, <2>2, <2>1, <3>2, <3>5
      <4>3. ASSUME NEW k \in DOMAIN filters'[d]
            PROVE  bank'[SlotFirst[d] + k - 1] = Entry(d, filters'[d][k])
        <5>1. CASE k = n + 1
          <6>1. SlotFirst[d] + k - 1 = slot
            BY <5>1, <3>2, <3>5, <2>1
          <6> QED
            BY <6>1, <5>1, <4>1, <2>3, <2>6, <2>7, <3>5
        <5>2. CASE k \in 1 .. n
          <6>1. SlotFirst[d] + k - 1 \in BankSlots /\ SlotFirst[d] + k - 1 # slot
            BY <5>2, <3>2, <3>3, <3>5, <2>1
          <6>2. filters'[d][k] = filters[d][k]
            BY <5>2, <4>1, <2>7, <3>5
          <6> QED
            BY <6>1, <6>2, <5>2, <3>1, <3>2, <3>5, <2>6
        <5> QED
          BY <5>1, <5>2, <4>1, <2>7, <2>1
      <4>4. \A k \in 1 .. n : filters[c][k] # g
        BY <2>2, <3>2, <3>5 DEF IsSet
      <4>5. \A j, k \in DOMAIN filters'[d] : filters'[d][j] = filters'[d][k] => j = k
        <5>1. DOMAIN filters'[d] = 1 .. n + 1
          BY <4>1, <2>7
        <5>2. \A j, k \in 1 .. n : filters'[d][j] = filters'[d][k] => j = k
          <6>1. \A k \in 1 .. n : filters'[d][k] = filters[c][k]
            BY <4>1, <2>7
          <6>2. \A j, k \in 1 .. n : filters[c][j] = filters[c][k] => j = k
            BY <3>1, <3>2, <3>5
          <6> QED
            BY <6>1, <6>2
        <5>3. \A j \in 1 .. n : filters'[d][j] # filters'[d][n + 1]
          BY <4>1, <4>4, <2>7
        <5> QED
          BY <5>1, <5>2, <5>3, <2>1, SMTT(30)
      <4> QED
        BY <4>2, <4>3, <4>5
    <3> QED
      BY <3>4, <3>5
  <2>10. ASSUME NEW s \in BankSlots, bank'[s] # NoFilter
         PROVE  \E d \in Channels : bank'[s].can = d /\ s \in SlotsOf(d)
    <3>1. CASE s = slot
      BY <3>1, <2>3, <2>6 DEF Entry
    <3>2. CASE s # slot
      BY <3>2, <2>6, <2>10 DEF FilterInvariant, FiltersInForce
    <3> QED
      BY <3>1, <3>2
  <2> QED
    BY <2>8, <2>9, <2>10 DEF FilterInvariant, FiltersInForce, Entry
<1> QED
  BY <1>1, <1>2 DEF FilterAdd

(***************************************************************************)
(* Nothing else touches filters and bank.                                  *)
(***************************************************************************)
LEMMA OthersKeep ==
  ASSUME FilterInvariant, UNCHANGED <<filters, bank>>
  PROVE  FilterInvariant'
  BY DEF FilterInvariant, FilterTypeOK, FiltersInForce

-----------------------------------------------------------------------------

(***************************************************************************)
(* The filters, from the start and step by step.                           *)
(***************************************************************************)
LEMMA FiltersAtFirst == NodeInit => FilterInvariant
<1> SUFFICES ASSUME NodeInit PROVE FilterInvariant
  OBVIOUS
<1>1. filters = [c \in Channels |-> <<>>] /\ bank = [s \in BankSlots |-> NoFilter]
  BY DEF NodeInit, Init
<1>2. \A c \in Channels : Least(SlotCount[c], FiltersMax) \in Nat
  BY SlotsAssumption DEF Least
<1>3. FilterTypeOK
  BY <1>1 DEF FilterTypeOK, Entries
<1>4. FiltersInForce
  BY <1>1, <1>2 DEF FiltersInForce
<1> QED
  BY <1>3, <1>4 DEF FilterInvariant

LEMMA FiltersKeep == FilterInvariant /\ [NodeNext]_nodeVars => FilterInvariant'
<1> SUFFICES ASSUME FilterInvariant, [NodeNext]_nodeVars PROVE FilterInvariant'
  OBVIOUS
<1>1. ASSUME NEW c \in Channels, NodeSetup(c) PROVE FilterInvariant'
  BY <1>1, SetupKeeps DEF NodeSetup
<1>2. ASSUME NEW c \in Channels, NEW pgn \in Wanted[c], AskFor(c, pgn) PROVE FilterInvariant'
  <2>1. CanonFilter(FilterFor(c, pgn)) \in Filters
    BY DEF Filters
  <2>2. CASE UNCHANGED vars
    BY <2>2, OthersKeep DEF vars, channelVars, halVars
  <2>3. CASE FilterAdd(c, FilterFor(c, pgn))
    BY <2>1, <2>3, FilterAddKeeps
  <2> QED
    BY <1>2, <2>2, <2>3 DEF AskFor
<1>3. ASSUME UNCHANGED <<filters, bank>> PROVE FilterInvariant'
  BY <1>3, OthersKeep
<1>4. ASSUME NEW c \in Channels,
             NodeUp(c) \/ NodeDown(c) \/ NodeAbort(c) \/ NodeReceive(c)
               \/ \E k \in 1 .. Mailboxes : NodeLeave(c, k)
      PROVE  UNCHANGED <<filters, bank>>
  BY <1>4 DEF NodeUp, NodeDown, NodeAbort, NodeReceive, NodeLeave, InitChannel, Open, Close,
              Destroy, Stop, TransmitAbort, ReceiveTo, Leave, channelVars, halVars
<1>5. ASSUME NEW c \in Senders,
             \/ \E k \in DOMAIN Desc : \E v \in Inputs(k) : SetSignal(c, k, v)
             \/ \E dst \in {Addr[d] : d \in Channels} : SendData(c, dst) \/ SendRequest(c, DataPgn, dst)
      PROVE  UNCHANGED <<filters, bank>>
  BY <1>5 DEF SetSignal, SendData, SendRequest, Post, Transmit, vars, channelVars, halVars
<1>6. ASSUME NEW f \in Foreign, NodeArrive(f) PROVE UNCHANGED <<filters, bank>>
  BY <1>6 DEF NodeArrive, Arrive, channelVars
<1>7. CASE UNCHANGED nodeVars
  BY <1>7, <1>3 DEF nodeVars, vars, channelVars, halVars
<1> QED
  BY <1>1, <1>2, <1>3, <1>4, <1>5, <1>6, <1>7 DEF NodeNext

(***************************************************************************)
(* No sequence of calls of the applications, refused ones and ones on      *)
(* other channels included, puts a filter that was granted out of force or *)
(* takes a slot of another channel.                                        *)
(***************************************************************************)
THEOREM NodeFilters == NodeSpec => []FiltersInForce
<1>1. FilterInvariant => FiltersInForce
  BY DEF FilterInvariant
<1> QED
  BY <1>1, FiltersAtFirst, FiltersKeep, PTL DEF NodeSpec

-----------------------------------------------------------------------------
(* Where the signals of the description are.                               *)

Place(k) == Start(Desc, k)

(***************************************************************************)
(* The signals of a description are fields of the payload, one after the   *)
(* other: the sum of the lengths before a signal is where it starts.       *)
(***************************************************************************)
LEMMA SignalsApart ==
  /\ \A k \in DOMAIN Desc : Place(k) \in Nat /\ Place(k) + Desc[k].length <= PayloadBits
  /\ \A j, k \in DOMAIN Desc : j < k => Place(j) + Desc[j].length <= Place(k)
<1> DEFINE n == Len(Desc)
           len == [i \in 1 .. n |-> Desc[i].length]
           Sums(f) == [i \in 0 .. n |-> IF i = 0 THEN 0 ELSE f[i - 1] + Desc[i].length]
           sum == CHOOSE f : f = Sums(f)
<1>1. n \in Nat /\ DOMAIN Desc = 1 .. n /\ \A k \in 1 .. n : Desc[k].length \in Nat
  <2>1. Desc \in Seq(Signal)
    BY DescAssumption
  <2>2. n \in Nat /\ DOMAIN Desc = 1 .. n /\ \A k \in 1 .. n : Desc[k] \in Signal
    BY <2>1
  <2> QED
    BY <2>2 DEF Signal
<1>2. \A k : Place(k) = sum[k - 1]
  BY DEF Start, Place
<1>3. len \in [1 .. n -> Nat] /\ \A k \in 1 .. n : len[k] = Desc[k].length
  BY <1>1
<1>4. \E f : f = Sums(f)
  <2> HIDE DEF n, len
  <2>1. PICK f : f = [i \in 0 .. n |-> IF i = 0 THEN 0 ELSE f[i - 1] + len[i]]
    BY <1>1, <1>3, Summing
  <2>2. \A i \in 0 .. n : f[i] = IF i = 0 THEN 0 ELSE f[i - 1] + Desc[i].length
    BY <1>1, <1>3, <2>1
  <2>3. f = Sums(f)
    BY <2>1, <2>2
  <2> QED
    BY <2>3
<1>5. sum = Sums(sum)
  <2> HIDE DEF Sums
  <2> QED
    BY <1>4
<1>6. sum[0] = 0 /\ \A i \in 1 .. n : sum[i] = sum[i - 1] + Desc[i].length
  <2> HIDE DEF sum, n
  <2>1. \A i \in 0 .. n : sum[i] = IF i = 0 THEN 0 ELSE sum[i - 1] + Desc[i].length
    BY <1>5
  <2>2. 0 \in 0 .. n /\ \A i \in 1 .. n : i \in 0 .. n /\ i # 0
    BY <1>1
  <2> QED
    BY <2>1, <2>2
<1> HIDE DEF n, sum
<1>7. \A j \in 0 .. n : sum[j] \in Nat /\ \A i \in 0 .. j : sum[i] \in Nat /\ sum[i] <= sum[j]
  <2>1. ASSUME NEW i \in 1 .. n, sum[i - 1] \in Nat PROVE sum[i] \in Nat /\ sum[i - 1] <= sum[i]
    <3>1. sum[i] = sum[i - 1] + Desc[i].length /\ Desc[i].length \in Nat
      BY <1>1, <1>6
    <3> QED
      BY <2>1, <3>1
  <2>2. Grows(sum, n)
    BY <1>6, <2>1 DEF Grows
  <2> QED
    BY <1>1, <2>2, Growing
<1>8. \A k \in 1 .. n : Place(k) \in Nat /\ Place(k) + Desc[k].length = sum[k]
  <2> TAKE k \in 1 .. n
  <2>1. k - 1 \in 0 .. n
    BY <1>1
  <2> QED
    BY <1>2, <1>6, <1>7, <2>1
<1>9. sum[n] <= PayloadBits
  <2>1. (n + 1) - 1 = n
    BY <1>1
  <2>2. Place(n + 1) = sum[n]
    BY <1>2, <2>1
  <2> QED
    BY <2>2, DescAssumption DEF Place, n
<1>10. ASSUME NEW k \in 1 .. n PROVE Place(k) + Desc[k].length <= PayloadBits
  <2>1. sum[k] \in Nat /\ sum[n] \in Nat /\ sum[k] <= sum[n]
    BY <1>1, <1>7
  <2> QED
    BY <1>8, <1>9, <2>1, PayloadAssumption
<1>11. ASSUME NEW j \in 1 .. n, NEW k \in 1 .. n, j < k
       PROVE  Place(j) + Desc[j].length <= Place(k)
  <2>1. k - 1 \in 0 .. n /\ j \in 0 .. k - 1
    BY <1>1, <1>11
  <2> QED
    BY <1>2, <1>7, <1>8, <2>1
<1> QED
  BY <1>1, <1>8, <1>10, <1>11

-----------------------------------------------------------------------------
(* Doubles.                                                                *)

LEMMA DoubleFacts ==
  /\ Precision \in Nat /\ Precision - 1 \in 0 .. WordBits /\ Precision \in 0 .. WordBits
  /\ Pow2[Precision - 1] \in Nat \ {0} /\ Pow2[Precision] = 2 * Pow2[Precision - 1]
  /\ Pow2[Precision] \in Nat /\ Pow2[Precision] >= 32
  /\ Unit \in Nat /\ Unit >= Pow2[Precision]
<1>1. Precision \in 5 .. 64 /\ WordBits = 64 /\ Unit \in Nat /\ Unit >= Pow2[Precision]
  BY DoubleAssumption DEF WordBits
<1>2. Precision - 5 \in Nat /\ 5 + (Precision - 5) = Precision /\ Precision \in 1 .. WordBits
  BY <1>1
<1>3. Pow2[Precision] = Pow2[5] * Pow2[Precision - 5] /\ Pow2[Precision - 5] \in Nat \ {0}
  <2>1. PICK x \in Nat : x = Precision - 5
    BY <1>2
  <2>2. 5 + x = Precision /\ 5 + x <= WordBits /\ x \in 0 .. WordBits
    BY <1>1, <1>2, <2>1
  <2>3. Pow2[5 + x] = Pow2[5] * Pow2[x] /\ Pow2[x] \in Nat \ {0}
    BY <2>2, PowersMultiply, Powers
  <2> QED
    BY <2>1, <2>2, <2>3
<1>4. Pow2[5] = 32
  <2>1. /\ Pow2[1] = 2 * Pow2[1 - 1] /\ Pow2[2] = 2 * Pow2[2 - 1] /\ Pow2[3] = 2 * Pow2[3 - 1]
        /\ Pow2[4] = 2 * Pow2[4 - 1] /\ Pow2[5] = 2 * Pow2[5 - 1]
    BY Powers DEF WordBits
  <2> QED
    BY <2>1, Powers
<1>5. Pow2[Precision] >= 32
  <2>1. PICK x \in Nat \ {0} : x = Pow2[Precision - 5]
    BY <1>3
  <2>2. Pow2[Precision] = 32 * x
    BY <1>3, <1>4, <2>1
  <2> QED
    BY <2>2
<1>6. Pow2[Precision] = 2 * Pow2[Precision - 1]
  BY <1>2, Powers
<1> QED
  BY <1>1, <1>5, <1>6, Powers

LEMMA TwosFacts == Twos[0] = 1 /\ \A e \in 0 .. Exponents : Twos[e] \in Nat \ {0}
<1> DEFINE Double(f) == [n \in 0 .. Exponents |-> IF n = 0 THEN 1 ELSE 2 * f[n - 1]]
           S == {n \in Nat : n <= Exponents => Twos[n] \in Nat \ {0}}
<1>1. Exponents \in Nat
  BY DoubleAssumption
<1>2. \E f : f = Double(f)
  BY <1>1, Doubling
<1>3. Twos = Double(Twos)
  <2>1. Twos = CHOOSE f : f = Double(f)
    BY DEF Twos
  <2> HIDE DEF Double
  <2> QED
    BY <1>2, <2>1
<1>4. \A n \in 0 .. Exponents : Twos[n] = IF n = 0 THEN 1 ELSE 2 * Twos[n - 1]
  BY <1>3
<1>5. Twos[0] = 1 /\ 0 \in S
  BY <1>1, <1>4
<1>6. \A n \in Nat : n \in S => n + 1 \in S
  <2> SUFFICES ASSUME NEW n \in S, n + 1 <= Exponents PROVE Twos[n + 1] \in Nat \ {0}
    OBVIOUS
  <2>1. n + 1 \in 0 .. Exponents /\ n + 1 # 0 /\ (n + 1) - 1 = n /\ Twos[n] \in Nat \ {0}
    BY <1>1
  <2>2. Twos[n + 1] = 2 * Twos[n]
    BY <1>4, <2>1
  <2> QED
    BY <2>1, <2>2
<1>7. Nat \subseteq S
  BY <1>5, <1>6, AllNaturals
<1> QED
  BY <1>1, <1>5, <1>7

\* The distance of doubles is the least, or the number has all its digits.
LEMMA GapFacts ==
  ASSUME NEW n \in Nat
  PROVE  /\ Gap(n) \in Nat \ {0}
         /\ Gap(n) = 1 \/ Pow2[Precision - 1] * Gap(n) <= n
<1> DEFINE S == {i \in Nat : i <= Exponents /\ Reaches(n, Exponents - i)}
           Widest(e) == Reaches(n, e) /\ \A f \in 0 .. Exponents : Reaches(n, f) => f <= e
<1>1. Exponents \in Nat
  BY DoubleAssumption
<1>2. S \in SUBSET Nat /\ Exponents \in S
  BY <1>1 DEF Reaches
<1>3. PICK i \in S : \A j \in S : i <= j
  BY <1>2, FirstOfMember
<1>4. Exponents - i \in 0 .. Exponents /\ Reaches(n, Exponents - i)
  BY <1>1, <1>3
<1>5. ASSUME NEW f \in 0 .. Exponents, Reaches(n, f) PROVE f <= Exponents - i
  <2>1. Exponents - f \in Nat /\ Exponents - f <= Exponents /\ Exponents - (Exponents - f) = f
    BY <1>1
  <2>2. Exponents - f \in S
    BY <1>5, <2>1
  <2> QED
    BY <1>1, <1>3, <2>2
<1>6. Widest(Exponents - i)
  BY <1>4, <1>5
<1>7. PICK e \in 0 .. Exponents : e = (CHOOSE f \in 0 .. Exponents : Widest(f)) /\ Widest(e)
  <2> HIDE DEF Widest
  <2> QED
    BY <1>4, <1>6
<1>8. Gap(n) = Twos[e] /\ Reaches(n, e)
  BY <1>7 DEF Gap
<1> QED
  BY <1>8, TwosFacts DEF Reaches

\* What Nearest leaves between a double x and the quotient n / d.
Near(x, n, d) ==
  2 * Size(x * d - n) <= d \/ Pow2[Precision] * Size(x * d - n) <= Size(n)

LEMMA Shares ==
  ASSUME NEW n \in Int, NEW c \in Nat \ {0}
  PROVE  n \div c \in Int /\ n % c \in 0 .. c - 1 /\ n = c * (n \div c) + (n % c)
         /\ (n >= 0 => n \div c >= 0)
  BY SMT

(***************************************************************************)
(* A quotient of doubles is off by half of the least distance or by half   *)
(* of its last digit at most.                                              *)
(***************************************************************************)
LEMMA NearestFacts ==
  ASSUME NEW n \in Int, NEW d \in Nat \ {0}
  PROVE  /\ Nearest(n, d) \in Int
         /\ n >= 0 => Nearest(n, d) \in Nat
         /\ Near(Nearest(n, d), n, d)
<1>1. Size(n) \in Nat
  BY DEF Size
<1>2. PICK a \in Nat : a = Size(n) \div d /\ d * a <= Size(n)
  <2>1. PICK y \in Nat : y = Size(n)
    BY <1>1
  <2>2. y \div d \in Nat /\ y % d \in 0 .. d - 1 /\ y = d * (y \div d) + (y % d)
    BY Divided
  <2>3. PICK b \in Nat, f \in Nat : b = y \div d /\ f = d * b /\ f <= y
    <3>1. d * (y \div d) \in Nat
      BY <2>2
    <3> QED
      BY <2>2, <3>1
  <2> QED
    BY <2>1, <2>3
<1>3. PICK g \in Nat \ {0} : g = Gap(a) /\ (g = 1 \/ Pow2[Precision - 1] * g <= a)
  BY GapFacts
<1>4. PICK c \in Nat \ {0} : c = d * g
  BY SMT
<1>5. PICK l \in Int, r \in 0 .. c - 1 : l = n \div c /\ r = n % c /\ n = c * l + r /\ (n >= 0 => l >= 0)
  BY Shares
<1>6. PICK z \in {0, 1} :
        /\ Nearest(n, d) = g * (l + z)
        /\ z = 0 => ~ (2 * r > c)
        /\ z = 1 => 2 * r > c \/ 2 * r = c
  <2>1. Nearest(n, d) = g * IF 2 * r > c \/ (2 * r = c /\ l % 2 = 1) THEN l + 1 ELSE l
    BY <1>2, <1>3, <1>4, <1>5 DEF Nearest
  <2>2. l = l + 0
    OBVIOUS
  <2> QED
    BY <2>1, <2>2
<1>7. PICK x \in Int : x = g * (l + z)
  BY SMT
<1>8. x * d - n = c * z - r
  <2>1. x * d = c * l + c * z
    BY <1>4, <1>7, SMT
  <2>2. PICK y \in Int, u \in Int : y = c * l /\ u = c * z
    BY SMT
  <2> QED
    BY <1>5, <2>1, <2>2
<1>9. 2 * Size(x * d - n) <= c /\ Size(x * d - n) \in Nat
  <2>1. c * z = IF z = 0 THEN 0 ELSE c
    OBVIOUS
  <2> QED
    BY <1>6, <1>8, <2>1 DEF Size
<1>10. n >= 0 => x \in Nat
  <2> SUFFICES ASSUME n >= 0 PROVE x \in Nat
    OBVIOUS
  <2>1. PICK y \in Nat : y = l + z
    BY <1>5
  <2> QED
    BY <1>7, <2>1
<1>11. Near(x, n, d)
  <2>1. CASE g = 1
    BY <1>4, <1>9, <2>1 DEF Near
  <2>2. CASE Pow2[Precision - 1] * g <= a
    <3>1. PICK h \in Nat \ {0} : h = Pow2[Precision - 1] /\ Pow2[Precision] = 2 * h
      BY DoubleFacts
    <3>2. PICK e \in Nat : e = Size(x * d - n)
      BY <1>9
    <3>3. h * c <= Size(n)
      <4>1. h * c = d * (h * g) /\ h * g \in Nat
        BY <1>4, SMT
      <4>2. d * (h * g) <= d * a /\ d * (h * g) \in Nat /\ d * a \in Nat
        BY <2>2, <3>1, <4>1, SMT
      <4> QED
        BY <1>1, <1>2, <4>1, <4>2
    <3>4. (2 * h) * e <= h * c
      <4>1. (2 * h) * e = h * (2 * e)
        BY SMT
      <4>2. h * (2 * e) <= h * c
        BY <1>9, <3>2, SMT
      <4> QED
        BY <4>1, <4>2
    <3>5. (2 * h) * e \in Int /\ h * c \in Int
      BY SMT
    <3> QED
      BY <1>1, <3>1, <3>2, <3>3, <3>4, <3>5 DEF Near
  <2> QED
    BY <1>3, <2>1, <2>2
<1> QED
  BY <1>6, <1>7, <1>10, <1>11

\* A sum is exact or keeps all digits.
LEMMA SumRounds ==
  ASSUME NEW n \in Int
  PROVE  Pow2[Precision] * Size(Nearest(n, 1) - n) <= Size(n)
<1>1. PICK x \in Int : x = Nearest(n, 1) /\ Near(x, n, 1)
  BY NearestFacts
<1>2. x * 1 = x /\ Size(x - n) \in Nat /\ Size(n) \in Nat /\ Pow2[Precision] \in Nat
  BY DoubleFacts DEF Size
<1>3. CASE 2 * Size(x - n) <= 1
  <2>1. Size(x - n) = 0
    BY <1>2, <1>3
  <2> QED
    BY <1>1, <1>2, <2>1
<1> QED
  BY <1>1, <1>2, <1>3 DEF Near

-----------------------------------------------------------------------------
(* The way of a number into a field and back.                              *)

\* x for y, with an error of z / K at most, and with one of v / 2 or z / K.
Off(K, x, y, z) == K * Size(x - y) <= z
OffHalf(K, x, y, v, z) == 2 * Size(x - y) <= v \/ K * Size(x - y) <= z
Bounded(K, x, y, z) == K * (x - y) <= z /\ K * (y - x) <= z /\ 32 * (x - y) <= z
BoundedHalf(K, x, y, v, z, w) ==
  /\ 2 * (K * (x - y)) <= w + 2 * z /\ 2 * (K * (y - x)) <= w + 2 * z
  /\ 64 * (x - y) <= w + 2 * z
  /\ 2 * (x - y) <= v \/ K * (x - y) <= z

\* An error of a number, in units of another one.
LEMMA Scaled ==
  ASSUME NEW K \in Nat, K >= 32, NEW x \in Int, NEW y \in Int, NEW u \in Nat, NEW z \in Nat,
         Off(K, x, y, z)
  PROVE  Bounded(K, x * u, y * u, z * u)
<1>1. PICK e \in Nat : e = Size(x - y)
  <2>1. Size(x - y) \in Nat
    BY DEF Size
  <2> QED
    BY <2>1
<1>2. PICK p \in Nat : p = e * u
  BY SMT
<1>3. x * u - y * u \in Int /\ x * u - y * u <= p /\ y * u - x * u <= p
  <2>1. x - y <= e /\ y - x <= e
    BY <1>1 DEF Size
  <2>2. (x - y) * u <= e * u /\ (y - x) * u <= e * u
    BY <2>1, SMT
  <2>3. (x - y) * u = x * u - y * u /\ (y - x) * u = y * u - x * u
    BY SMT
  <2> QED
    BY <1>2, <2>2, <2>3
<1>4. K * p <= z * u
  <2>1. K * p = (K * e) * u
    BY <1>2, SMT
  <2>2. K * e <= z
    BY <1>1 DEF Off
  <2>3. (K * e) * u <= z * u
    BY <2>2, SMT
  <2> QED
    BY <2>1, <2>3
<1>5. PICK a \in Int : a = x * u - y * u
  BY <1>3
<1>6. y * u - x * u = 0 - a
  <2>1. x * u \in Int /\ y * u \in Int
    OBVIOUS
  <2> QED
    BY <1>5, <2>1
<1>7. K * a <= K * p /\ K * (0 - a) <= K * p /\ 32 * a <= K * p
  <2>1. a <= p /\ 0 - a <= p
    BY <1>3, <1>5, <1>6
  <2>2. 32 * p <= K * p
    BY SMT
  <2>3. K * a <= K * p /\ K * (0 - a) <= K * p
    BY <2>1, SMT
  <2> QED
    BY <2>1, <2>2, <2>3
<1>8. K * a \in Int /\ K * (0 - a) \in Int /\ K * p \in Int /\ z * u \in Int
  BY SMT
<1> QED
  BY <1>4, <1>5, <1>6, <1>7, <1>8 DEF Bounded

LEMMA ScaledHalf ==
  ASSUME NEW K \in Nat, K >= 32, NEW x \in Int, NEW y \in Int, NEW v \in Nat, NEW w \in Nat, w >= K, NEW z \in Nat,
         OffHalf(K, x, y, v, z)
  PROVE  BoundedHalf(K, x, y, v, z, v * w)
<1>1. PICK e \in Nat : e = Size(x - y) /\ x - y <= e /\ y - x <= e
  <2>1. Size(x - y) \in Nat /\ x - y <= Size(x - y) /\ y - x <= Size(x - y)
    BY DEF Size
  <2> QED
    BY <2>1
<1>2. v * w \in Nat /\ K * e \in Nat
  BY SMT
<1>3. 2 * (K * e) <= v * w + 2 * z
  <2>1. CASE 2 * e <= v
    <3>1. 2 * (K * e) = K * (2 * e) /\ K * (2 * e) <= K * v /\ K * v <= v * w
      BY <2>1, SMT
    <3>2. K * (2 * e) \in Int /\ K * v \in Int
      BY SMT
    <3> QED
      BY <1>2, <3>1, <3>2
  <2>2. CASE K * e <= z
    BY <1>2, <2>2
  <2> QED
    BY <1>1, <2>1, <2>2 DEF OffHalf
<1>4. K * (x - y) <= K * e /\ K * (y - x) <= K * e /\ 32 * e <= K * e
  BY <1>1, SMT
<1>5. K * (x - y) \in Int /\ K * (y - x) \in Int
  BY SMT
<1> QED
  BY <1>1, <1>2, <1>3, <1>4, <1>5 DEF OffHalf, BoundedHalf

LEMMA Telescope ==
  ASSUME NEW K \in Int, NEW a \in Int, NEW b \in Int, NEW c \in Int, NEW d \in Int, NEW e \in Int, NEW f \in Int,
         NEW g \in Int
  PROVE  K * (g - a) = K * (b - a) + K * (c - b) + K * (d - c) + K * (e - d) + K * (f - e) + K * (g - f)
  BY SMT

\* One side of an inequality by a positive number.
LEMMA Cancel ==
  ASSUME NEW u \in Nat \ {0}, NEW x \in Int, NEW y \in Int
  PROVE  /\ x * u <= y * u => x <= y
         /\ x * u < y * u => x < y
<1>1. ~ (x <= y) => y * u < x * u
  BY SMT
<1>2. ~ (x < y) => y * u <= x * u
  BY SMT
<1>3. x * u \in Int /\ y * u \in Int
  BY SMT
<1> QED
  BY <1>1, <1>2, <1>3

(***************************************************************************)
(* The five roundings between a number a + o and what is read for it: of   *)
(* the difference to the offset o, of its quotient by the scale s, of the  *)
(* code n as a double, of its product with s, and of the sum with o.       *)
(***************************************************************************)
RoundsTo(K, U, s, a, o, d, q, n, c, t, r) ==
  /\ Off(K, d, a, a)
  /\ OffHalf(K, q * s, d * U, s, d * U)
  /\ n * U <= q /\ q < n * U + U
  /\ Off(K, c, n * U, n * U)
  /\ OffHalf(K, t * U, c * s, U, c * s)
  /\ Off(K, r, t + o, Size(t + o))

LEMMA RoundTrip ==
  ASSUME NEW K \in Nat, K >= 32, NEW U \in Nat, U >= K, NEW s \in Nat, s >= K,
         NEW a \in Nat, NEW o \in Int, NEW d \in Nat, NEW q \in Nat, NEW n \in Nat, NEW c \in Nat, NEW t \in Nat,
         NEW r \in Int, RoundsTo(K, U, s, a, o, d, q, n, c, t, r)
  PROVE  /\ K * (r - (a + o)) <= 6 * a + 2 * s + Size(o)
         /\ K * ((a + o) - r - s) < 6 * a + 2 * s + Size(o)
         /\ \A m \in Nat : a <= s * (m - 1) /\ 4 * m <= K => n < m
<1>1. PICK x1 \in Nat, x2 \in Nat, x3 \in Nat, x4 \in Nat, x5 \in Nat, x6 \in Nat, T \in Nat, N \in Nat :
        x1 = a * U /\ x2 = d * U /\ x3 = q * s /\ x4 = (n * U) * s /\ x5 = c * s /\ x6 = t * U /\ T = s * U
        /\ N = n * U
  <2>1. /\ a * U \in Nat /\ d * U \in Nat /\ q * s \in Nat /\ (n * U) * s \in Nat /\ c * s \in Nat /\ t * U \in Nat
        /\ s * U \in Nat /\ n * U \in Nat
    BY SMT
  <2> QED
    BY <2>1
<1>2. PICK O \in Nat, o1 \in Int, z \in Int : O = Size(o) * U /\ o1 = o * U /\ z = r * U
  <2>1. Size(o) \in Nat
    BY DEF Size
  <2>2. Size(o) * U \in Nat /\ o * U \in Int /\ r * U \in Int
    BY <2>1, SMT
  <2> QED
    BY <2>2
<1> a \in Int /\ d \in Int /\ c \in Int /\ N \in Int /\ x2 \in Int /\ x3 \in Int /\ x5 \in Int /\ x6 \in Int
  OBVIOUS
<1>3. K * (x2 - x1) <= x1 /\ K * (x1 - x2) <= x1 /\ 32 * (x2 - x1) <= x1
  <2>1. Off(K, d, a, a)
    BY DEF RoundsTo
  <2>2. Bounded(K, d * U, a * U, a * U)
    BY <2>1, Scaled, Zenon
  <2> QED
    BY <1>1, <2>2 DEF Bounded
<1>4. /\ 2 * (K * (x3 - x2)) <= T + 2 * x2 /\ 2 * (K * (x2 - x3)) <= T + 2 * x2 /\ 64 * (x3 - x2) <= T + 2 * x2
      /\ 2 * (x3 - x2) <= s \/ K * (x3 - x2) <= x2
  <2>1. OffHalf(K, x3, x2, s, x2)
    BY <1>1 DEF RoundsTo
  <2>2. BoundedHalf(K, x3, x2, s, x2, s * U)
    BY <2>1, ScaledHalf, Zenon
  <2> QED
    BY <1>1, <2>2 DEF BoundedHalf
<1>5. x4 <= x3 /\ x3 + s <= x4 + T
  <2>1. N <= q /\ q + 1 <= N + U
    BY <1>1 DEF RoundsTo
  <2>2. N * s <= q * s /\ (q + 1) * s <= (N + U) * s
    BY <2>1, SMT
  <2>3. (q + 1) * s = x3 + s /\ (N + U) * s = x4 + T
    BY <1>1, SMT
  <2> QED
    BY <1>1, <2>2, <2>3
<1>6. K * (x5 - x4) <= x4 /\ K * (x4 - x5) <= x4 /\ 32 * (x5 - x4) <= x4
  <2>1. Off(K, c, N, N)
    BY <1>1 DEF RoundsTo
  <2>2. Bounded(K, c * s, N * s, N * s)
    BY <2>1, Scaled, Zenon
  <2> QED
    BY <1>1, <2>2 DEF Bounded
<1>7. 2 * (K * (x6 - x5)) <= T + 2 * x5 /\ 2 * (K * (x5 - x6)) <= T + 2 * x5 /\ 64 * (x6 - x5) <= T + 2 * x5
  <2>1. OffHalf(K, x6, x5, U, x5)
    BY <1>1 DEF RoundsTo
  <2>2. BoundedHalf(K, x6, x5, U, x5, U * s)
    BY <2>1, ScaledHalf, Zenon
  <2>3. T = U * s
    BY <1>1, SMT
  <2> QED
    BY <2>2, <2>3 DEF BoundedHalf
<1>8. K * (z - (x6 + o1)) <= x6 + O /\ K * ((x6 + o1) - z) <= x6 + O
  <2>1. PICK y \in Int, w \in Nat : y = t + o /\ w = Size(t + o)
    <3>1. Size(t + o) \in Nat
      BY DEF Size
    <3> QED
      BY <3>1
  <2>2. K * (r * U - y * U) <= w * U /\ K * (y * U - r * U) <= w * U
    <3>1. Off(K, r, y, w)
      BY <2>1 DEF RoundsTo
    <3>2. Bounded(K, r * U, y * U, w * U)
      BY <3>1, Scaled
    <3> QED
      BY <3>2 DEF Bounded
  <2>3. y * U = x6 + o1
    BY <1>1, <1>2, <2>1, SMT
  <2>4. w * U <= x6 + O
    <3>1. PICK v \in Nat : v = Size(o) /\ w <= t + v
      <4>1. Size(o) \in Nat /\ Size(t + o) <= t + Size(o)
        BY DEF Size
      <4> QED
        BY <2>1, <4>1
    <3>2. w * U <= (t + v) * U /\ (t + v) * U = t * U + v * U
      BY <3>1, SMT
    <3> QED
      BY <1>1, <1>2, <3>1, <3>2
  <2>5. w * U \in Int /\ K * (z - (x6 + o1)) \in Int /\ K * ((x6 + o1) - z) \in Int
    BY SMT
  <2> QED
    BY <1>2, <2>2, <2>3, <2>4, <2>5
\* The sum of the six differences.
<1>9. PICK e1 \in Int, e2 \in Int, e3 \in Int, e4 \in Int, e5 \in Int, e6 \in Int, e \in Int :
        /\ e1 = K * (x2 - x1) /\ e2 = K * (x3 - x2) /\ e3 = K * (x4 - x3) /\ e4 = K * (x5 - x4)
        /\ e5 = K * (x6 - x5) /\ e6 = K * (z - (x6 + o1)) /\ e = e1 + e2 + e3 + e4 + e5 + e6
        /\ e = K * (z - (x1 + o1))
  <2>1. /\ K * (x2 - x1) \in Int /\ K * (x3 - x2) \in Int /\ K * (x4 - x3) \in Int /\ K * (x5 - x4) \in Int
        /\ K * (x6 - x5) \in Int /\ K * (z - (x6 + o1)) \in Int
    BY SMT
  <2>2. PICK y \in Int : y = z - o1 /\ y - x6 = z - (x6 + o1) /\ y - x1 = z - (x1 + o1)
    OBVIOUS
  <2>3. K * (y - x1) = K * (x2 - x1) + K * (x3 - x2) + K * (x4 - x3) + K * (x5 - x4) + K * (x6 - x5) + K * (y - x6)
    BY Telescope
  <2> QED
    BY <2>1, <2>2, <2>3
<1>10. PICK kt \in Int, ks \in Nat : kt = K * T /\ ks = K * s /\ e3 <= 0 /\ 0 - e3 <= kt - ks /\ ks > 0
  <2>1. K * T \in Int /\ K * s \in Nat /\ K * s > 0
    BY SMT
  <2>2. x4 - x3 <= 0 /\ x3 - x4 <= T - s
    BY <1>5
  <2>3. K * (x4 - x3) <= K * 0 /\ K * (x3 - x4) <= K * (T - s)
    BY <2>2, SMT
  <2>4. K * (x3 - x4) = 0 - K * (x4 - x3) /\ K * (T - s) = K * T - K * s /\ K * 0 = 0
    BY SMT
  <2> QED
    BY <1>9, <2>1, <2>3, <2>4
<1>11. /\ e1 <= x1 /\ 0 - e1 <= x1 /\ 2 * e2 <= T + 2 * x2 /\ 0 - 2 * e2 <= T + 2 * x2
       /\ e4 <= x4 /\ 0 - e4 <= x4 /\ 2 * e5 <= T + 2 * x5 /\ 0 - 2 * e5 <= T + 2 * x5
       /\ e6 <= x6 + O /\ 0 - e6 <= x6 + O
  <2>1. /\ K * (x1 - x2) = 0 - K * (x2 - x1) /\ K * (x2 - x3) = 0 - K * (x3 - x2)
        /\ K * (x4 - x5) = 0 - K * (x5 - x4) /\ K * (x5 - x6) = 0 - K * (x6 - x5)
    BY SMT
  <2>2. K * ((x6 + o1) - z) = 0 - K * (z - (x6 + o1))
    BY SMT
  <2> QED
    BY <1>3, <1>4, <1>6, <1>7, <1>8, <1>9, <2>1, <2>2
<1>12. e <= 6 * x1 + 2 * T + O /\ 0 - e < kt + 6 * x1 + 2 * T + O
  <2>1. /\ x1 + T + x2 + x4 + x5 + x6 + O <= 6 * x1 + 2 * T + O
    BY <1>3, <1>4, <1>5, <1>6, <1>7
  <2>2. e <= x1 + T + x2 + x4 + x5 + x6 + O
    BY <1>9, <1>10, <1>11
  <2>3. 0 - e < kt + (x1 + T + x2 + x4 + x5 + x6 + O)
    BY <1>9, <1>10, <1>11
  <2> QED
    BY <2>1, <2>2, <2>3
<1>13. PICK v \in Nat, b \in Int : v = Size(o) /\ b = 6 * a + 2 * s + v /\ b * U = 6 * x1 + 2 * T + O
  <2>1. PICK v \in Nat : v = Size(o)
    <3>1. Size(o) \in Nat
      BY DEF Size
    <3> QED
      BY <3>1
  <2>2. (6 * a + 2 * s + v) * U = 6 * (a * U) + 2 * (s * U) + v * U
    BY SMT
  <2>3. 6 * a + 2 * s + v \in Int
    OBVIOUS
  <2> QED
    BY <1>1, <1>2, <2>1, <2>2, <2>3
<1>14. e = (K * (r - (a + o))) * U /\ 0 - e - kt = (K * ((a + o) - r - s)) * U
  <2>1. z - (x1 + o1) = (r - (a + o)) * U
    BY <1>1, <1>2, SMT
  <2>2. K * ((r - (a + o)) * U) = (K * (r - (a + o))) * U
    BY SMT
  <2>3. (K * ((a + o) - r - s)) * U = 0 - K * ((r - (a + o)) * U) - K * (s * U)
    BY SMT
  <2> QED
    BY <1>1, <1>9, <1>10, <2>1, <2>2, <2>3
<1>15. PICK g \in Int, h \in Int : g = K * (r - (a + o)) /\ h = K * ((a + o) - r - s)
  <2>1. K * (r - (a + o)) \in Int /\ K * ((a + o) - r - s) \in Int
    BY SMT
  <2> QED
    BY <2>1
<1>16. g <= b /\ h < b
  <2>1. U \in Nat \ {0}
    OBVIOUS
  <2>2. g * U <= b * U /\ h * U < b * U
    <3>1. b * U \in Int /\ g * U = e /\ h * U = 0 - e - kt
      BY <1>13, <1>14, <1>15
    <3> QED
      BY <1>12, <1>13, <3>1
  <2> QED
    BY <2>1, <2>2, Cancel
<1>17. ASSUME NEW m \in Nat, a <= s * (m - 1), 4 * m <= K PROVE n < m
  <2>1. PICK M \in Int, L \in Int : M = T * (m - 1) /\ L = K * T
    <3>1. T * (m - 1) \in Int /\ K * T \in Int
      BY SMT
    <3> QED
      BY <3>1
  <2>2. x1 <= M /\ 4 * M <= L
    <3>1. a * U <= (s * (m - 1)) * U
      BY <1>17, SMT
    <3>2. (s * (m - 1)) * U = T * (m - 1)
      BY <1>1, SMT
    <3>3. 4 * (m - 1) <= K
      BY <1>17
    <3>4. T * (4 * (m - 1)) <= T * K /\ T * (4 * (m - 1)) = 4 * (T * (m - 1)) /\ T * K = K * T
      BY <3>3, SMT
    <3> QED
      BY <1>1, <2>1, <3>1, <3>2, <3>4
  <2>3. 4 * (x2 - x1) <= T
    <3>1. K * (4 * (x2 - x1)) <= K * T
      <4>1. K * (4 * (x2 - x1)) = 4 * (K * (x2 - x1)) /\ K * (x2 - x1) \in Int
        BY SMT
      <4> QED
        BY <1>3, <2>1, <2>2, <4>1
    <3>2. ~ (T < 4 * (x2 - x1))
      <4> SUFFICES ASSUME T < 4 * (x2 - x1) PROVE FALSE
        OBVIOUS
      <4>1. K * T < K * (4 * (x2 - x1))
        BY SMT
      <4> QED
        BY <2>1, <3>1, <4>1
    <3> QED
      BY <3>2
  <2>4. 2 * (x3 - x2) <= T
    <3>1. CASE 2 * (x3 - x2) <= s
      <4>1. s <= s * U
        BY SMT
      <4> QED
        BY <1>1, <3>1, <4>1
    <3>2. CASE K * (x3 - x2) <= x2
      <4>1. 2 * x2 <= L
        <5>1. 32 * T <= K * T
          BY SMT
        <5> QED
          BY <2>1, <2>2, <2>3, <5>1
      <4>2. ~ (T < 2 * (x3 - x2))
        <5> SUFFICES ASSUME T < 2 * (x3 - x2) PROVE FALSE
          OBVIOUS
        <5>1. K * T < K * (2 * (x3 - x2)) /\ K * (2 * (x3 - x2)) = 2 * (K * (x3 - x2)) /\ K * (x3 - x2) \in Int
          BY SMT
        <5> QED
          BY <2>1, <3>2, <4>1, <5>1
      <4> QED
        BY <4>2
    <3> QED
      BY <1>4, <3>1, <3>2
  <2>5. x4 < M + T
    <3>1. T > 0
      BY <1>1, SMT
    <3> QED
      BY <1>5, <2>2, <2>3, <2>4, <3>1
  <2>6. x4 = n * T /\ M + T = m * T
    BY <1>1, <2>1, SMT
  <2>7. T \in Nat \ {0}
    BY <1>1, SMT
  <2> QED
    BY <2>5, <2>6, <2>7, Cancel
<1> QED
  BY <1>13, <1>15, <1>16, <1>17

-----------------------------------------------------------------------------
(* Signals.                                                                *)

\* The field of a signal in a payload: where it starts, how many values it has, which it holds.
First(k)    == Pow2[Place(k)]
Width(k)    == Pow2[Desc[k].length]
Field(p, k) == (p \div First(k)) % Width(k)

LEMMA SignalFacts ==
  ASSUME NEW k \in DOMAIN Desc
  PROVE  /\ Desc[k].length \in Nat \ {0} /\ Desc[k].length <= PayloadBits
         /\ Desc[k].offset \in Int /\ Desc[k].scale \in Nat \ {0} /\ Desc[k].max \in Int
         /\ Desc[k].slot \in BOOLEAN
         /\ Place(k) \in Nat
         /\ First(k) \in Nat \ {0} /\ Width(k) \in Nat \ {0} /\ Pow2[PayloadBits] \in Nat \ {0}
<1>1. Desc[k] \in Signal
  BY DescAssumption
<1>2. /\ Desc[k].length \in Nat \ {0} /\ Desc[k].offset \in Int /\ Desc[k].scale \in Nat \ {0}
      /\ Desc[k].max \in Int /\ Desc[k].slot \in BOOLEAN
  BY <1>1 DEF Signal
<1>3. Place(k) \in Nat /\ Place(k) + Desc[k].length <= PayloadBits
  BY SignalsApart
<1>4. PayloadBits \in 1 .. WordBits /\ WordBits \in Nat
  BY PayloadAssumption DEF WordBits
<1>5. Place(k) \in 0 .. WordBits /\ Desc[k].length \in 0 .. WordBits /\ PayloadBits \in 0 .. WordBits
  BY <1>2, <1>3, <1>4
<1> QED
  BY <1>2, <1>3, <1>4, <1>5, Powers DEF First, Width

\* The field of a later signal starts a whole number of fields behind that of an earlier one.
LEMMA FieldsApart ==
  ASSUME NEW j \in DOMAIN Desc, NEW k \in DOMAIN Desc, j < k
  PROVE  \E d \in Nat \ {0} : First(k) = (First(j) * Width(j)) * d
<1>1. Place(j) + Desc[j].length <= Place(k) /\ Place(k) + Desc[k].length <= PayloadBits
  BY SignalsApart
<1>2. PICK a \in Nat, b \in Nat, c \in Nat :
        a = Place(j) /\ b = Desc[j].length /\ c = Place(k) - (Place(j) + Desc[j].length)
  BY <1>1, SignalFacts
<1>3. PayloadBits \in 1 .. WordBits /\ WordBits \in Nat /\ Desc[k].length \in Nat
  BY PayloadAssumption, SignalFacts DEF WordBits
<1>4. Place(k) = (a + b) + c /\ (a + b) + c <= WordBits /\ a + b <= WordBits /\ a + b \in Nat /\ c \in 0 .. WordBits
  BY <1>1, <1>2, <1>3, SignalFacts
<1>5. Pow2[(a + b) + c] = Pow2[a + b] * Pow2[c] /\ Pow2[a + b] = Pow2[a] * Pow2[b]
  BY <1>4, PowersMultiply
<1>6. Pow2[c] \in Nat \ {0}
  BY <1>4, Powers
<1> QED
  BY <1>2, <1>4, <1>5, <1>6 DEF First, Width

(***************************************************************************)
(* signal_set writes the bits of its signal and no others.                 *)
(***************************************************************************)
LEMMA OtherFields ==
  ASSUME NEW j \in DOMAIN Desc, NEW k \in DOMAIN Desc, j # k, NEW p \in Nat, NEW e \in 0 .. Width(k) - 1,
         NEW q, q = (p - Field(p, k) * First(k)) + e * First(k)
  PROVE  Field(q, j) = Field(p, j)
<1>1. PICK s \in Nat \ {0}, w \in Nat \ {0}, f \in Nat \ {0}, g \in Nat \ {0} :
        s = First(k) /\ w = Width(k) /\ f = First(j) /\ g = Width(j)
  BY SignalFacts
<1>2. Overwritten(q, p, s, w, e)
  BY <1>1 DEF Field, Overwritten
<1>3. q \in Nat /\ q % s = p % s /\ q \div (s * w) = p \div (s * w)
  BY <1>2, FieldWritten
<1>4. CASE k < j
  <2>1. PICK d \in Nat \ {0} : f = (s * w) * d
    BY <1>1, <1>4, FieldsApart
  <2>2. PICK b \in Nat \ {0} : b = s * w
    BY SMT
  <2>3. q \div (b * d) = (q \div b) \div d /\ p \div (b * d) = (p \div b) \div d
    BY <1>3, FieldBehind, SMT, ZenonT(40)
  <2>4. q \div f = p \div f
    BY <1>3, <2>1, <2>2, <2>3
  <2> QED
    BY <1>1, <2>4 DEF Field
<1>5. CASE j < k
  <2>1. PICK d : FartherOn(s, f, g, d)
    BY <1>1, <1>5, FieldsApart DEF FartherOn
  <2>2. (q \div f) % g = ((q % s) \div f) % g
    BY <1>3, <2>1, FieldBefore
  <2>3. (p \div f) % g = ((p % s) \div f) % g
    BY <2>1, FieldBefore
  <2>4. (q \div f) % g = (p \div f) % g
    BY <1>3, <2>2, <2>3
  <2> QED
    BY <1>1, <2>4 DEF Field
<1>6. j \in Nat /\ k \in Nat
  BY DescAssumption
<1> QED
  BY <1>4, <1>5, <1>6

\* A signal of all bits of the payload is alone.
LEMMA LongAlone ==
  ASSUME NEW j \in DOMAIN Desc, NEW k \in DOMAIN Desc, k \notin Short
  PROVE  j = k
<1>1. Desc[k].length = PayloadBits /\ PayloadBits \in Nat
  BY SignalFacts, PayloadAssumption DEF Short
<1>2. Desc[j].length \in Nat \ {0} /\ Place(k) \in Nat /\ Place(j) \in Nat
  BY SignalFacts
<1>3. Place(k) + Desc[k].length <= PayloadBits /\ Place(j) + Desc[j].length <= PayloadBits
  BY SignalsApart
<1>4. j < k => Place(j) + Desc[j].length <= Place(k)
  BY SignalsApart
<1>5. k < j => Place(k) + Desc[k].length <= Place(j)
  BY SignalsApart
<1>6. j \in Nat /\ k \in Nat
  BY DescAssumption
<1>7. ~ (j < k)
  BY <1>1, <1>2, <1>3, <1>4
<1>8. ~ (k < j)
  BY <1>1, <1>2, <1>3, <1>5
<1> QED
  BY <1>6, <1>7, <1>8

\* The number that a code stands for.
Decoded(k, n) == Nearest(Nearest(Nearest(n * Unit, 1) * Desc[k].scale, Unit) + Desc[k].offset, 1)

\* What a signal reads as is a matter of its field.
LEMMA ReadsField ==
  ASSUME NEW k \in Short, NEW p, NEW q, Field(p, k) = Field(q, k), NEW v, ReadsAs(p, k, v)
  PROVE  ReadsAs(q, k, v)
<1>1. k \in DOMAIN Desc /\ ValMax(Desc[k]) = {Width(k) - 1}
  BY DEF Short, ValMax, Width
<1>2. Width(k) \in Nat
  BY <1>1, SignalFacts
<1>3. (Width(k) - 1) + 1 = Width(k)
  BY <1>2
<1>4. \A x : SignalGet(x, Desc, k, Width(k) - 1) =
               IF ~ Desc[k].slot THEN Field(x, k)
               ELSE IF Field(x, k) = Width(k) - 1 THEN NaN ELSE Decoded(k, Field(x, k))
  BY <1>3 DEF SignalGet, Masked, Field, First, Place, Decoded
<1>5. SignalGet(p, Desc, k, Width(k) - 1) = SignalGet(q, Desc, k, Width(k) - 1)
  BY <1>4
<1> QED
  BY <1>1, <1>5 DEF ReadsAs

\* What an application may give to a signal.
MayGive(k, v) == IF Desc[k].slot THEN v = NaN \/ v \in Int ELSE v \in Nat

\* What the code divides, and cuts off.
LEMMA QuotientFacts ==
  ASSUME NEW k \in DOMAIN Desc, NEW v \in Int
  PROVE  /\ Quotient(Desc[k], v) \in Int
         /\ v >= Desc[k].offset => Quotient(Desc[k], v) \in Nat
<1> DEFINE d == Nearest(v - Desc[k].offset, 1)
           q == Nearest(d * Unit, Desc[k].scale)
<1>1. v - Desc[k].offset \in Int /\ Unit \in Nat /\ Desc[k].offset \in Int /\ Desc[k].scale \in Nat \ {0}
  BY SignalFacts, DoubleFacts
<1>2. d \in Int /\ (v - Desc[k].offset >= 0 => d \in Nat)
  BY <1>1, NearestFacts
<1> HIDE DEF d
<1>3. d * Unit \in Int /\ (d \in Nat => d * Unit >= 0)
  BY <1>1, <1>2
<1>4. q \in Int /\ (d \in Nat => q \in Nat)
  BY <1>1, <1>3, NearestFacts
<1>5. Quotient(Desc[k], v) = q
  BY DEF Quotient, d
<1> HIDE DEF q
<1> QED
  BY <1>1, <1>2, <1>4, <1>5

\* An encoding fits into its field.
LEMMA EncodingFits ==
  ASSUME NEW k \in DOMAIN Desc, NEW v, MayGive(k, v), NEW m \in Nat, NEW e \in Encodings(Desc[k], v, m)
  PROVE  e \in 0 .. m
<1>1. Desc[k].slot \in BOOLEAN /\ Unit \in Nat \ {0}
  BY SignalFacts, DoubleFacts
<1>2. \A x \in Nat : Masked(x, m) \in 0 .. m
  BY Divided DEF Masked
<1>3. CASE ~ Desc[k].slot
  <2>1. v \in Nat /\ e = Masked(v, m)
    BY <1>3 DEF MayGive, Encodings
  <2> QED
    BY <1>2, <2>1
<1>4. CASE Desc[k].slot /\ v # NaN /\ ~ (v > Desc[k].max)
  <2>1. PICK q \in Int : q = Quotient(Desc[k], v)
    BY <1>4, QuotientFacts DEF MayGive
  <2>2. e \in IF q >= 0 THEN {Masked(q \div Unit, m)} ELSE IF q > 0 - Unit THEN {0} ELSE 0 .. m
    BY <1>4, <2>1 DEF Encodings
  <2>3. CASE q >= 0
    <3>1. q \div Unit \in Nat
      BY <1>1, <2>3, Divided
    <3> QED
      BY <1>2, <2>2, <2>3, <3>1
  <2>4. CASE ~ (q >= 0)
    BY <2>2, <2>4
  <2> QED
    BY <2>3, <2>4
<1>5. CASE Desc[k].slot /\ (v = NaN \/ v > Desc[k].max)
  BY <1>5 DEF Encodings
<1> QED
  BY <1>1, <1>3, <1>4, <1>5

\* A field is shorter than the digits of a double by two bits.
LEMMA FieldIsShort ==
  ASSUME NEW k \in SlotSignals
  PROVE  4 * (Width(k) - 1) <= Pow2[Precision]
<1>1. /\ Desc[k].length \in Nat \ {0} /\ Width(k) \in Nat \ {0} /\ Desc[k].length + 2 <= Precision
      /\ Precision \in 5 .. 64 /\ WordBits = 64
  BY SignalFacts, DescAssumption, DoubleAssumption DEF SlotSignals, WordBits
<1>2. PICK l \in Nat, i \in Nat : l = Desc[k].length /\ i = Precision - l /\ l + i = Precision /\ i >= 2 /\ i <= WordBits
  <2>1. Desc[k].length \in Nat /\ Precision - Desc[k].length \in Nat
    BY <1>1
  <2> QED
    BY <1>1, <2>1
<1>3. PICK j \in Nat : i = 2 + j
  <2>1. i - 2 \in Nat /\ i = 2 + (i - 2)
    BY <1>2
  <2> QED
    BY <2>1
<1>4. Pow2[l + i] = Pow2[l] * Pow2[i] /\ Pow2[2 + j] = Pow2[2] * Pow2[j] /\ Pow2[j] \in Nat \ {0}
  <2>1. Pow2[l + i] = Pow2[l] * Pow2[i]
    <3>1. l + i <= WordBits
      BY <1>1, <1>2
    <3> QED
      BY <3>1, PowersMultiply
  <2>2. 2 + j <= WordBits /\ j \in 0 .. WordBits
    BY <1>1, <1>2, <1>3
  <2>3. Pow2[2 + j] = Pow2[2] * Pow2[j]
    BY <2>2, PowersMultiply
  <2> QED
    BY <2>1, <2>2, <2>3, Powers
<1>5. Pow2[2] = 4
  <2>1. Pow2[1] = 2 * Pow2[1 - 1] /\ Pow2[2] = 2 * Pow2[2 - 1]
    BY Powers DEF WordBits
  <2> QED
    BY <2>1, Powers
<1>6. PICK w \in Nat \ {0}, y \in Nat \ {0} : w = Width(k) /\ y = Pow2[j] /\ Pow2[Precision] = w * (4 * y)
  BY <1>1, <1>2, <1>3, <1>4, <1>5 DEF Width
<1>7. 4 * w <= w * (4 * y)
  BY SMT
<1>8. w * (4 * y) \in Int
  BY SMT
<1> QED
  BY <1>6, <1>7, <1>8

\* The code of a number and what it stands for are five roundings apart.
LEMMA CodeRounds ==
  ASSUME NEW k \in SlotSignals, NEW v \in Int, v >= Desc[k].offset, NEW n, n = Quotient(Desc[k], v) \div Unit
  PROVE  /\ n \in Nat /\ Decoded(k, n) \in Int
         /\ \E d \in Nat, q \in Nat, c \in Nat, t \in Nat :
              RoundsTo(Pow2[Precision], Unit, Desc[k].scale, v - Desc[k].offset, Desc[k].offset,
                       d, q, n, c, t, Decoded(k, n))
<1>1. PICK U \in Nat \ {0}, K \in Nat, s \in Nat \ {0}, o \in Int :
        U = Unit /\ K = Pow2[Precision] /\ s = Desc[k].scale /\ o = Desc[k].offset
  BY SignalFacts, DoubleFacts DEF SlotSignals
<1>2. PICK a \in Nat : a = v - o
  BY <1>1
<1>3. PICK d \in Nat : d = Nearest(a, 1) /\ Off(K, d, a, a)
  <2>1. Nearest(a, 1) \in Nat /\ K * Size(Nearest(a, 1) - a) <= Size(a)
    BY <1>1, NearestFacts, SumRounds
  <2>2. Size(a) = a
    BY DEF Size
  <2> QED
    BY <2>1, <2>2 DEF Off
<1>4. PICK q \in Nat : q = Nearest(d * U, s) /\ OffHalf(K, q * s, d * U, s, d * U)
  <2>1. PICK y \in Nat : y = d * U
    <3>1. d * U \in Nat
      BY SMT
    <3> QED
      BY <3>1
  <2>2. Nearest(y, s) \in Nat /\ Near(Nearest(y, s), y, s) /\ Size(y) = y
    BY NearestFacts DEF Size
  <2> QED
    BY <1>1, <2>1, <2>2 DEF Near, OffHalf
<1>5. Quotient(Desc[k], v) = q
  BY <1>1, <1>2, <1>3, <1>4 DEF Quotient
<1>6. n = q \div U /\ n \in Nat /\ n * U <= q /\ q < n * U + U
  <2>1. n = q \div U
    BY <1>1, <1>5
  <2>2. q \div U \in Nat /\ q % U \in 0 .. U - 1 /\ q = U * (q \div U) + (q % U)
    BY Divided
  <2>3. n * U = U * n /\ U * n \in Nat
    BY <2>1, <2>2
  <2> QED
    BY <2>1, <2>2, <2>3
<1>7. PICK N \in Nat : N = n * U
  <2>1. n * U \in Nat
    BY <1>6
  <2> QED
    BY <2>1
<1>8. PICK c \in Nat : c = Nearest(N, 1) /\ Off(K, c, N, N)
  <2> N \in Int /\ N >= 0
    OBVIOUS
  <2>1. Nearest(N, 1) \in Nat
    BY NearestFacts
  <2>3. K * Size(Nearest(N, 1) - N) <= Size(N)
    BY <1>1, SumRounds
  <2>2. Size(N) = N
    BY DEF Size
  <2> QED
    BY <2>1, <2>2, <2>3 DEF Off
<1>9. PICK t \in Nat : t = Nearest(c * s, U) /\ OffHalf(K, t * U, c * s, U, c * s)
  <2>1. PICK y \in Nat : y = c * s
    <3>1. c * s \in Nat
      BY SMT
    <3> QED
      BY <3>1
  <2>2. Nearest(y, U) \in Nat /\ Near(Nearest(y, U), y, U) /\ Size(y) = y
    BY NearestFacts DEF Size
  <2> QED
    BY <1>1, <2>1, <2>2 DEF Near, OffHalf
<1>10. PICK r \in Int : r = Nearest(t + o, 1) /\ Off(K, r, t + o, Size(t + o))
  <2>1. PICK y \in Int : y = t + o
    OBVIOUS
  <2>2. Nearest(y, 1) \in Int
    BY NearestFacts
  <2>3. K * Size(Nearest(y, 1) - y) <= Size(y)
    BY <1>1, SumRounds
  <2> QED
    BY <2>1, <2>2, <2>3 DEF Off
<1>11. Decoded(k, n) = r
  BY <1>1, <1>7, <1>8, <1>9, <1>10 DEF Decoded
<1>12. RoundsTo(K, U, s, a, o, d, q, n, c, t, r)
  BY <1>3, <1>4, <1>6, <1>7, <1>8, <1>9, <1>10 DEF RoundsTo
<1> QED
  BY <1>1, <1>2, <1>6, <1>11, <1>12

(***************************************************************************)
(* A number up to val_max has an encoding other than the one for NaN, and  *)
(* what the code reads for it is at most a step below, but for roundings.  *)
(***************************************************************************)
LEMMA EncodingReads ==
  ASSUME NEW k \in Short, NEW v, MayGive(k, v), NEW e \in Encodings(Desc[k], v, Width(k) - 1),
         NEW q, Field(q, k) = e
  PROVE  ReadsAs(q, k, v)
<1> DEFINE m == Width(k) - 1
           r == SignalGet(q, Desc, k, m)
<1>1. k \in DOMAIN Desc /\ ValMax(Desc[k]) = {m}
  BY DEF Short, ValMax, Width
<1>2. /\ Desc[k].offset \in Int /\ Desc[k].scale \in Nat \ {0} /\ Desc[k].max \in Int
      /\ Desc[k].slot \in BOOLEAN
  BY <1>1, SignalFacts
<1>3. m \in Nat /\ m + 1 = Width(k)
  <2>1. Width(k) \in Nat \ {0}
    BY <1>1, SignalFacts
  <2> QED
    BY <2>1
<1>4. r = IF ~ Desc[k].slot THEN e ELSE IF e = m THEN NaN ELSE Decoded(k, e)
  BY <1>3 DEF SignalGet, Masked, Field, First, Place, Decoded
<1>5. e \in 0 .. m
  BY <1>1, <1>3, EncodingFits
<1>6. ReadsAs(q, k, v) <=>
        IF ~ Desc[k].slot THEN r = Masked(v, m)
        ELSE IF v = NaN THEN r = NaN
        ELSE IF v > Desc[k].max THEN r = NaN
        ELSE v >= Desc[k].offset =>
               /\ r # NaN
               /\ Pow2[Precision] * (r - v) <= Slack(Desc[k], v)
               /\ Pow2[Precision] * (v - r - Desc[k].scale) < Slack(Desc[k], v)
  BY <1>1 DEF ReadsAs, Width
<1> HIDE DEF m, r
<1>7. CASE ~ Desc[k].slot
  BY <1>4, <1>6, <1>7 DEF Encodings, m
<1>8. CASE Desc[k].slot /\ (v = NaN \/ v > Desc[k].max)
  <2>1. e = m
    BY <1>8 DEF Encodings, m
  <2> QED
    BY <1>4, <1>6, <1>8, <2>1
<1>9. CASE Desc[k].slot /\ v # NaN /\ ~ (v > Desc[k].max) /\ ~ (v >= Desc[k].offset)
  BY <1>6, <1>9
<1>10. CASE Desc[k].slot /\ v # NaN /\ ~ (v > Desc[k].max) /\ v >= Desc[k].offset
  <2>1. v \in Int /\ k \in SlotSignals
    BY <1>1, <1>10 DEF MayGive, SlotSignals
  <2>2. PICK K \in Nat, U \in Nat, s \in Nat, o \in Int :
          /\ K = Pow2[Precision] /\ U = Unit /\ s = Desc[k].scale /\ o = Desc[k].offset
          /\ K >= 32 /\ U >= K /\ s >= K
    BY <1>2, <2>1, DoubleFacts, DescAssumption
  <2>3. PICK a \in Nat : a = v - o /\ a + o = v
    <3>1. v - o \in Nat /\ (v - o) + o = v
      BY <1>10, <2>1, <2>2
    <3> QED
      BY <3>1
  <2>4. PICK n \in Nat : n = Quotient(Desc[k], v) \div Unit
    BY <1>10, <2>1, CodeRounds
  <2>5. PICK x \in Int : x = Decoded(k, n)
    BY <1>10, <2>1, <2>4, CodeRounds
  <2>6. PICK d \in Nat, p \in Nat, c \in Nat, t \in Nat : RoundsTo(K, U, s, a, o, d, p, n, c, t, x)
    BY <1>10, <2>1, <2>2, <2>3, <2>4, <2>5, CodeRounds
  <2>7. /\ K * (x - (a + o)) <= 6 * a + 2 * s + Size(o)
        /\ K * ((a + o) - x - s) < 6 * a + 2 * s + Size(o)
        /\ \A i \in Nat : a <= s * (i - 1) /\ 4 * i <= K => n < i
    BY <2>2, <2>6, RoundTrip
  <2>8. a <= s * (m - 1)
    <3>1. Desc[k].max - o <= s * (Width(k) - 2) /\ m - 1 = Width(k) - 2
      <4>1. Width(k) \in Nat
        BY <1>1, SignalFacts
      <4> QED
        BY <2>1, <2>2, <4>1, DescAssumption DEF Width, m
    <3>2. a <= Desc[k].max - o /\ s * (m - 1) \in Int
      BY <1>2, <1>3, <1>10, <2>1, <2>2, <2>3
    <3> QED
      BY <1>2, <3>1, <3>2, <2>2
  <2>9. 4 * m <= K
    BY <1>1, <1>3, <2>1, <2>2, FieldIsShort
  <2>10. n < m
    BY <1>3, <2>7, <2>8, <2>9
  <2>11. e = n
    <3>1. Quotient(Desc[k], v) \in Nat
      BY <1>1, <1>10, <2>1, QuotientFacts
    <3>2. e = Masked(n, m)
      BY <1>10, <2>4, <3>1 DEF Encodings, m
    <3>3. n = (m + 1) * 0 + n /\ n \in 0 .. (m + 1) - 1 /\ m + 1 \in Nat \ {0}
      BY <1>3, <2>10
    <3>4. ((m + 1) * 0 + n) % (m + 1) = n
      BY <3>3, DividedOnce
    <3> QED
      BY <3>2, <3>3, <3>4 DEF Masked
  <2>12. r = x /\ x # NaN
    BY <1>3, <1>4, <1>10, <2>5, <2>10, <2>11, NaNAssumption
  <2>13. Slack(Desc[k], v) = 6 * a + 2 * s + Size(o)
    BY <2>2, <2>3 DEF Slack
  <2>14. K * (r - v) <= Slack(Desc[k], v) /\ K * (v - r - s) < Slack(Desc[k], v)
    BY <2>3, <2>7, <2>12, <2>13
  <2> QED
    BY <1>6, <1>10, <2>2, <2>12, <2>14
<1> QED
  BY <1>2, <1>7, <1>8, <1>9, <1>10

(***************************************************************************)
(* signal_set on a message: the signal reads as what it was given, and all *)
(* others read as before.                                                  *)
(***************************************************************************)
LEMMA SetKeeps ==
  ASSUME NEW k \in DOMAIN Desc, NEW v, MayGive(k, v), NEW p \in Nat, NEW m \in ValMax(Desc[k]),
         NEW q \in SignalSet(p, Desc, k, v, m)
  PROVE  /\ q \in Nat
         /\ k \in Short => ReadsAs(q, k, v)
         /\ \A j \in Short : \A u : j # k /\ ReadsAs(p, j, u) => ReadsAs(q, j, u)
<1>1. m \in Nat
  BY SignalFacts DEF ValMax, Width
<1>2. PICK e \in Encodings(Desc[k], v, m) :
        q = p - Masked(p \div First(k), m) * First(k) + e * First(k)
  BY DEF SignalSet, First, Place
<1>3. e \in 0 .. m
  BY <1>1, <1>2, EncodingFits
<1>4. PICK s \in Nat \ {0}, w \in Nat \ {0} : s = First(k) /\ w = m + 1
  BY <1>1, SignalFacts
<1>5. Overwritten(q, p, s, w, e)
  BY <1>1, <1>2, <1>3, <1>4 DEF Overwritten, Masked
<1>6. q \in Nat /\ (q \div s) % w = e
  BY <1>5, FieldWritten
<1>7. CASE k \notin Short
  <2>1. \A j \in Short : j = k
    BY <1>7, LongAlone DEF Short
  <2> QED
    BY <1>6, <1>7, <2>1
<1>8. CASE k \in Short
  <2>1. m = Width(k) - 1 /\ w = Width(k)
    <3>1. m = Width(k) - 1
      BY <1>8 DEF Short, ValMax, Width
    <3>2. Width(k) \in Nat
      BY SignalFacts
    <3> QED
      BY <1>4, <3>1, <3>2
  <2>2. Field(q, k) = e
    BY <1>4, <1>6, <2>1 DEF Field
  <2>3. ReadsAs(q, k, v)
    BY <1>2, <1>8, <2>1, <2>2, EncodingReads
  <2>4. e \in 0 .. Width(k) - 1 /\ q = (p - Field(p, k) * First(k)) + e * First(k)
    BY <1>3, <1>4, <1>5, <2>1 DEF Overwritten, Field
  <2>5. ASSUME NEW j \in Short, NEW u, j # k, ReadsAs(p, j, u) PROVE ReadsAs(q, j, u)
    <3>1. Field(q, j) = Field(p, j)
      BY <2>4, <2>5, OtherFields DEF Short
    <3> QED
      BY <2>5, <3>1, ReadsField
  <2> QED
    BY <1>6, <2>3, <2>5
<1> QED
  BY <1>7, <1>8

-----------------------------------------------------------------------------
(* Identifiers.                                                            *)

LEMMA PowerValues == Pow2[1] = 2 /\ Pow2[8] = 256 /\ Pow2[25] = 33554432 /\ Pow2[29] = 536870912
<1>1. WordBits = 64
  BY DEF WordBits
<1>2. \A n \in 1 .. 64 : Pow2[n] = 2 * Pow2[n - 1]
  BY <1>1, Powers
<1>3. Pow2[1] = 2
  <2>1. Pow2[1] = 2 * Pow2[1 - 1]
    BY <1>2
  <2> QED
    BY <2>1, Powers
<1>4. \A a, b \in 1 .. 32 : Pow2[a + b] = Pow2[a] * Pow2[b]
  <2> TAKE a, b \in 1 .. 32
  <2>1. a \in Nat /\ b \in Nat /\ a + b <= WordBits
    BY <1>1
  <2> QED
    BY <2>1, PowersMultiply
<1>5. Pow2[2] = 4
  BY <1>3, <1>4, 1 + 1 = 2, SMTT(30)
<1>6. Pow2[4] = 16
  BY <1>4, <1>5, 2 + 2 = 4, SMTT(30)
<1>7. Pow2[8] = 256
  BY <1>4, <1>6, 4 + 4 = 8, SMTT(30)
<1>8. Pow2[16] = 65536
  BY <1>4, <1>7, 8 + 8 = 16, SMTT(30)
<1>9. Pow2[24] = 16777216
  BY <1>4, <1>7, <1>8, 16 + 8 = 24, SMTT(30)
<1>10. Pow2[25] = 33554432
  BY <1>3, <1>4, <1>9, 24 + 1 = 25, SMTT(30)
<1>11. Pow2[29] = 536870912
  BY <1>4, <1>6, <1>10, 25 + 4 = 29, SMTT(30)
<1> QED
  BY <1>3, <1>7, <1>10, <1>11

\* The data page and the PDU format of a group, and what is in place of its PDU specific byte.
Page(pgn)        == (pgn \div 65536) % 2
Format(pgn)      == (pgn \div 256) % 256
Specific(pgn, d) == IF Format(pgn) < 240 THEN d ELSE pgn % 256
Group(pgn, d)    == Page(pgn) * 16777216 + Format(pgn) * 65536 + Specific(pgn, d) * 256

LEMMA PgnBounds ==
  ASSUME NEW pgn \in Nat
  PROVE  Page(pgn) \in 0 .. 1 /\ Format(pgn) \in 0 .. 255 /\ pgn % 256 \in 0 .. 255
<1>1. pgn \div 65536 \in Nat /\ pgn \div 256 \in Nat
  BY SMT
<1> QED
  BY <1>1, SMT DEF Page, Format

LEMMA SpecificBounds ==
  ASSUME NEW pgn \in Nat, NEW d \in 0 .. 255
  PROVE  Specific(pgn, d) \in 0 .. 255
  BY PgnBounds DEF Specific

LEMMA DstFormat ==
  ASSUME NEW pgn
  PROVE  HasDst(pgn) <=> Format(pgn) < 240
  BY DEF HasDst, Format, EXT_PDU_FORMAT

LEMMA Create3Fields ==
  ASSUME NEW pgn \in Nat
  PROVE  Create3(pgn) = Page(pgn) * 16777216 + Format(pgn) * 65536
                          + (IF Format(pgn) < 240 THEN 0 ELSE (pgn % 256) * 256)
<1> DEFINE id == (pgn % 2097152) * 256
<1>1. DataPage(id) = Page(pgn)
  BY SMT DEF DataPage, Page
<1>2. PduFormat(id) = Format(pgn)
  BY SMT DEF PduFormat, Format
<1>3. PduSpecific(id) = pgn % 256
  BY SMT DEF PduSpecific
<1>4. Create3(pgn) = PgnNumber(id) * 256
  BY DEF Create3
<1> HIDE DEF id
<1>5. PgnNumber(id) = Page(pgn) * 65536 + Format(pgn) * 256 + (IF Format(pgn) < 240 THEN 0 ELSE pgn % 256)
  BY <1>1, <1>2, <1>3 DEF PgnNumber, ContainsDstAddr, EXT_PDU_FORMAT
<1>6. Page(pgn) \in Nat /\ Format(pgn) \in Nat /\ pgn % 256 \in Nat
  BY PgnBounds
<1> QED
  BY <1>4, <1>5, <1>6

LEMMA Create2Fields ==
  ASSUME NEW pgn \in Nat, NEW d \in 0 .. 255
  PROVE  Create2(pgn, d) = Group(pgn, d)
<1>1. Create3(pgn) = Page(pgn) * 16777216 + Format(pgn) * 65536
                       + (IF Format(pgn) < 240 THEN 0 ELSE (pgn % 256) * 256)
  BY Create3Fields
<1>2. Page(pgn) \in 0 .. 1 /\ Format(pgn) \in 0 .. 255 /\ pgn % 256 \in 0 .. 255 /\ d % 256 = d
  BY PgnBounds
<1>3. PduFormat(Create3(pgn)) = Format(pgn)
  <2> DEFINE a == Page(pgn)
             b == Format(pgn)
             x == IF Format(pgn) < 240 THEN 0 ELSE pgn % 256
  <2>1. a \in 0 .. 1 /\ b \in 0 .. 255 /\ x \in 0 .. 255 /\ Create3(pgn) = a * 16777216 + b * 65536 + x * 256
    BY <1>1, <1>2
  <2> HIDE DEF a, b, x
  <2>2. ((a * 16777216 + b * 65536 + x * 256) \div 65536) % 256 = b
    BY <2>1, SMT
  <2> QED
    BY <2>1, <2>2 DEF PduFormat, b
<1> QED
  BY <1>1, <1>2, <1>3 DEF Create2, ContainsDstAddr, EXT_PDU_FORMAT, Group, Specific

\* The priority in its place.
Lead == 402653184

\* An identifier that pgn_create makes.
Made(id, pgn, d, src) ==
  pgn \in Nat /\ d \in 0 .. 255 /\ src \in 0 .. 255 /\ id = Create(J1939_PRIORITY, pgn, d, src)

\* An identifier is made of its fields, and they can be read from it.
LEMMA CreateFields ==
  ASSUME NEW id, NEW pgn, NEW d, NEW src, Made(id, pgn, d, src)
  PROVE  /\ id = Lead + Group(pgn, d) + src /\ id \in Nat
         /\ Priority(id) = J1939_PRIORITY
         /\ DataPage(id) = Page(pgn)
         /\ PduFormat(id) = Format(pgn)
         /\ PduSpecific(id) = Specific(pgn, d)
         /\ SourceAddr(id) = src
<1>0. pgn \in Nat /\ d \in 0 .. 255 /\ src \in 0 .. 255 /\ id = Create(J1939_PRIORITY, pgn, d, src)
  BY DEF Made
<1>1. PICK a \in 0 .. 1, b \in 0 .. 255, x \in 0 .. 255 :
        a = Page(pgn) /\ b = Format(pgn) /\ x = Specific(pgn, d)
  BY <1>0, PgnBounds, SpecificBounds
<1>2. Group(pgn, d) = a * 16777216 + b * 65536 + x * 256
  BY <1>1 DEF Group
<1>3. id = 402653184 + Group(pgn, d) + src
  BY <1>0, <1>2, Create2Fields DEF Create, J1939_PRIORITY
<1>4. id = 402653184 + (a * 16777216 + b * 65536 + x * 256) + src
  BY <1>2, <1>3
<1>5. (id \div 67108864) % 8 = 6 /\ (id \div 16777216) % 2 = a
  BY <1>0, <1>4, SMT
<1>6. (id \div 65536) % 256 = b /\ (id \div 256) % 256 = x
  <2>1. id \div 65536 = 256 * (24 + a) + b
    BY <1>0, <1>4, SMT
  <2>2. id \div 256 = 256 * (256 * (24 + a) + b) + x
    BY <1>0, <1>4, SMT
  <2> QED
    BY <2>1, <2>2, SMT
<1>7. id % 256 = src /\ id \in Nat
  BY <1>0, <1>4, SMT
<1> QED
  BY <1>1, <1>3, <1>5, <1>6, <1>7 DEF Priority, DataPage, PduFormat, PduSpecific, SourceAddr, J1939_PRIORITY, Lead

\* A bit of a number behind the lowest byte, found in the lower 25 bits without that byte.
LEMMA MiddleBit ==
  ASSUME NEW x \in Nat, NEW i \in 8 .. 24
  PROVE  Bit(x, i) = (((x % 33554432) \div 256) \div Pow2[i - 8]) % 2
<1>1. WordBits = 64
  BY DEF WordBits
<1>2. i \in Nat /\ i - 8 \in Nat /\ 24 - i \in Nat /\ 8 + (i - 8) = i /\ (i + 1) + (24 - i) = 25
  OBVIOUS
<1>3. PICK s \in Nat \ {0}, t \in Nat \ {0} : s = Pow2[i] /\ t = Pow2[i - 8] /\ Pow2[24 - i] \in Nat \ {0}
  <2>1. i \in 0 .. 64 /\ i - 8 \in 0 .. 64 /\ 24 - i \in 0 .. 64
    OBVIOUS
  <2> QED
    BY <1>1, <2>1, Powers
<1>4. s = 256 * t
  <2>1. 8 + (i - 8) <= 64
    OBVIOUS
  <2>2. Pow2[8 + (i - 8)] = Pow2[8] * Pow2[i - 8]
    BY <1>1, <1>2, <2>1, PowersMultiply
  <2> QED
    BY <1>2, <1>3, <2>2, PowerValues
<1>5. PICK d : d \in Nat \ {0} /\ 33554432 = (s * 2) * d
  <2>1. i + 1 \in Nat /\ i + 1 <= 64 /\ (i + 1) + (24 - i) <= 64
    OBVIOUS
  <2>2. Pow2[(i + 1) + (24 - i)] = Pow2[i + 1] * Pow2[24 - i]
    BY <1>1, <1>2, <2>1, PowersMultiply
  <2>3. Pow2[i + 1] = Pow2[i] * Pow2[1]
    BY <1>1, <1>2, <2>1, PowersMultiply
  <2> QED
    BY <1>2, <1>3, <2>2, <2>3, PowerValues
<1>6. PICK w \in Nat \ {0}, h \in Nat \ {0} : w = 2 /\ h = 256
  OBVIOUS
<1>11. PICK b : b = 33554432
  OBVIOUS
<1>7. FartherOn(b, s, w, d)
  BY <1>5, <1>6, <1>11 DEF FartherOn
<1>8. (x \div s) % w = ((x % b) \div s) % w
  BY <1>7, FieldBefore
<1>9. PICK y \in Nat : y = x % b
  BY <1>11, Divided
<1>10. y \div (h * t) = (y \div h) \div t
  BY FieldBehind
<1> QED
  BY <1>3, <1>4, <1>6, <1>8, <1>9, <1>10, <1>11 DEF Bit

\* The mask of a filter has the bits of data page, PDU format and PDU specific byte.
LEMMA MaskBits ==
  ASSUME NEW i \in 0 .. 28, Bit(33554176, i) = 1
  PROVE  i \in 8 .. 24
<1>1. WordBits = 64
  BY DEF WordBits
<1>2. ASSUME i < 8 PROVE FALSE
  <2>1. PICK s \in Nat \ {0}, t \in Nat \ {0} : s = Pow2[i] /\ t = Pow2[7 - i]
    <3>1. i \in 0 .. 64 /\ 7 - i \in 0 .. 64
      BY <1>2
    <3>2. Pow2[i] \in Nat \ {0} /\ Pow2[7 - i] \in Nat \ {0}
      BY <1>1, <3>1, Powers
    <3> QED
      BY <3>2
  <2>2. 256 = s * (2 * t)
    <3>1. i \in Nat /\ 7 - i \in Nat /\ i + 1 \in Nat /\ (i + 1) + (7 - i) = 8
          /\ i + 1 <= 64 /\ (i + 1) + (7 - i) <= 64
      BY <1>2
    <3>2. Pow2[(i + 1) + (7 - i)] = Pow2[i + 1] * Pow2[7 - i] /\ Pow2[i + 1] = Pow2[i] * Pow2[1]
      BY <1>1, <3>1, PowersMultiply
    <3>3. 256 = (s * 2) * t
      BY <2>1, <3>1, <3>2, PowerValues
    <3> QED
      BY <3>3
  <2>3. PICK q \in Nat, r \in 0 .. s - 1 : q = 2 * (t * 131071) /\ r = 0
    OBVIOUS
  <2>4. 33554176 = s * q + r
    <3>1. s * (2 * (t * 131071)) = (s * (2 * t)) * 131071
      BY SMT
    <3> QED
      BY <2>2, <2>3, <3>1
  <2>5. (s * q + r) \div s = q
    BY DividedOnce
  <2>6. q % 2 = 0
    BY <2>3
  <2> QED
    BY <2>1, <2>4, <2>5, <2>6 DEF Bit
<1>3. ASSUME i > 24 PROVE FALSE
  <2>1. PICK s \in Nat \ {0}, t \in Nat \ {0} : s = Pow2[i] /\ t = Pow2[i - 25]
    <3>1. i \in 0 .. 64 /\ i - 25 \in 0 .. 64
      BY <1>3
    <3> QED
      BY <1>1, <3>1, Powers
  <2>2. s = 33554432 * t
    <3>1. i - 25 \in Nat /\ 25 \in Nat /\ 25 + (i - 25) = i /\ 25 + (i - 25) <= 64
      BY <1>3
    <3>2. Pow2[25 + (i - 25)] = Pow2[25] * Pow2[i - 25]
      BY <1>1, <3>1, PowersMultiply
    <3> QED
      BY <2>1, <3>1, <3>2, PowerValues
  <2>3. PICK q \in Nat, r \in 0 .. s - 1 : q = 0 /\ r = 33554176
    BY <2>2
  <2>4. (s * q + r) \div s = q
    BY DividedOnce
  <2>5. 33554176 \div s = 0
    BY <2>3, <2>4
  <2> QED
    BY <2>1, <2>5 DEF Bit
<1> QED
  BY <1>2, <1>3

\* All bits of data page, PDU format and PDU specific byte.
FullMask == 33554176

LEMMA GroupBounds ==
  ASSUME NEW pgn \in Nat, NEW d \in 0 .. 255
  PROVE  Group(pgn, d) \in Nat /\ Group(pgn, d) <= FullMask
<1>1. PICK a \in 0 .. 1 : a = Page(pgn)
  BY PgnBounds
<1>2. PICK b \in 0 .. 255 : b = Format(pgn)
  BY PgnBounds
<1>3. PICK x \in 0 .. 255 : x = Specific(pgn, d)
  BY SpecificBounds
<1>4. Group(pgn, d) = a * 16777216 + b * 65536 + x * 256
  BY <1>1, <1>2, <1>3 DEF Group
<1> QED
  BY <1>4 DEF FullMask

(***************************************************************************)
(* What an application asks filter_add for: the group, and all bits of it. *)
(***************************************************************************)
LEMMA FilterBits ==
  ASSUME NEW c \in Channels, NEW pgn \in Nat
  PROVE  CanonFilter(FilterFor(c, pgn)) = <<Group(pgn, Addr[c]), FullMask>>
<1>1. Addr[c] \in 0 .. 255
  BY NodeAssumption
<1>2. Create2(pgn, Addr[c]) = Group(pgn, Addr[c])
  BY <1>1, Create2Fields
<1>3. PICK id \in Nat : id = Group(pgn, Addr[c]) /\ id <= FullMask
  BY <1>1, GroupBounds
<1>4. FilterFor(c, pgn)[1] = id /\ FilterFor(c, pgn)[2] = FullMask
  BY <1>2, <1>3 DEF FilterFor, PgnNumberMask, FullMask
<1>5. Canon(id) = id /\ Canon(FullMask) = FullMask
  <2>1. Pow2[IdBits] = 536870912
    BY NodeAssumption, PowerValues
  <2>2. id % 536870912 = id /\ FullMask % 536870912 = FullMask
    BY <1>3 DEF FullMask
  <2> QED
    BY <2>1, <2>2 DEF Canon
<1> QED
  BY <1>3, <1>4, <1>5 DEF CanonFilter

\* An identifier of a group agrees with the group in those bits.
LEMMA GroupBits ==
  ASSUME NEW id, NEW pgn, NEW dst, NEW src, Made(id, pgn, dst, src)
  PROVE  \A i \in 0 .. 28 : Bit(FullMask, i) = 1 => Bit(id, i) = Bit(Group(pgn, dst), i)
<1>1. pgn \in Nat /\ dst \in 0 .. 255 /\ src \in 0 .. 255
  BY DEF Made
<1>2. id \in Nat /\ id = Lead + Group(pgn, dst) + src
  BY CreateFields
<1>3. PICK a \in 0 .. 1 : a = Page(pgn)
  BY <1>1, PgnBounds
<1>4. PICK b \in 0 .. 255 : b = Format(pgn)
  BY <1>1, PgnBounds
<1>5. PICK x \in 0 .. 255 : x = Specific(pgn, dst)
  BY <1>1, SpecificBounds
<1>6. PICK n \in Nat : n = Group(pgn, dst)
  BY <1>1, GroupBounds
<1>7. n = a * 16777216 + b * 65536 + x * 256
  BY <1>3, <1>4, <1>5, <1>6 DEF Group
<1>8. id = 402653184 + n + src
  BY <1>2, <1>6 DEF Lead
<1>9. (id % 33554432) \div 256 = (n % 33554432) \div 256
  <2>1. PICK k \in Nat : k <= 131071 /\ n = 256 * k
    <3>1. a * 65536 + b * 256 + x \in Nat /\ a * 65536 + b * 256 + x <= 131071
      OBVIOUS
    <3>2. n = 256 * (a * 65536 + b * 256 + x)
      BY <1>7
    <3> QED
      BY <3>1, <3>2
  <2>2. id = 33554432 * 12 + (256 * k + src) /\ 0 <= 256 * k + src /\ 256 * k + src < 33554432
    BY <1>1, <1>8, <2>1
  <2>3. id % 33554432 = 256 * k + src /\ n % 33554432 = 256 * k
    BY <1>1, <2>1, <2>2
  <2> QED
    BY <1>1, <2>3
<1>10. ASSUME NEW i \in 0 .. 28, Bit(FullMask, i) = 1 PROVE Bit(id, i) = Bit(n, i)
  <2>1. i \in 8 .. 24
    BY <1>10, MaskBits DEF FullMask
  <2> QED
    BY <1>2, <1>9, <2>1, MiddleBit
<1> QED
  BY <1>6, <1>10

(***************************************************************************)
(* The filter of a group lets every message of the group pass, whatever    *)
(* its source, and if it has a destination those to the own address.       *)
(***************************************************************************)
LEMMA GroupPasses ==
  ASSUME NEW c \in Channels, NEW id, NEW pgn, NEW dst, NEW src, Made(id, pgn, dst, src),
         HasDst(pgn) => dst = Addr[c],
         NEW f, ~ f.std, f.id = id,
         NEW g, g.id = CanonFilter(FilterFor(c, pgn))[1], g.mask = CanonFilter(FilterFor(c, pgn))[2]
  PROVE  Passes(f, g)
<1>1. pgn \in Nat /\ Specific(pgn, dst) = Specific(pgn, Addr[c])
  BY DstFormat DEF Specific, Made
<1>2. Group(pgn, dst) = Group(pgn, Addr[c])
  BY <1>1 DEF Group
<1>3. CanonFilter(FilterFor(c, pgn)) = <<Group(pgn, Addr[c]), FullMask>>
  BY <1>1, FilterBits
<1>4. g.id = Group(pgn, dst) /\ g.mask = FullMask
  BY <1>2, <1>3
<1>5. \A i \in 0 .. 28 : Bit(FullMask, i) = 1 => Bit(id, i) = Bit(Group(pgn, dst), i)
  BY GroupBits
<1>6. IdBits - 1 = 28 /\ Layout(f) = id
  BY NodeAssumption DEF Layout
<1> QED
  BY <1>4, <1>5, <1>6 DEF Passes

-----------------------------------------------------------------------------
(* Messages that applications prepare.                                     *)

Given == UNION {[D -> Values \union Numbers] : D \in SUBSET DOMAIN Desc}

DraftOK ==
  /\ draft \in [Channels -> Nat]
  /\ wrote \in [Channels -> Given]
  /\ SignalsKeepValues

\* No value has been given yet.
LEMMA NothingGiven == [k \in {} |-> 0] \in Given /\ DOMAIN [k \in {} |-> 0] = {}
<1>1. [k \in {} |-> 0] \in [{} -> Values \union Numbers] /\ {} \in SUBSET DOMAIN Desc
  OBVIOUS
<1> QED
  BY <1>1 DEF Given

LEMMA DraftAtFirst ==
  ASSUME NodeInit
  PROVE  DraftOK
<1>1. draft = [c \in Channels |-> 0] /\ wrote = [c \in Channels |-> [k \in {} |-> 0]]
  BY DEF NodeInit
<1>2. draft \in [Channels -> Nat] /\ wrote \in [Channels -> Given]
  BY <1>1, NothingGiven
<1>3. \A c \in Channels : DOMAIN wrote[c] = {}
  BY <1>1
<1> QED
  BY <1>2, <1>3 DEF DraftOK, SignalsKeepValues

(***************************************************************************)
(* uni_can_j1939_msg_signal_set.                                           *)
(***************************************************************************)
LEMMA SetSignalKeepsDraft ==
  ASSUME DraftOK, NEW c \in Senders, NEW k \in DOMAIN Desc, NEW v \in Inputs(k), SetSignal(c, k, v)
  PROVE  DraftOK'
<1>1. c \in Channels /\ MayGive(k, v)
  BY NodeAssumption DEF MayGive, Inputs
<1>2. draft \in [Channels -> Nat] /\ wrote \in [Channels -> Given] /\ draft[c] \in Nat
  BY <1>1 DEF DraftOK
<1>3. PICK m \in ValMax(Desc[k]) : \E p \in SignalSet(draft[c], Desc, k, v, m) : draft' = [draft EXCEPT ![c] = p]
  BY DEF SetSignal
<1>4. PICK p \in SignalSet(draft[c], Desc, k, v, m) : draft' = [draft EXCEPT ![c] = p]
  BY <1>3
<1>5. /\ p \in Nat
      /\ k \in Short => ReadsAs(p, k, v)
      /\ \A j \in Short : \A u : j # k /\ ReadsAs(draft[c], j, u) => ReadsAs(p, j, u)
  BY <1>1, <1>2, SetKeeps
<1> DEFINE w == wrote[c]
           n == [j \in DOMAIN w \union {k} |-> IF j = k THEN v ELSE w[j]]
<1>6. wrote' = [wrote EXCEPT ![c] = n]
  BY DEF SetSignal
<1>7. n \in Given
  <2>1. PICK D \in SUBSET DOMAIN Desc : w \in [D -> Values \union Numbers]
    BY <1>1, <1>2 DEF Given
  <2>2. DOMAIN w = D /\ \A j \in D : w[j] \in Values \union Numbers
    BY <2>1
  <2> HIDE DEF w
  <2>3. n \in [D \union {k} -> Values \union Numbers]
    BY <2>2 DEF Inputs
  <2>4. D \union {k} \in SUBSET DOMAIN Desc
    OBVIOUS
  <2> QED
    BY <2>3, <2>4 DEF Given
<1>8. DOMAIN n = DOMAIN w \union {k} /\ n[k] = v /\ \A j \in DOMAIN w : j # k => n[j] = w[j]
  OBVIOUS
<1> HIDE DEF n, w
<1>9. /\ draft'[c] = p /\ wrote'[c] = n
      /\ \A d \in Channels : d # c => draft'[d] = draft[d] /\ wrote'[d] = wrote[d]
  BY <1>1, <1>2, <1>4, <1>6
<1>10. draft' \in [Channels -> Nat] /\ wrote' \in [Channels -> Given]
  BY <1>2, <1>4, <1>5, <1>6, <1>7
<1>11. ASSUME NEW d \in Channels, NEW j \in DOMAIN wrote'[d] \intersect Short
       PROVE  ReadsAs(draft'[d], j, wrote'[d][j])
  <2>1. \A i \in DOMAIN wrote[d] \intersect Short : ReadsAs(draft[d], i, wrote[d][i])
    BY DEF DraftOK, SignalsKeepValues
  <2>2. CASE d # c
    BY <1>9, <1>11, <2>1, <2>2
  <2>3. CASE d = c /\ j = k
    BY <1>5, <1>8, <1>9, <1>11, <2>3
  <2>4. CASE d = c /\ j # k
    <3>1. j \in DOMAIN w /\ j \in Short /\ wrote'[d][j] = w[j]
      BY <1>8, <1>9, <1>11, <2>4
    <3>2. ReadsAs(draft[c], j, w[j])
      BY <2>1, <2>4, <3>1 DEF w
    <3> QED
      BY <1>5, <1>9, <2>4, <3>1, <3>2
  <2> QED
    BY <2>2, <2>3, <2>4
<1> QED
  BY <1>10, <1>11 DEF DraftOK, SignalsKeepValues

\* A message that has been posted is a new one from then on.
LEMMA PostKeepsDraft ==
  ASSUME DraftOK, NEW c \in Senders, NEW m, Post(c, m)
  PROVE  DraftOK'
<1>1. c \in Channels /\ draft \in [Channels -> Nat] /\ wrote \in [Channels -> Given]
  BY NodeAssumption DEF DraftOK
<1>2. draft' = [draft EXCEPT ![c] = 0] /\ wrote' = [wrote EXCEPT ![c] = [k \in {} |-> 0]]
  BY DEF Post
<1>3. draft' \in [Channels -> Nat] /\ wrote' \in [Channels -> Given]
  BY <1>1, <1>2, NothingGiven
<1>4. DOMAIN wrote'[c] = {} /\ \A d \in Channels : d # c => draft'[d] = draft[d] /\ wrote'[d] = wrote[d]
  BY <1>1, <1>2, NothingGiven
<1>5. \A d \in Channels : \A j \in DOMAIN wrote'[d] \intersect Short : ReadsAs(draft'[d], j, wrote'[d][j])
  <2>1. \A d \in Channels : \A j \in DOMAIN wrote[d] \intersect Short : ReadsAs(draft[d], j, wrote[d][j])
    BY DEF DraftOK, SignalsKeepValues
  <2> QED
    BY <1>4, <2>1
<1> QED
  BY <1>3, <1>5 DEF DraftOK, SignalsKeepValues

LEMMA DraftKeeps ==
  ASSUME DraftOK, [NodeNext]_nodeVars
  PROVE  DraftOK'
<1>1. ASSUME UNCHANGED <<draft, wrote>> PROVE DraftOK'
  <2>1. draft' = draft /\ wrote' = wrote
    BY <1>1
  <2> QED
    BY <2>1 DEF DraftOK, SignalsKeepValues
<1>2. ASSUME NEW c \in Channels,
             \/ NodeSetup(c) \/ NodeUp(c) \/ NodeDown(c) \/ NodeAbort(c) \/ NodeReceive(c)
             \/ \E pgn \in Wanted[c] : AskFor(c, pgn)
             \/ \E k \in 1 .. Mailboxes : NodeLeave(c, k)
      PROVE  UNCHANGED <<draft, wrote>>
  BY <1>2 DEF NodeSetup, NodeUp, NodeDown, NodeAbort, NodeReceive, AskFor, NodeLeave, appVars
<1>3. ASSUME NEW c \in Senders, NEW k \in DOMAIN Desc, NEW v \in Inputs(k), SetSignal(c, k, v)
      PROVE  DraftOK'
  BY <1>3, SetSignalKeepsDraft
<1>4. ASSUME NEW c \in Senders, NEW dst, SendData(c, dst) \/ SendRequest(c, DataPgn, dst)
      PROVE  DraftOK'
  BY <1>4, PostKeepsDraft DEF SendData, SendRequest
<1>5. ASSUME NEW f \in Foreign, NodeArrive(f) PROVE UNCHANGED <<draft, wrote>>
  BY <1>5 DEF NodeArrive, appVars
<1>6. CASE UNCHANGED nodeVars
  BY <1>1, <1>6 DEF nodeVars, appVars
<1> QED
  BY <1>1, <1>2, <1>3, <1>4, <1>5, <1>6 DEF NodeNext

-----------------------------------------------------------------------------
(* Groups that applications ask for.                                       *)

AskedOK ==
  /\ asked \in [Channels -> SUBSET Nat]
  /\ \A c \in Channels : \A pgn \in asked[c] :
       \E k \in DOMAIN filters[c] : filters[c][k] = CanonFilter(FilterFor(c, pgn))

\* A group whose filter was refused is not asked for, one whose filter is there already is.
LEMMA AskForKeepsAsked ==
  ASSUME FilterInvariant, AskedOK, NEW c \in Channels, NEW pgn \in Wanted[c], AskFor(c, pgn)
  PROVE  AskedOK'
<1> DEFINE g == CanonFilter(FilterFor(c, pgn))
<1>1. pgn \in Nat /\ asked \in [Channels -> SUBSET Nat]
  BY NodeAssumption DEF AskedOK
<1>2. \A d \in Channels : \A p \in asked[d] : \E k \in DOMAIN filters[d] : filters[d][k] = CanonFilter(FilterFor(d, p))
  BY DEF AskedOK
<1>3. filters \in [Channels -> Seq(Filters)] /\ g \in Filters
  <2>1. g \in Filters
    BY DEF Filters
  <2> QED
    BY <2>1 DEF FilterInvariant, FilterTypeOK
<1> HIDE DEF g
<1>4. CASE filters' = filters /\ asked' = asked
  BY <1>4 DEF AskedOK
<1>5. CASE filters' = filters /\ IsSet(c, FilterFor(c, pgn)) /\ asked' = [asked EXCEPT ![c] = @ \union {pgn}]
  <2>1. asked' \in [Channels -> SUBSET Nat]
    BY <1>1, <1>5
  <2>2. \A d \in Channels : asked'[d] = IF d = c THEN asked[d] \union {pgn} ELSE asked[d]
    BY <1>1, <1>5
  <2>3. \E k \in DOMAIN filters[c] : filters[c][k] = CanonFilter(FilterFor(c, pgn))
    BY <1>5 DEF IsSet
  <2>4. ASSUME NEW d \in Channels, NEW p \in asked'[d]
        PROVE  \E k \in DOMAIN filters[d] : filters[d][k] = CanonFilter(FilterFor(d, p))
    BY <1>2, <2>2, <2>3, <2>4
  <2> QED
    BY <1>5, <2>1, <2>4 DEF AskedOK
<1>6. CASE filters' = [filters EXCEPT ![c] = Append(@, g)] /\ asked' = [asked EXCEPT ![c] = @ \union {pgn}]
  <2>1. asked' \in [Channels -> SUBSET Nat]
    BY <1>1, <1>6
  <2>2. \A d \in Channels : asked'[d] = IF d = c THEN asked[d] \union {pgn} ELSE asked[d]
    BY <1>1, <1>6
  <2>3. \A d \in Channels : filters'[d] = IF d = c THEN Append(filters[d], g) ELSE filters[d]
    BY <1>3, <1>6
  <2>4. \A d \in Channels : filters[d] \in Seq(Filters)
    BY <1>3
  <2>5. /\ Len(filters[c]) \in Nat /\ DOMAIN filters[c] = 1 .. Len(filters[c])
        /\ DOMAIN Append(filters[c], g) = 1 .. Len(filters[c]) + 1
        /\ \A k \in 1 .. Len(filters[c]) : Append(filters[c], g)[k] = filters[c][k]
        /\ Append(filters[c], g)[Len(filters[c]) + 1] = g
    BY <1>3, <2>4, AppendFacts
  <2>6. \A k \in 1 .. Len(filters[c]) : k \in 1 .. Len(filters[c]) + 1
    BY <2>5
  <2>7. Len(filters[c]) + 1 \in 1 .. Len(filters[c]) + 1
    BY <2>5
  <2>8. ASSUME NEW d \in Channels, NEW p \in asked'[d]
        PROVE  \E k \in DOMAIN filters'[d] : filters'[d][k] = CanonFilter(FilterFor(d, p))
    <3>1. CASE d # c
      BY <1>2, <2>2, <2>3, <2>8, <3>1
    <3>2. CASE d = c /\ p = pgn
      <4>1. filters'[d] = Append(filters[c], g) /\ g = CanonFilter(FilterFor(d, p))
        BY <2>3, <3>2 DEF g
      <4> QED
        BY <4>1, <2>5, <2>7
    <3>3. CASE d = c /\ p # pgn
      <4>1. PICK k \in DOMAIN filters[c] : filters[c][k] = CanonFilter(FilterFor(d, p))
        BY <1>2, <2>2, <2>8, <3>3
      <4>2. filters'[d] = Append(filters[c], g)
        BY <2>3, <3>3
      <4> QED
        BY <4>1, <4>2, <2>5, <2>6
    <3> QED
      BY <3>1, <3>2, <3>3
  <2> QED
    BY <2>1, <2>8 DEF AskedOK
<1>7. CASE Callable(c) /\ IsSet(c, FilterFor(c, pgn)) /\ UNCHANGED vars
           /\ asked' = [asked EXCEPT ![c] = @ \union {pgn}]
  BY <1>5, <1>7 DEF vars, channelVars
<1>8. CASE FilterAdd(c, FilterFor(c, pgn))
           /\ asked' = [asked EXCEPT ![c] = IF filters' = filters THEN @ ELSE @ \union {pgn}]
  <2>1. CASE filters' = filters
    <3>1. asked' = asked
      BY <1>1, <1>8, <2>1
    <3> QED
      BY <1>4, <2>1, <3>1
  <2>2. CASE filters' # filters
    BY <1>6, <1>8, <2>2 DEF FilterAdd, g
  <2> QED
    BY <2>1, <2>2
<1> QED
  BY <1>7, <1>8 DEF AskFor

LEMMA AskedKeeps ==
  ASSUME FilterInvariant, AskedOK, [NodeNext]_nodeVars
  PROVE  AskedOK'
<1>1. ASSUME UNCHANGED <<asked, filters>> PROVE AskedOK'
  BY <1>1 DEF AskedOK
<1>2. ASSUME NEW c \in Channels, NodeSetup(c) PROVE AskedOK'
  <2>1. asked' = [asked EXCEPT ![c] = {}] /\ filters' = [filters EXCEPT ![c] = <<>>]
    BY <1>2 DEF NodeSetup, Setup
  <2>2. asked \in [Channels -> SUBSET Nat] /\ filters \in [Channels -> Seq(Filters)]
    BY DEF AskedOK, FilterInvariant, FilterTypeOK
  <2>3. asked' \in [Channels -> SUBSET Nat]
    BY <2>1, <2>2
  <2>4. asked'[c] = {} /\ \A d \in Channels : d # c => asked'[d] = asked[d] /\ filters'[d] = filters[d]
    BY <2>1, <2>2
  <2> QED
    BY <2>3, <2>4 DEF AskedOK
<1>3. ASSUME NEW c \in Channels, NEW pgn \in Wanted[c], AskFor(c, pgn) PROVE AskedOK'
  BY <1>3, AskForKeepsAsked
<1>4. ASSUME NEW c \in Channels,
             NodeUp(c) \/ NodeDown(c) \/ NodeAbort(c) \/ NodeReceive(c) \/ \E k \in 1 .. Mailboxes : NodeLeave(c, k)
      PROVE  UNCHANGED <<asked, filters>>
  BY <1>4 DEF NodeUp, NodeDown, NodeAbort, NodeReceive, NodeLeave, InitChannel, Open, Close, Destroy, Stop,
              TransmitAbort, ReceiveTo, Leave, channelVars, halVars, appVars
<1>5. ASSUME NEW c \in Senders,
             \/ \E k \in DOMAIN Desc : \E v \in Inputs(k) : SetSignal(c, k, v)
             \/ \E dst \in {Addr[d] : d \in Channels} : SendData(c, dst) \/ SendRequest(c, DataPgn, dst)
      PROVE  UNCHANGED <<asked, filters>>
  BY <1>5 DEF SetSignal, SendData, SendRequest, Post, Transmit, vars, channelVars, halVars
<1>6. ASSUME NEW f \in Foreign, NodeArrive(f) PROVE UNCHANGED <<asked, filters>>
  BY <1>6 DEF NodeArrive, Arrive, channelVars, appVars
<1>7. CASE UNCHANGED nodeVars
  BY <1>1, <1>7 DEF nodeVars, vars, channelVars, appVars
<1> QED
  BY <1>1, <1>2, <1>3, <1>4, <1>5, <1>6, <1>7 DEF NodeNext

-----------------------------------------------------------------------------
(* Frames that applications have sent.                                     *)

Meanings ==
  [kind : {"signals", "request"}, pgn : Nat, dst : 0 .. 255, src : 0 .. 255, values : Given \union Nat]
Contents == [payload : Nat, num : Nat, meaning : Meanings]
Frames == [id : Nat, std : {FALSE}, remote : {FALSE}, dlc : Nat, data : Contents]

\* What the sender meant is what the frame says.
Says(f, meant) ==
  /\ Made(f.id, meant.pgn, meant.dst, meant.src)
  /\ meant.pgn \in {DataPgn, PGN_REQUEST}
  /\ meant.kind = "request" => meant.values = DataPgn /\ f.data.payload = DataPgn
  /\ meant.kind = "signals" =>
       \A k \in DOMAIN meant.values \intersect Short : ReadsAs(f.data.payload, k, meant.values[k])
Sent == {f \in Frames : f.dlc <= MaxLen /\ Says(f, f.data.meaning)}

BusOK ==
  /\ sends \in Nat
  /\ boxes \in [Channels -> Seq(Sent)]
  /\ fifo \in [Channels -> Seq(Sent \union Foreign)]

LEMMA CreateIsNat ==
  ASSUME NEW id, NEW pgn, NEW d, NEW src, Made(id, pgn, d, src)
  PROVE  id \in Nat
  BY CreateFields

(***************************************************************************)
(* uni_can_unihal_channel_transmit puts the message into a mailbox.        *)
(***************************************************************************)
LEMMA PostedIsSent ==
  ASSUME BusOK, NEW c \in Senders, NEW m, Post(c, m),
         NEW id, NEW n \in Nat, NEW payload \in Nat, NEW meaning \in Meanings,
         m = [id |-> id, flags |-> {"EXT"}, len |-> n, data |-> Data(payload, meaning)],
         Says(FrameOf(m), meaning)
  PROVE  BusOK'
<1> DEFINE f == FrameOf(m)
<1>1. c \in Channels /\ sends \in Nat /\ boxes \in [Channels -> Seq(Sent)] /\ fifo \in [Channels -> Seq(Sent \union Foreign)]
  BY NodeAssumption DEF BusOK
<1>2. f = [id |-> id, std |-> FALSE, remote |-> FALSE, dlc |-> n,
           data |-> [payload |-> payload, num |-> sends + 1, meaning |-> meaning]]
  BY DEF FrameOf, Data
<1>3. f.id = id /\ f.dlc = n /\ f.data.meaning = meaning
  BY <1>2
<1>4. id \in Nat
  BY <1>3, CreateIsNat DEF Says
<1>5. f \in Frames
  <2> DEFINE content == [payload |-> payload, num |-> sends + 1, meaning |-> meaning]
  <2>1. content \in Contents
    BY <1>1 DEF Contents
  <2>2. f = [id |-> id, std |-> FALSE, remote |-> FALSE, dlc |-> n, data |-> content]
    BY <1>2
  <2> HIDE DEF content, f
  <2> QED
    BY <1>4, <2>1, <2>2 DEF Frames
<1>6. m.len = n /\ m.len <= MaxLen
  BY DEF Post, Transmit
<1>7. f \in Sent
  BY <1>3, <1>5, <1>6 DEF Sent
<1> HIDE DEF f
<1>8. boxes' = [boxes EXCEPT ![c] = Append(@, f)] /\ fifo' = fifo /\ sends' = sends + 1
  BY DEF Post, Transmit, f
<1>9. boxes[c] \in Seq(Sent) /\ Append(boxes[c], f) \in Seq(Sent)
  BY <1>1, <1>7
<1>10. boxes' \in [Channels -> Seq(Sent)]
  BY <1>1, <1>8, <1>9
<1> QED
  BY <1>1, <1>8, <1>10 DEF BusOK

LEMMA OwnAddress ==
  ASSUME NEW c \in Channels
  PROVE  Addr[c] \in 0 .. 255
  BY NodeAssumption

(***************************************************************************)
(* uni_can_j1939_msg: a message with the signals that were set.            *)
(***************************************************************************)
LEMMA SendDataKeepsBus ==
  ASSUME BusOK, DraftOK, NEW c \in Senders, NEW a \in Channels, SendData(c, Addr[a])
  PROVE  BusOK'
<1> DEFINE id == Create(J1939_PRIORITY, DataPgn, Addr[a], Addr[c])
           meaning == [kind |-> "signals", pgn |-> DataPgn, dst |-> Addr[a], src |-> Addr[c], values |-> wrote[c]]
           m == [id |-> id, flags |-> {"EXT"}, len |-> MaxLen, data |-> Data(draft[c], meaning)]
<1>1. c \in Channels /\ MaxLen \in Nat /\ DataPgn \in Nat
  BY NodeAssumption, HalAssumption
<1>2. Addr[a] \in 0 .. 255 /\ Addr[c] \in 0 .. 255
  BY <1>1, OwnAddress
<1>3. draft[c] \in Nat /\ wrote[c] \in Given
  BY <1>1 DEF DraftOK
<1>4. meaning \in Meanings
  BY <1>1, <1>2, <1>3 DEF Meanings
<1>5. Made(id, DataPgn, Addr[a], Addr[c])
  BY <1>1, <1>2 DEF Made
<1>6. \A k \in DOMAIN wrote[c] \intersect Short : ReadsAs(draft[c], k, wrote[c][k])
  BY <1>1 DEF DraftOK, SignalsKeepValues
<1>7. /\ meaning.kind = "signals" /\ meaning.pgn = DataPgn /\ meaning.dst = Addr[a] /\ meaning.src = Addr[c]
      /\ meaning.values = wrote[c]
  OBVIOUS
<1>8. Post(c, m)
  BY DEF SendData
<1> HIDE DEF id, meaning
<1>9. FrameOf(m).id = id /\ FrameOf(m).data.payload = draft[c]
  BY DEF FrameOf, Data
<1>10. Says(FrameOf(m), meaning)
  BY <1>5, <1>6, <1>7, <1>9 DEF Says
<1> QED
  BY <1>1, <1>3, <1>4, <1>8, <1>10, PostedIsSent

(***************************************************************************)
(* uni_can_j1939_msg_pgn_request.                                          *)
(***************************************************************************)
LEMMA SendRequestKeepsBus ==
  ASSUME BusOK, NEW c \in Senders, NEW a \in Channels, SendRequest(c, DataPgn, Addr[a])
  PROVE  BusOK'
<1> DEFINE id == Create(J1939_PRIORITY, PGN_REQUEST, Addr[a], Addr[c])
           meaning == [kind |-> "request", pgn |-> PGN_REQUEST, dst |-> Addr[a], src |-> Addr[c], values |-> DataPgn]
           m == [id |-> id, flags |-> {"EXT"}, len |-> 3, data |-> Data(DataPgn, meaning)]
<1>1. c \in Channels /\ DataPgn \in Nat /\ PGN_REQUEST \in Nat
  BY NodeAssumption DEF PGN_REQUEST
<1>2. Addr[a] \in 0 .. 255 /\ Addr[c] \in 0 .. 255
  BY <1>1, OwnAddress
<1>4. meaning \in Meanings
  BY <1>1, <1>2 DEF Meanings
<1>5. Made(id, PGN_REQUEST, Addr[a], Addr[c])
  BY <1>1, <1>2 DEF Made
<1>7. /\ meaning.kind = "request" /\ meaning.pgn = PGN_REQUEST /\ meaning.dst = Addr[a] /\ meaning.src = Addr[c]
      /\ meaning.values = DataPgn
  OBVIOUS
<1>8. Post(c, m)
  BY DEF SendRequest
<1> HIDE DEF id, meaning
<1>9. FrameOf(m).id = id /\ FrameOf(m).data.payload = DataPgn
  BY DEF FrameOf, Data
<1>10. Says(FrameOf(m), meaning)
  BY <1>5, <1>7, <1>9 DEF Says
<1> QED
  BY <1>1, <1>4, <1>8, <1>10, PostedIsSent

-----------------------------------------------------------------------------
(* Receiving.                                                              *)

(***************************************************************************)
(* receive_to drops what is in front of the first proper frame, and        *)
(* nothing else.                                                           *)
(***************************************************************************)
LEMMA SkippedFacts ==
  ASSUME NEW F, NEW q \in Seq(F)
  PROVE  /\ Skipped(q) \in 0 .. Len(q)
         /\ \A k \in 1 .. Skipped(q) : ~ Proper(q[k])
         /\ Skipped(q) < Len(q) => Proper(q[Skipped(q) + 1])
<1> DEFINE n == Len(q)
           S == {i \in Nat : i < n => Proper(q[i + 1])}
           Good(i) == (\A k \in 1 .. i : ~ Proper(q[k])) /\ (i < n => Proper(q[i + 1]))
<1>1. n \in Nat /\ n \in S
  OBVIOUS
<1>2. PICK m \in S : \A j \in S : m <= j
  <2>1. S \in SUBSET Nat /\ S # {}
    BY <1>1
  <2> HIDE DEF S
  <2> QED
    BY <2>1, FirstOfMember
<1>3. m \in 0 .. n
  BY <1>1, <1>2
<1>4. ASSUME NEW k \in 1 .. m, Proper(q[k]) PROVE FALSE
  <2>1. k - 1 \in Nat /\ (k - 1) + 1 = k /\ ~ (m <= k - 1)
    BY <1>3
  <2>2. k - 1 \in S
    BY <1>4, <2>1
  <2> QED
    BY <1>2, <2>1, <2>2
<1>5. Good(m)
  BY <1>2, <1>4
<1>6. Skipped(q) = CHOOSE i \in 0 .. n : Good(i)
  BY DEF Skipped
<1> HIDE DEF Good
<1>7. Skipped(q) \in 0 .. n /\ Good(Skipped(q))
  BY <1>3, <1>5, <1>6
<1> QED
  BY <1>7 DEF Good

\* A frame that is seen is appended where it is accepted.
LEMMA SeenFacts ==
  ASSUME NEW F, fifo \in [Channels -> Seq(F)], NEW senders, NEW f \in F
  PROVE  /\ Seen(senders, f) \in [Channels -> Seq(F)]
         /\ \A d \in Channels :
              Seen(senders, f)[d] = IF d \notin senders /\ Accepts(d, f) /\ Len(fifo[d]) < FifoSize
                                    THEN Append(fifo[d], f) ELSE fifo[d]
<1>1. \A d \in Channels : fifo[d] \in Seq(F) /\ Append(fifo[d], f) \in Seq(F)
  OBVIOUS
<1> QED
  BY <1>1 DEF Seen

\* The mailboxes behind one that is emptied.
LEMMA TakenOut ==
  ASSUME NEW F, NEW q \in Seq(F), NEW k \in DOMAIN q
  PROVE  q[k] \in F /\ SubSeq(q, 1, k - 1) \o SubSeq(q, k + 1, Len(q)) \in Seq(F)
<1>1. k \in 1 .. Len(q) /\ Len(q) \in Nat
  OBVIOUS
<1>2. SubSeq(q, 1, k - 1) \in Seq(F) /\ SubSeq(q, k + 1, Len(q)) \in Seq(F)
  BY <1>1
<1> QED
  BY <1>2, ConcatProperties

LEMMA LeaveKeepsBus ==
  ASSUME BusOK, NEW c \in Channels, NEW k \in 1 .. Mailboxes, NodeLeave(c, k)
  PROVE  BusOK' /\ boxes[c][k] \in Sent
<1>1. boxes \in [Channels -> Seq(Sent)] /\ fifo \in [Channels -> Seq(Sent \union Foreign)]
  BY DEF BusOK
<1>2. /\ k \in DOMAIN boxes[c] /\ fifo' = Seen({c}, boxes[c][k]) /\ sends' = sends
      /\ boxes' = [boxes EXCEPT ![c] = SubSeq(@, 1, k - 1) \o SubSeq(@, k + 1, Len(@))]
  BY DEF NodeLeave, Leave
<1>3. boxes[c] \in Seq(Sent)
  BY <1>1
<1>4. boxes[c][k] \in Sent /\ SubSeq(boxes[c], 1, k - 1) \o SubSeq(boxes[c], k + 1, Len(boxes[c])) \in Seq(Sent)
  BY <1>2, <1>3, TakenOut
<1>5. boxes' \in [Channels -> Seq(Sent)]
  BY <1>1, <1>2, <1>4
<1>6. fifo' \in [Channels -> Seq(Sent \union Foreign)]
  BY <1>1, <1>2, <1>4, SeenFacts
<1> QED
  BY <1>2, <1>4, <1>5, <1>6 DEF BusOK

LEMMA NothingMore == \A S : <<>> \in Seq(S)
  OBVIOUS

LEMMA BusKeeps ==
  ASSUME BusOK, DraftOK, [NodeNext]_nodeVars
  PROVE  BusOK'
<1>0. sends \in Nat /\ boxes \in [Channels -> Seq(Sent)] /\ fifo \in [Channels -> Seq(Sent \union Foreign)]
  BY DEF BusOK
<1>1. ASSUME UNCHANGED <<sends, boxes, fifo>> PROVE BusOK'
  BY <1>1 DEF BusOK
<1>2. ASSUME NEW c \in Channels, NodeSetup(c) \/ NodeUp(c) \/ \E pgn \in Wanted[c] : AskFor(c, pgn)
      PROVE  UNCHANGED <<sends, boxes, fifo>>
  BY <1>2 DEF NodeSetup, NodeUp, AskFor, Setup, InitChannel, Open, FilterAdd, vars, halVars, appVars
<1>3. ASSUME NEW c \in Channels, NodeDown(c) PROVE BusOK'
  <2>1. sends' = sends /\ Stop(c)
    BY <1>3 DEF NodeDown, Close, Destroy
  <2>2. CASE UNCHANGED halVars
    BY <1>1, <2>1, <2>2 DEF halVars
  <2>3. CASE /\ \E f \in {<<>>, fifo[c]} : fifo' = [fifo EXCEPT ![c] = f]
             /\ \E b \in {<<>>, boxes[c]} : boxes' = [boxes EXCEPT ![c] = b]
    <3>1. PICK f \in {<<>>, fifo[c]}, b \in {<<>>, boxes[c]} :
            fifo' = [fifo EXCEPT ![c] = f] /\ boxes' = [boxes EXCEPT ![c] = b]
      BY <2>3
    <3>2. f \in Seq(Sent \union Foreign) /\ b \in Seq(Sent)
      BY <1>0, <3>1, NothingMore
    <3>3. fifo' \in [Channels -> Seq(Sent \union Foreign)] /\ boxes' \in [Channels -> Seq(Sent)]
      BY <1>0, <3>1, <3>2
    <3> QED
      BY <1>0, <2>1, <3>3 DEF BusOK
  <2> QED
    BY <2>1, <2>2, <2>3 DEF Stop
<1>4. ASSUME NEW c \in Channels, NodeAbort(c) PROVE BusOK'
  <2>1. boxes' = [boxes EXCEPT ![c] = <<>>] /\ fifo' = fifo /\ sends' = sends
    BY <1>4 DEF NodeAbort, TransmitAbort, appVars
  <2>2. boxes' \in [Channels -> Seq(Sent)]
    BY <1>0, <2>1, NothingMore
  <2> QED
    BY <1>0, <2>1, <2>2 DEF BusOK
<1>5. ASSUME NEW c \in Channels, NodeReceive(c) PROVE BusOK'
  <2> DEFINE q == fifo[c]
             n == Skipped(fifo[c])
  <2>1. fifo' = [fifo EXCEPT ![c] = SubSeq(q, n + 2, Len(q))] /\ boxes' = boxes /\ sends' = sends
    BY <1>5 DEF NodeReceive, ReceiveTo
  <2>2. SubSeq(q, n + 2, Len(q)) \in Seq(Sent \union Foreign)
    <3>1. n \in 0 .. Len(q)
      BY <1>0, SkippedFacts
    <3>2. q \in Seq(Sent \union Foreign)
      BY <1>0
    <3> HIDE DEF q, n
    <3> QED
      BY <3>1, <3>2
  <2> HIDE DEF q, n
  <2>3. fifo' \in [Channels -> Seq(Sent \union Foreign)]
    BY <1>0, <2>1, <2>2
  <2> QED
    BY <1>0, <2>1, <2>3 DEF BusOK
<1>6. ASSUME NEW c \in Channels, NEW k \in 1 .. Mailboxes, NodeLeave(c, k) PROVE BusOK'
  BY <1>6, LeaveKeepsBus
<1>7. ASSUME NEW c \in Senders, NEW k \in DOMAIN Desc, NEW v \in Inputs(k), SetSignal(c, k, v)
      PROVE  UNCHANGED <<sends, boxes, fifo>>
  BY <1>7 DEF SetSignal, vars, halVars
<1>8. ASSUME NEW c \in Senders, NEW dst \in {Addr[d] : d \in Channels}, SendData(c, dst) \/ SendRequest(c, DataPgn, dst)
      PROVE  BusOK'
  BY <1>8, SendDataKeepsBus, SendRequestKeepsBus
<1>9. ASSUME NEW f \in Foreign, NodeArrive(f) PROVE BusOK'
  <2>1. fifo' = Seen({}, f) /\ boxes' = boxes /\ sends' = sends
    BY <1>9 DEF NodeArrive, Arrive, appVars
  <2>2. fifo' \in [Channels -> Seq(Sent \union Foreign)]
    BY <1>0, <2>1, SeenFacts
  <2> QED
    BY <1>0, <2>1, <2>2 DEF BusOK
<1>10. CASE UNCHANGED nodeVars
  BY <1>1, <1>10 DEF nodeVars, vars, halVars, appVars
<1> QED
  BY <1>1, <1>2, <1>3, <1>4, <1>5, <1>6, <1>7, <1>8, <1>9, <1>10 DEF NodeNext

-----------------------------------------------------------------------------
(* What is wanted is received.                                             *)

DueOK ==
  /\ DOMAIN due = Channels /\ DOMAIN taken = Channels
  /\ \A c \in Channels : \A n \in due[c] :
       n \in taken[c] \/ \E k \in DOMAIN fifo[c] : Proper(fifo[c][k]) /\ fifo[c][k].data.num = n

\* A group that is asked for has its filter in a slot of the channel.
LEMMA AskedHasSlot ==
  ASSUME FilterInvariant, AskedOK, NEW c \in Channels, NEW pgn \in asked[c]
  PROVE  \E s \in BankSlots :
           /\ bank[s].can = c
           /\ bank[s].id = CanonFilter(FilterFor(c, pgn))[1]
           /\ bank[s].mask = CanonFilter(FilterFor(c, pgn))[2]
<1>1. PICK k \in DOMAIN filters[c] : filters[c][k] = CanonFilter(FilterFor(c, pgn))
  BY DEF AskedOK
<1>2. filters[c] \in Seq(Filters)
  BY DEF FilterInvariant, FilterTypeOK
<1>3. k \in 1 .. Len(filters[c]) /\ Len(filters[c]) \in Nat
  BY <1>2
<1>4. Len(filters[c]) <= Least(SlotCount[c], FiltersMax)
  BY DEF FilterInvariant, FiltersInForce
<1>5. bank[SlotFirst[c] + k - 1] = [can |-> c, id |-> filters[c][k][1], mask |-> filters[c][k][2]]
  BY DEF FilterInvariant, FiltersInForce
<1>6. Least(SlotCount[c], FiltersMax) \in Nat /\ SlotFirst[c] \in Nat
  BY SlotsAssumption DEF Least
<1>7. k - 1 \in Nat /\ k - 1 < Least(SlotCount[c], FiltersMax) /\ SlotFirst[c] + k - 1 = SlotFirst[c] + (k - 1)
  BY <1>3, <1>4, <1>6
<1>8. SlotFirst[c] + k - 1 \in BankSlots
  BY <1>7, SlotsOfChannel
<1> QED
  BY <1>1, <1>5, <1>8

(***************************************************************************)
(* A frame that a node wants when it is on the bus is accepted.            *)
(***************************************************************************)
LEMMA WantedIsAccepted ==
  ASSUME FilterInvariant, AskedOK, NEW c \in Channels, NEW f \in Sent, IsWanted(c, f.data.meaning)
  PROVE  Accepts(c, f) /\ Len(fifo[c]) < FifoSize
<1> DEFINE meant == f.data.meaning
<1>1. Made(f.id, meant.pgn, meant.dst, meant.src) /\ ~ f.std
  BY DEF Sent, Says, Frames
<1>2. started[c] /\ meant.pgn \in asked[c] /\ (HasDst(meant.pgn) => meant.dst = Addr[c]) /\ Len(fifo[c]) < FifoSize
  BY DEF IsWanted
<1> HIDE DEF meant
<1>3. PICK s \in BankSlots :
        /\ bank[s].can = c
        /\ bank[s].id = CanonFilter(FilterFor(c, meant.pgn))[1]
        /\ bank[s].mask = CanonFilter(FilterFor(c, meant.pgn))[2]
  BY <1>2, AskedHasSlot
<1>4. Passes(f, bank[s])
  <2>1. PICK id, pgn, dst, src : id = f.id /\ pgn = meant.pgn /\ dst = meant.dst /\ src = meant.src
    OBVIOUS
  <2>2. Made(id, pgn, dst, src) /\ (HasDst(pgn) => dst = Addr[c])
    BY <1>1, <1>2, <2>1
  <2>3. PICK g : g = bank[s]
    OBVIOUS
  <2>4. g.id = CanonFilter(FilterFor(c, pgn))[1] /\ g.mask = CanonFilter(FilterFor(c, pgn))[2]
    BY <1>3, <2>1, <2>3
  <2>5. Passes(f, g)
    BY <1>1, <2>1, <2>2, <2>4, GroupPasses
  <2> QED
    BY <2>3, <2>5
<1> QED
  BY <1>2, <1>3, <1>4 DEF Accepts

LEMMA SentIsProper ==
  ASSUME NEW f \in Sent
  PROVE  Proper(f)
<1>1. f \in Frames /\ f.dlc <= MaxLen
  BY DEF Sent
<1>2. f.remote \in {FALSE}
  BY <1>1 DEF Frames
<1> QED
  BY <1>1, <1>2 DEF Proper

(***************************************************************************)
(* uni_can_unihal_channel_receive_to: a message that is wanted is taken,   *)
(* or is still behind the one that is.                                     *)
(***************************************************************************)
LEMMA ReceiveKeepsDue ==
  ASSUME BusOK, DueOK, NEW c \in Channels, NodeReceive(c)
  PROVE  DueOK'
<1> DEFINE q == fifo[c]
           n == Skipped(q)
<1>1. /\ fifo' = [fifo EXCEPT ![c] = SubSeq(q, n + 2, Len(q))]
      /\ taken' = [taken EXCEPT ![c] = @ \union Nums(Received(q))]
      /\ due' = due
  BY DEF NodeReceive, ReceiveTo
<1>2. q \in Seq(Sent \union Foreign) /\ DOMAIN fifo = Channels /\ DOMAIN due = Channels /\ DOMAIN taken = Channels
  BY DEF BusOK, DueOK
<1>3. /\ n \in 0 .. Len(q)
      /\ \A k \in 1 .. n : ~ Proper(q[k])
  BY <1>2, SkippedFacts
<1>4. n < Len(q) => q[n + 1].data.num \in Nums(Received(q))
  <2> SUFFICES ASSUME n < Len(q) PROVE q[n + 1].data.num \in Nums(Received(q))
    OBVIOUS
  <2>1. Received(q) = {MessageOf(q[n + 1])}
    BY DEF Received
  <2>2. MessageOf(q[n + 1]).data = q[n + 1].data
    BY DEF MessageOf
  <2> QED
    BY <2>1, <2>2 DEF Nums
<1>5. Len(q) \in Nat /\ DOMAIN q = 1 .. Len(q)
  BY <1>2
<1>6. \A m \in due[c] : m \in taken[c] \/ \E k \in DOMAIN q : Proper(q[k]) /\ q[k].data.num = m
  BY DEF DueOK
<1> DEFINE r == SubSeq(q, n + 2, Len(q))
<1>7. \A k \in n + 2 .. Len(q) : k - (n + 1) \in DOMAIN r /\ r[k - (n + 1)] = q[k]
  <2> HIDE DEF q, n
  <2> TAKE k \in n + 2 .. Len(q)
  <2>1. k - (n + 1) \in 1 .. Len(q) - (n + 1) /\ (n + 2) + (k - (n + 1)) - 1 = k /\ n + 2 <= Len(q)
    BY <1>3, <1>5
  <2>2. DOMAIN r = 1 .. Len(q) - (n + 1)
    BY <1>2, <1>3, <1>5, <2>1
  <2>3. r[k - (n + 1)] = q[(n + 2) + (k - (n + 1)) - 1]
    BY <1>2, <1>3, <1>5, <2>1
  <2> QED
    BY <2>1, <2>2, <2>3
<1> HIDE DEF q, n, r
<1>8. ASSUME NEW m \in due[c], m \notin taken'[c]
      PROVE  \E k \in DOMAIN r : Proper(r[k]) /\ r[k].data.num = m
  <2>1. taken'[c] = taken[c] \union Nums(Received(q))
    BY <1>1, <1>2
  <2>2. PICK k \in DOMAIN q : Proper(q[k]) /\ q[k].data.num = m
    BY <1>6, <1>8, <2>1
  <2>3. k \in 1 .. Len(q) /\ k \notin 1 .. n
    BY <1>3, <1>5, <2>2
  <2>4. k # n + 1
    BY <1>3, <1>4, <1>5, <1>8, <2>1, <2>2, <2>3
  <2>5. k \in n + 2 .. Len(q)
    BY <1>3, <1>5, <2>3, <2>4
  <2> QED
    BY <1>7, <2>2, <2>5
<1>9. fifo'[c] = r
  BY <1>1, <1>2 DEF r
<1>10. \A d \in Channels : d # c => fifo'[d] = fifo[d] /\ taken'[d] = taken[d] /\ due'[d] = due[d]
  BY <1>1, <1>2
<1>11. DOMAIN due' = Channels /\ DOMAIN taken' = Channels
  BY <1>1, <1>2
<1>12. ASSUME NEW d \in Channels, NEW m \in due'[d], m \notin taken'[d]
       PROVE  \E k \in DOMAIN fifo'[d] : Proper(fifo'[d][k]) /\ fifo'[d][k].data.num = m
  <2>1. CASE d = c
    <3>1. m \in due[c] /\ m \notin taken'[c]
      BY <1>1, <1>12, <2>1
    <3>2. \E k \in DOMAIN r : Proper(r[k]) /\ r[k].data.num = m
      BY <1>8, <3>1
    <3> QED
      BY <1>9, <2>1, <3>2
  <2>2. CASE d # c
    BY <1>10, <1>12, <2>2 DEF DueOK
  <2> QED
    BY <2>1, <2>2
<1> QED
  BY <1>11, <1>12 DEF DueOK

\* Frames that appear change nothing about those that are there.
LEMMA SeenKeepsDue ==
  ASSUME BusOK, NEW senders, NEW f \in Sent \union Foreign, fifo' = Seen(senders, f), NEW c \in Channels
  PROVE  /\ \A k \in DOMAIN fifo[c] : k \in DOMAIN fifo'[c] /\ fifo'[c][k] = fifo[c][k]
         /\ c \notin senders /\ Accepts(c, f) /\ Len(fifo[c]) < FifoSize =>
              \E k \in DOMAIN fifo'[c] : fifo'[c][k] = f
<1>1. fifo \in [Channels -> Seq(Sent \union Foreign)]
  BY DEF BusOK
<1>2. fifo'[c] = IF c \notin senders /\ Accepts(c, f) /\ Len(fifo[c]) < FifoSize
                 THEN Append(fifo[c], f) ELSE fifo[c]
  BY <1>1, SeenFacts
<1> DEFINE q == fifo[c]
           a == Append(q, f)
<1>3. q \in Seq(Sent \union Foreign)
  BY <1>1
<1> HIDE DEF q
<1>4. /\ DOMAIN q = 1 .. Len(q) /\ Len(q) \in Nat /\ DOMAIN a = 1 .. Len(q) + 1
      /\ \A k \in 1 .. Len(q) : a[k] = q[k]
      /\ a[Len(q) + 1] = f
  BY <1>3, AppendFacts
<1> HIDE DEF a
<1>5. /\ \A k \in DOMAIN q : k \in DOMAIN a /\ a[k] = q[k]
      /\ Len(q) + 1 \in DOMAIN a /\ a[Len(q) + 1] = f
  BY <1>4
<1> QED
  BY <1>2, <1>5 DEF q, a

LEMMA LeaveKeepsDue ==
  ASSUME FilterInvariant, AskedOK, BusOK, DueOK, NEW c \in Channels, NEW k \in 1 .. Mailboxes, NodeLeave(c, k)
  PROVE  DueOK'
<1> DEFINE f == boxes[c][k]
<1>1. /\ fifo' = Seen({c}, f) /\ taken' = taken
      /\ due' = [d \in Channels |-> IF d # c /\ IsWanted(d, f.data.meaning)
                                    THEN due[d] \union {f.data.num} ELSE due[d]]
  BY DEF NodeLeave, Leave
<1>2. f \in Sent
  BY LeaveKeepsBus
<1> HIDE DEF f
<1>3. \A d \in Channels : \A m \in due[d] :
        m \in taken[d] \/ \E j \in DOMAIN fifo[d] : Proper(fifo[d][j]) /\ fifo[d][j].data.num = m
  BY DEF DueOK
<1>4. ASSUME NEW d \in Channels, NEW m \in due'[d], m \notin taken'[d]
      PROVE  \E j \in DOMAIN fifo'[d] : Proper(fifo'[d][j]) /\ fifo'[d][j].data.num = m
  <2>1. \A j \in DOMAIN fifo[d] : j \in DOMAIN fifo'[d] /\ fifo'[d][j] = fifo[d][j]
    BY <1>1, <1>2, SeenKeepsDue
  <2>2. CASE m \in due[d]
    <3>1. PICK j \in DOMAIN fifo[d] : Proper(fifo[d][j]) /\ fifo[d][j].data.num = m
      BY <1>1, <1>3, <1>4, <2>2
    <3> QED
      BY <2>1, <3>1
  <2>3. CASE m \notin due[d]
    <3>1. d # c /\ IsWanted(d, f.data.meaning) /\ m = f.data.num
      BY <1>1, <1>4, <2>3
    <3>2. Accepts(d, f) /\ Len(fifo[d]) < FifoSize
      BY <1>2, <3>1, WantedIsAccepted
    <3>3. \E j \in DOMAIN fifo'[d] : fifo'[d][j] = f
      <4>1. PICK senders : senders = {c}
        OBVIOUS
      <4>2. fifo' = Seen(senders, f) /\ d \notin senders
        BY <1>1, <3>1, <4>1
      <4> QED
        BY <1>2, <3>2, <4>2, SeenKeepsDue
    <3>4. Proper(f)
      BY <1>2, SentIsProper
    <3> QED
      BY <3>1, <3>3, <3>4
  <2> QED
    BY <2>2, <2>3
<1>5. DOMAIN due' = Channels /\ DOMAIN taken' = Channels
  BY <1>1 DEF DueOK
<1> QED
  BY <1>4, <1>5 DEF DueOK

LEMMA DueKeeps ==
  ASSUME FilterInvariant, AskedOK, BusOK, DueOK, [NodeNext]_nodeVars
  PROVE  DueOK'
<1>1. ASSUME UNCHANGED <<due, taken, fifo>> PROVE DueOK'
  BY <1>1 DEF DueOK
<1>2. ASSUME NEW c \in Channels,
             NodeSetup(c) \/ NodeUp(c) \/ NodeAbort(c) \/ \E pgn \in Wanted[c] : AskFor(c, pgn)
      PROVE  UNCHANGED <<due, taken, fifo>>
  BY <1>2 DEF NodeSetup, NodeUp, NodeAbort, AskFor, Setup, InitChannel, Open, TransmitAbort, FilterAdd,
              vars, halVars, appVars
<1>3. ASSUME NEW c \in Channels, NodeDown(c) PROVE DueOK'
  <2>1. due' = [due EXCEPT ![c] = {}] /\ taken' = taken /\ Stop(c)
    BY <1>3 DEF NodeDown, Close, Destroy
  <2>2. DOMAIN due = Channels /\ DOMAIN taken = Channels /\ DOMAIN fifo = Channels
    BY DEF DueOK, BusOK
  <2>3. due'[c] = {} /\ \A d \in Channels : d # c => due'[d] = due[d] /\ fifo'[d] = fifo[d]
    BY <2>1, <2>2 DEF Stop, halVars
  <2>4. DOMAIN due' = Channels
    BY <2>1, <2>2
  <2> QED
    BY <2>1, <2>2, <2>3, <2>4 DEF DueOK
<1>4. ASSUME NEW c \in Channels, NodeReceive(c) PROVE DueOK'
  BY <1>4, ReceiveKeepsDue
<1>5. ASSUME NEW c \in Channels, NEW k \in 1 .. Mailboxes, NodeLeave(c, k) PROVE DueOK'
  BY <1>5, LeaveKeepsDue
<1>6. ASSUME NEW c \in Senders,
             \/ \E k \in DOMAIN Desc : \E v \in Inputs(k) : SetSignal(c, k, v)
             \/ \E dst \in {Addr[d] : d \in Channels} : SendData(c, dst) \/ SendRequest(c, DataPgn, dst)
      PROVE  UNCHANGED <<due, taken, fifo>>
  BY <1>6 DEF SetSignal, SendData, SendRequest, Post, Transmit, vars, halVars
<1>7. ASSUME NEW f \in Foreign, NodeArrive(f) PROVE DueOK'
  <2>1. fifo' = Seen({}, f) /\ due' = due /\ taken' = taken
    BY <1>7 DEF NodeArrive, Arrive, appVars
  <2>2. \A d \in Channels : \A j \in DOMAIN fifo[d] : j \in DOMAIN fifo'[d] /\ fifo'[d][j] = fifo[d][j]
    BY <2>1, SeenKeepsDue
  <2> QED
    BY <2>1, <2>2 DEF DueOK
<1>8. CASE UNCHANGED nodeVars
  BY <1>1, <1>8 DEF nodeVars, vars, halVars, appVars
<1> QED
  BY <1>1, <1>2, <1>3, <1>4, <1>5, <1>6, <1>7, <1>8 DEF NodeNext

-----------------------------------------------------------------------------
(* The node.                                                               *)

NodeInvariant == FilterInvariant /\ DraftOK /\ AskedOK /\ BusOK /\ DueOK

LEMMA NodeAtFirst == NodeInit => NodeInvariant
<1> SUFFICES ASSUME NodeInit PROVE NodeInvariant
  OBVIOUS
<1>1. /\ asked = [c \in Channels |-> {}] /\ due = [c \in Channels |-> {}] /\ taken = [c \in Channels |-> {}]
      /\ boxes = [c \in Channels |-> <<>>] /\ fifo = [c \in Channels |-> <<>>] /\ sends = 0
  BY DEF NodeInit, Init
<1>2. AskedOK
  BY <1>1 DEF AskedOK
<1>3. BusOK
  BY <1>1, NothingMore DEF BusOK
<1>4. DueOK
  BY <1>1 DEF DueOK
<1> QED
  BY <1>2, <1>3, <1>4, FiltersAtFirst, DraftAtFirst DEF NodeInvariant

LEMMA NodeKeeps == NodeInvariant /\ [NodeNext]_nodeVars => NodeInvariant'
  BY FiltersKeep, DraftKeeps, AskedKeeps, BusKeeps, DueKeeps DEF NodeInvariant

LEMMA NodeInvariance == NodeSpec => []NodeInvariant
  BY NodeAtFirst, NodeKeeps, PTL DEF NodeSpec

(***************************************************************************)
(* A signal of a message reads as the value that signal_set was given last *)
(* for it, a SLOT signal at most one step of its scale below it but for    *)
(* the roundings of doubles, whatever is written to its neighbours: for    *)
(* every precision of doubles and every description whose signals fit into *)
(* the payload, with SLOT fields two bits shorter than that precision,     *)
(* positive scales that have all digits, and any offsets.                  *)
(***************************************************************************)
THEOREM SignalsKeep == NodeSpec => []SignalsKeepValues
<1>1. NodeInvariant => SignalsKeepValues
  BY DEF NodeInvariant, DraftOK
<1> QED
  BY <1>1, NodeInvariance, PTL

(***************************************************************************)
(* A message on the bus that a node wants (it has been granted the filter, *)
(* listens and has room) is received or still in the FIFO: for every set   *)
(* of groups and addresses and every division of the filter bank, the mask *)
(* that pgnnumber_mask computes and the identifier that pgn_create makes   *)
(* agree, and receive_to drops no message for the frames in front of it.   *)
(***************************************************************************)
THEOREM WantedAreReceived == NodeSpec => []WantedIsReceived
<1>1. NodeInvariant => WantedIsReceived
  <2> SUFFICES ASSUME NodeInvariant, NEW c \in Channels, NEW n \in due[c], n \notin taken[c]
               PROVE  n \in Nums(Queued(c))
    BY DEF WantedIsReceived
  <2>1. PICK k \in DOMAIN fifo[c] : fifo[c][k].data.num = n
    BY DEF NodeInvariant, DueOK
  <2>2. fifo[c][k] \in Queued(c)
    BY DEF Queued
  <2> QED
    BY <2>1, <2>2 DEF Nums
<1> QED
  BY <1>1, NodeInvariance, PTL

\* The group that is read from an identifier is the one that it was made of.
LEMMA NumberOfMade ==
  ASSUME NEW id, NEW pgn, NEW d, NEW src, Made(id, pgn, d, src), pgn \in {DataPgn, PGN_REQUEST}
  PROVE  PgnNumber(id) = pgn
<1>1. pgn \in Nat /\ d \in 0 .. 255
  BY DEF Made
<1>2. DataPage(id) = Page(pgn) /\ PduFormat(id) = Format(pgn) /\ PduSpecific(id) = Specific(pgn, d)
  BY CreateFields
<1>3. PgnNumber(id) = Page(pgn) * 65536 + Format(pgn) * 256 + (IF Format(pgn) < 240 THEN 0 ELSE pgn % 256)
  BY <1>2 DEF PgnNumber, ContainsDstAddr, EXT_PDU_FORMAT, Specific
<1>4. CASE pgn = DataPgn
  <2>1. PgnNumber(pgn * 256) = pgn
    BY <1>4, NodeAssumption
  <2>2. DataPage(pgn * 256) = Page(pgn)
    BY <1>1, SMT DEF DataPage, Page
  <2>3. PduFormat(pgn * 256) = Format(pgn)
    BY <1>1, SMT DEF PduFormat, Format
  <2>4. PduSpecific(pgn * 256) = pgn % 256
    BY <1>1, SMT DEF PduSpecific
  <2>5. PgnNumber(pgn * 256) = Page(pgn) * 65536 + Format(pgn) * 256 + (IF Format(pgn) < 240 THEN 0 ELSE pgn % 256)
    BY <2>2, <2>3, <2>4 DEF PgnNumber, ContainsDstAddr, EXT_PDU_FORMAT
  <2> QED
    BY <1>3, <2>1, <2>5
<1>5. CASE pgn = PGN_REQUEST
  <2>1. Page(pgn) = 0 /\ Format(pgn) = 234
    BY <1>5, SMT DEF Page, Format, PGN_REQUEST
  <2> QED
    BY <1>3, <1>5, <2>1 DEF PGN_REQUEST
<1> QED
  BY <1>4, <1>5

\* A group in the payload of a request is read as it was written.
LEMMA RequestReads == FromArray(ToArray(DataPgn)) = DataPgn
<1>1. PICK n \in Nat : n = DataPgn
  BY NodeAssumption
<1>2. DataPage(n * 256) \in 0 .. 1 /\ PduFormat(n * 256) \in 0 .. 255 /\ PduSpecific(n * 256) \in 0 .. 255
  <2>1. \A x \in Nat : x % 2 \in 0 .. 1 /\ x % 256 \in 0 .. 255
    OBVIOUS
  <2>2. (n * 256) \div 16777216 \in Nat /\ (n * 256) \div 65536 \in Nat /\ (n * 256) \div 256 \in Nat
    OBVIOUS
  <2> QED
    BY <2>1, <2>2 DEF DataPage, PduFormat, PduSpecific
<1>3. PgnNumber(n * 256) = n
  BY <1>1, NodeAssumption
<1>4. PICK a \in 0 .. 1 : a = DataPage(n * 256)
  BY <1>2
<1>5. PICK b \in 0 .. 255 : b = PduFormat(n * 256)
  BY <1>2
<1>6. PICK x \in 0 .. 255 : x = IF ContainsDstAddr(n * 256) THEN 0 ELSE PduSpecific(n * 256)
  BY <1>2
<1>7. n = a * 65536 + b * 256 + x
  BY <1>3, <1>4, <1>5, <1>6 DEF PgnNumber
<1>8. (n % 256) + ((n \div 256) % 256) * 256 + ((n \div 65536) % 4) * 65536 = n
  <2>1. n \div 256 = 256 * a + b /\ n % 256 = x
    BY <1>7, SMT
  <2>2. (256 * a + b) % 256 = b
    OBVIOUS
  <2>3. n \div 65536 = a
    BY <1>7, SMT
  <2>4. a % 4 = a
    OBVIOUS
  <2> QED
    BY <1>7, <2>1, <2>2, <2>3, <2>4
<1>9. FromArray(ToArray(n)) = (n % 256) + ((n \div 256) % 256) * 256 + ((n \div 65536) % 4) * 65536
  BY DEF FromArray, ToArray
<1> QED
  BY <1>1, <1>8, <1>9

(***************************************************************************)
(* A message that a node receives has the group, the addresses, the        *)
(* priority, the signals and the requested group that its sender meant,    *)
(* provided that other nodes send nothing that it takes for a message: for *)
(* every address and every parameter group whose number pgn_create keeps.  *)
(***************************************************************************)
THEOREM UnderstoodAreMeant == NoneUnderstood => (NodeSpec => []UnderstoodIsMeant)
<1> SUFFICES ASSUME NoneUnderstood PROVE NodeSpec => []UnderstoodIsMeant
  OBVIOUS
<1>1. ASSUME NodeInvariant, NEW c \in Channels, NEW m \in Received(fifo[c])
      PROVE  LET meant == m.data.meaning
             IN  /\ m.flags = {"EXT"}
                 /\ Priority(m.id) = J1939_PRIORITY
                 /\ PgnNumber(m.id) = meant.pgn
                 /\ SourceAddr(m.id) = meant.src
                 /\ ContainsDstAddr(m.id) => PduSpecific(m.id) = meant.dst
                 /\ meant.kind = "request" => FromArray(ToArray(m.data.payload)) = meant.values
                 /\ meant.kind = "signals" =>
                      \A k \in DOMAIN meant.values \intersect Short : ReadsAs(m.data.payload, k, meant.values[k])
  <2> DEFINE q == fifo[c]
             n == Skipped(q)
             f == q[n + 1]
             meant == m.data.meaning
  <2>1. q \in Seq(Sent \union Foreign)
    BY <1>1 DEF NodeInvariant, BusOK
  <2>2. n \in 0 .. Len(q) /\ (n < Len(q) => Proper(f))
    BY <2>1, SkippedFacts
  <2>3. n < Len(q) /\ m = MessageOf(f)
    BY <1>1 DEF Received
  <2>4. f \in Sent
    <3>1. f \in Sent \union Foreign
      BY <2>1, <2>2, <2>3
    <3> HIDE DEF f
    <3> QED
      BY <1>1, <2>2, <2>3, <3>1 DEF NoneUnderstood
  <2> HIDE DEF f, q, n
  <2>5. m.id = f.id /\ m.data = f.data /\ m.flags = IF f.std THEN {"STD"} ELSE {"EXT"}
    BY <2>3 DEF MessageOf
  <2>6. ~ f.std /\ Says(f, f.data.meaning)
    BY <2>4 DEF Sent, Frames
  <2>7. Says(f, meant) /\ m.data.payload = f.data.payload
    BY <2>5, <2>6
  <2> HIDE DEF meant
  <2>8. PICK id, pgn, dst, src : id = m.id /\ pgn = meant.pgn /\ dst = meant.dst /\ src = meant.src
    OBVIOUS
  <2>9. Made(id, pgn, dst, src) /\ pgn \in {DataPgn, PGN_REQUEST}
    BY <2>5, <2>7, <2>8 DEF Says
  <2>10. /\ Priority(id) = J1939_PRIORITY /\ SourceAddr(id) = src
         /\ PduFormat(id) = Format(pgn) /\ PduSpecific(id) = Specific(pgn, dst)
    BY <2>9, CreateFields
  <2>11. PgnNumber(id) = pgn
    BY <2>9, NumberOfMade
  <2>12. ContainsDstAddr(id) => PduSpecific(id) = dst
    BY <2>10 DEF ContainsDstAddr, Specific, EXT_PDU_FORMAT
  <2>13. meant.kind = "request" => FromArray(ToArray(m.data.payload)) = meant.values
    BY <2>7, RequestReads DEF Says
  <2>14. meant.kind = "signals" =>
           \A k \in DOMAIN meant.values \intersect Short : ReadsAs(m.data.payload, k, meant.values[k])
    BY <2>7 DEF Says
  <2> QED
    BY <2>5, <2>6, <2>8, <2>10, <2>11, <2>12, <2>13, <2>14 DEF meant
<1>2. NodeInvariant => UnderstoodIsMeant
  BY <1>1 DEF UnderstoodIsMeant
<1> QED
  BY <1>2, NodeInvariance, PTL
=============================================================================
