---------------------------- MODULE ToolWindows ----------------------------
(***************************************************************************)
(* The windows of the tool: the connect window, the receive window with    *)
(* its filter, and, at the other end of the bus, the transmit window of a  *)
(* peer that has read the same dictionary.                                 *)
(*                                                                         *)
(* The receive window is drawn by the user interface while its handler     *)
(* runs in the worker thread, and nothing keeps them apart.  What a data   *)
(* race or an access past the end of a list leads to is undefined: the     *)
(* model goes no further (broken).                                         *)
(***************************************************************************)
EXTENDS ToolDevices, ToolDictionary

CONSTANTS
  First, Second,  \* the two files of the dictionary
  Ids,            \* identifiers of messages that the peer sends
  RawIds,         \* those of raw frames, which are also put on the ignore list
  TypedNumbers,   \* numbers that the peer types into a field
  TypedBytes,     \* bytes that it types
  MaxReceived,    \* how many messages are received at most
  MaxFilters      \* how long the ignore list gets at most

ASSUME ToolAssumption ==
  /\ First \in File /\ Second \in File
  /\ TypedNumbers \subseteq Nat /\ TypedBytes \subseteq Seq(Bytes)

VARIABLES
  all,         \* all[k]: identifiers of the messages in m_msgs_raw and m_msgs_pp
  shown,       \* shown[k]: m_msgs_raw_filtered and m_msgs_pp_filtered
  filter,      \* m_filter
  ignored,     \* m_filter_list
  saved,       \* filter.json
  selection,   \* m_filter_selection, from 1; 0 if nothing was ever selected
  handler,     \* "idle", or the list that receiveMsg has appended to
  row,         \* the message appended: its fields, what was typed, its data
  received,    \* how many messages have been received
  broken       \* something undefined has happened

listsVars == <<all, shown>>
filterVars == <<filter, ignored, saved, selection>>
rxVars == <<listsVars, handler, row, received>>
windowVars == <<rxVars, filterVars, broken>>
toolVars == <<deviceVars, windowVars>>

Lists == {"raw", "pp"}
Dict == Dictionary(First, Second)
Fields(id) == IF id \in DOMAIN Dict THEN Dict[id] ELSE <<>>

NoRow == [fields |-> <<>>, typed |-> <<>>, data |-> <<>>]

ToolInit ==
  /\ DevicesInit
  /\ all = [k \in Lists |-> <<>>] /\ shown = [k \in Lists |-> <<>>]
  /\ filter = FALSE /\ ignored = <<>> /\ saved = <<>> /\ selection = 0
  /\ handler = "idle" /\ row = NoRow /\ received = 0
  /\ broken = FALSE

-----------------------------------------------------------------------------
(* The transmit window of the peer.  A number is clamped by every field    *)
(* that shows it, a check box is on or off, and a message without fields   *)
(* carries bytes.                                                          *)

NamesOf(fields, kind) == {f.name : f \in {g \in ToSet(fields) : Kind(g) = kind}}
Clamped(fields, name, n) ==
  Min({n} \union {MaxValue(f.type) : f \in {g \in ToSet(fields) : IsNumber(g) /\ g.name = name}})

Typed(fields) ==
  [value : {[name \in NamesOf(fields, "value") |-> Clamped(fields, name, n[name])] :
              n \in [NamesOf(fields, "value") -> TypedNumbers]},
   bool_value : [NamesOf(fields, "bool_value") -> {0, 1}],
   bytes_hex : [NamesOf(fields, "bytes_hex") -> TypedBytes]]

Rows(id) ==
  IF Fields(id) = <<>> THEN {[NoRow EXCEPT !.data = bytes] : bytes \in TypedBytes}
  ELSE {[fields |-> Fields(id), typed |-> typed, data |-> PayloadOf(Fields(id), typed)]
          : typed \in Typed(Fields(id))}

-----------------------------------------------------------------------------
(* The handler of the receive window.  A message is received when it is    *)
(* sent; it gets lost if the tool is not connected.                        *)

FilterMatch(key) == filter => key \notin ToSet(ignored)

ReceiveBegin(list, id, rows) ==
  /\ ~ broken
  /\ handler = "idle" /\ received < MaxReceived
  /\ link # SelectDevice
  /\ handler' = list
  /\ all' = [all EXCEPT ![list] = Append(@, id)]
  /\ row' \in rows
  /\ received' = received + 1
  /\ UNCHANGED <<deviceVars, shown, filterVars, broken>>

ReceiveEnd ==
  /\ ~ broken /\ handler # "idle"
  /\ handler' = "idle"
  /\ shown' = [shown EXCEPT ![handler] =
                 IF FilterMatch(Last(all[handler])) THEN Append(@, Len(all[handler])) ELSE @]
  /\ row' = NoRow
  /\ UNCHANGED <<deviceVars, all, received, filterVars, broken>>

-----------------------------------------------------------------------------
(* The receive window.  Every frame reads the lists, every click changes   *)
(* some of them: both are undefined while the handler is at work.          *)

Race == broken' = (handler # "idle")

RebuildFilter ==
  shown' = [k \in Lists |->
              Picked([i \in DOMAIN all[k] |-> i],
                     {i \in DOMAIN all[k] : filter' => all[k][i] \notin ToSet(ignored')})]

Draw == ~ broken /\ DrawLabel /\ Race /\ UNCHANGED <<rxVars, filterVars>>

\* Clicks outside the receive window, or none.
Click ==
  /\ ~ broken
  /\ NoClick \/ Refresh \/ Connect \/ Disconnect \/ \E k \in DOMAIN Units : Choose(k)
  /\ UNCHANGED windowVars

Here ==
  /\ ~ broken
  /\ EndFrame
  /\ Race
  /\ UNCHANGED <<handle, listVars, deviceIdx, link, changes, handler, row, received>>

Clear ==
  /\ Here
  /\ all' = [k \in Lists |-> <<>>] /\ shown' = [k \in Lists |-> <<>>]
  /\ UNCHANGED filterVars

\* The check box rebuilds the lists, the cross of the filter window does not.
CheckFilter ==
  /\ Here
  /\ filter' = ~ filter
  /\ UNCHANGED <<ignored, saved, selection>>
  /\ RebuildFilter
  /\ UNCHANGED all

CloseFilter ==
  /\ Here
  /\ filter /\ filter' = FALSE
  /\ UNCHANGED <<listsVars, ignored, saved, selection>>

Select(k) ==
  /\ Here
  /\ filter /\ k \in DOMAIN ignored
  /\ selection' = k
  /\ UNCHANGED <<listsVars, filter, ignored, saved>>

AddIgnored(id) ==
  /\ filter /\ Len(ignored) < MaxFilters
  /\ Here
  /\ ignored' = Append(ignored, id)
  /\ saved' = ignored'
  /\ UNCHANGED <<filter, selection>>
  /\ RebuildFilter
  /\ UNCHANGED all

\* Without a selection, the first entry goes; the file keeps it.
Selected == IF selection \in DOMAIN ignored THEN selection ELSE 1
\* Faulty: the lists are not rebuilt.
RemoveIgnoredOnly ==
  /\ filter /\ ignored # <<>>
  /\ Here
  /\ ignored' = RemoveAt(ignored, Selected)
  /\ UNCHANGED <<filter, saved, selection, listsVars>>
RemoveIgnored ==
  /\ filter /\ ignored # <<>>
  /\ Here
  /\ ignored' = RemoveAt(ignored, Selected)
  /\ UNCHANGED <<filter, saved, selection>>
  /\ RebuildFilter
  /\ UNCHANGED all

\* There is no entry to erase.
RemoveNothing ==
  /\ ~ broken /\ filter /\ ignored = <<>> /\ label # Undrawn
  /\ broken' = TRUE
  /\ UNCHANGED <<deviceVars, rxVars, filterVars>>

\* The tool ends and is started again: filterLoad.  For a bound, only with another list in the file.
Restart ==
  /\ ~ broken /\ ignored # saved /\ label = Undrawn /\ handler = "idle"
  /\ filter' = FALSE /\ ignored' = saved /\ selection' = 0
  /\ all' = [k \in Lists |-> <<>>] /\ shown' = [k \in Lists |-> <<>>]
  /\ inited' = Idle(providers) /\ devices' = <<>> /\ names' = <<>> /\ moved' = {} /\ deviceIdx' = 1
  /\ link' = SelectDevice
  /\ UNCHANGED <<providers, handle, label, changes, handler, row, received, saved, broken>>

Plug(u) == ~ broken /\ Change(u) /\ UNCHANGED windowVars

ToolNext ==
  \/ \E u \in ToSet(Units) : Plug(u)
  \/ Draw \/ Click
  \/ \E id \in Ids : ReceiveBegin("pp", id, Rows(id))
  \/ \E id \in RawIds : ReceiveBegin("raw", id, {NoRow}) \/ AddIgnored(id)
  \/ ReceiveEnd
  \/ Clear \/ CheckFilter \/ CloseFilter \/ RemoveIgnored \/ RemoveNothing
  \/ \E k \in 1 .. MaxFilters : Select(k)
  \/ Restart

ToolSpec == ToolInit /\ [][ToolNext]_toolVars

-----------------------------------------------------------------------------
(* Properties.                                                             *)

(***************************************************************************)
(* As long as the filter is on, the tables show the messages whose         *)
(* identifiers are not ignored, all of them, in the order in which they    *)
(* came; and when it is off, no message twice and none that is gone:       *)
(* through every sequence of clicks between which messages are received.   *)
(***************************************************************************)
TablesFollowTheFilter ==
  ~ broken /\ handler = "idle" =>
    \A k \in Lists :
      /\ \A i \in DOMAIN shown[k] : shown[k][i] \in DOMAIN all[k]
      /\ \A i, j \in DOMAIN shown[k] : i < j => shown[k][i] < shown[k][j]
      /\ filter => ToSet(shown[k]) = {i \in DOMAIN all[k] : all[k][i] \notin ToSet(ignored)}

\* The bits that a field occupies in a payload; a later field overwrites those of an earlier one.
Cells(f, v) ==
  IF f.type = "bit" THEN {<<f.offset, f.bit>>}
  ELSE (f.offset .. f.offset + (IF f.type = "bytes" THEN Len(v)
                                ELSE IF IsNumber(f) THEN Width[f.type] ELSE 0) - 1)
         \X (0 .. ByteBits - 1)

(***************************************************************************)
(* What the peer typed into a field is what the summary shows, for every   *)
(* field of a type that it shows and that no later field overwrites.       *)
(***************************************************************************)
TypedIsShown ==
  \A i \in DOMAIN row.fields :
    LET f == row.fields[i]
    IN  (/\ f.type \in {"u8", "u32le", "u32be", "bit"}
         /\ f.type = "bit" => f.bit \in 0 .. ByteBits - 1
         /\ \A j \in i + 1 .. Len(row.fields) :
              Cells(f, Given(row.typed, f))
                \intersect Cells(row.fields[j], Given(row.typed, row.fields[j])) = {}) =>
        <<f.name, Given(row.typed, f)>> \in ToSet(Summary(row.fields, row.data))
=============================================================================
