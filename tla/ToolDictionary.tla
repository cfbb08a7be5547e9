--------------------------- MODULE ToolDictionary ---------------------------
(***************************************************************************)
(* The dictionary of the tool: descriptions of ProtoPlexer messages, read  *)
(* from a file, by which the transmit window builds payloads and the       *)
(* receive window explains them.  A field is [name, type, offset, bit].    *)
(***************************************************************************)
EXTENDS Bits, Order, SequencesExt

CONSTANTS ByteBits  \* bits of a byte
ASSUME ByteAssumption == ByteBits \in 1 .. WordBits \div 4

Radix == Pow2[ByteBits]
Bytes == 0 .. Radix - 1

Field == [name : STRING, type : STRING, offset : Nat, bit : Int]
Entries == [is : {"good"}, id : Nat, fields : Seq(Field)] \union [is : {"skip", "bad"}]
File == [exists : BOOLEAN, entries : Seq(Entries)]

-----------------------------------------------------------------------------
(* Loading.  A file is missing (or no JSON), or a sequence of entries:     *)
(* good ones, ones that are skipped, and bad ones, at which reading ends   *)
(* with an exception.                                                      *)

Usable(entries) ==
  {k \in DOMAIN entries : entries[k].is = "good" /\ \A j \in 1 .. k : entries[j].is # "bad"}
Described(entries) == {entries[k].id : k \in Usable(entries)}

\* What was read before an exception stays; the last entry of a message counts.
TryLoadFromFile(dict, file) ==
  IF file.exists
  THEN [id \in Described(file.entries) |->
          file.entries[Max({k \in Usable(file.entries) : file.entries[k].id = id})].fields]
  ELSE dict

Loads(file) == file.exists /\ \A k \in DOMAIN file.entries : file.entries[k].is # "bad"

Dictionary(first, second) ==
  IF Loads(first) THEN TryLoadFromFile(<<>>, first)
  ELSE TryLoadFromFile(TryLoadFromFile(<<>>, first), second)

-----------------------------------------------------------------------------
(* Numbers as bytes.                                                       *)

Width == [u8 |-> 1, u16le |-> 2, u32le |-> 4, u32be |-> 4]
IsNumber(f) == f.type \in DOMAIN Width
MaxValue(type) == Pow2[ByteBits * Width[type]] - 1

Weight(k) == Pow2[ByteBits * (k - 1)]
Lowest(v, w) == [k \in 1 .. w |-> (v \div Weight(k)) % Radix]
Encoded(type, v) ==
  IF type = "u32be" THEN Reverse(Lowest(v, Width[type])) ELSE Lowest(v, Width[type])
Decoded(type, bytes) ==
  LET low == IF type = "u32be" THEN Reverse(bytes) ELSE bytes
      sum[k \in 0 .. Len(low)] == IF k = 0 THEN 0 ELSE sum[k - 1] + low[k] * Weight(k)
  IN  sum[Len(low)]

-----------------------------------------------------------------------------
(* Building a payload: bytes from offset on are written, those before that *)
(* are not there yet are 0.                                                *)

Put(data, offset, bytes) ==
  [k \in 1 .. (IF Len(data) > offset + Len(bytes) THEN Len(data) ELSE offset + Len(bytes)) |->
     IF k > offset /\ k <= offset + Len(bytes) THEN bytes[k - offset]
     ELSE IF k <= Len(data) THEN data[k] ELSE 0]

At(data, offset) == IF offset < Len(data) THEN data[offset + 1] ELSE 0

\* Faulty: the other bits of the byte are cleared.
WithBitOnly(byte, bit, v) == v * Pow2[bit]
WithBit(byte, bit, v) == byte - Bit(byte, bit) * Pow2[bit] + v * Pow2[bit]

WriteField(data, f, v) ==
  IF IsNumber(f) THEN Put(data, f.offset, Encoded(f.type, v))
  ELSE IF f.type = "bit" /\ f.bit \in 0 .. ByteBits - 1
  THEN Put(data, f.offset, <<WithBit(At(data, f.offset), f.bit, v)>>)
  ELSE IF f.type = "bytes" /\ v # <<>> THEN Put(data, f.offset, v)
  ELSE data

\* ProtoPlexerFieldState: what is typed for a name, a number, a check box and a text.
Kind(f) == IF IsNumber(f) THEN "value" ELSE IF f.type = "bit" THEN "bool_value" ELSE "bytes_hex"
Given(typed, f) == typed[Kind(f)][f.name]

\* update_payload_from_fields
PayloadOf(fields, typed) ==
  LET written[k \in 0 .. Len(fields)] ==
        IF k = 0 THEN <<>> ELSE WriteField(written[k - 1], fields[k], Given(typed, fields[k]))
  IN  written[Len(fields)]

-----------------------------------------------------------------------------
(* FormatPayloadSummary: fields that the payload is too short for, and     *)
(* those of the types u16le and bytes, are left out.                       *)

IsShown(f, data) ==
  \/ f.type \in {"u8", "u32le", "u32be"} /\ f.offset + Width[f.type] <= Len(data)
  \/ f.type = "bit" /\ f.bit \in 0 .. ByteBits - 1 /\ f.offset < Len(data)

Shown(f, data) ==
  IF f.type = "bit" THEN Bit(data[f.offset + 1], f.bit)
  ELSE Decoded(f.type, SubSeq(data, f.offset + 1, f.offset + Width[f.type]))

Summary(fields, data) ==
  LET shown == Picked(fields, {k \in DOMAIN fields : IsShown(fields[k], data)})
  IN  [k \in DOMAIN shown |-> <<shown[k].name, Shown(shown[k], data)>>]
=============================================================================
