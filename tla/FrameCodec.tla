----------------------------- MODULE FrameCodec -----------------------------
(***************************************************************************)
(* The ten frame classes of src/frame.h as values, and their               *)
(* EncodeFramePayload, DecodeFramePayload and UpdateLength (src/frame.cc)  *)
(* as operators.                                                           *)
(*                                                                         *)
(* One record stands for an object of any class; members that differ only  *)
(* in name share a field:                                                  *)
(*   bit    exclusive_, or the reserved_ of a class that has its own;      *)
(*   word   stream_dependency_, promised_stream_id_, last_stream_id_,      *)
(*          window_size_increment_, the upper half of opaque_data_;        *)
(*   code   error_code_, the lower half of opaque_data_;                   *)
(*   data   data_, header_, header_block_fragment_,                        *)
(*          additional_debug_data_;                                        *)
(*   list   header_list_.                                                  *)
(* Flags are the set of the bits that are set.                             *)
(***************************************************************************)
EXTENDS SettingsCodec, HeaderBlock

CONSTANT
  Encodings   \* Encodings[list]: the header blocks that Table::Encode may make of
              \* a header list, with any table (module HpackSession has the tables)

Lists == DOMAIN Encodings

\* What header_list_ may be but for a list of Lists: other fields, or less of them than
\* were encoded; and fields with octets of memory behind the block.
Garbled == <<"?">>
Overread == <<"!">>

\* Lists may share blocks: the same index is another field with another table.  The
\* lengths of the strings of a block are read back as they were written, and so many
\* octets follow: strings are short enough, and begin early enough, for DecodeInteger
\* (module HpackInteger), and have no NUL.
ASSUME EncodingsAssumption ==
  /\ <<>> \in Lists /\ Encodings[<<>>] = {<<>>} /\ Overread \notin Lists
  /\ \A list \in Lists : Encodings[list] # {}
  /\ \A list \in Lists : \A block \in Encodings[list] :
       block \in Seq(Octet) /\ Outside(block) = {}

\* An octet of memory behind the payload.
Stray == -1

\* DecodeFramePayload does not return: an exception leaves it, or the process ends.
Aborted == [class |-> "aborted"]

TypeOf ==
  [DATA |-> 0, HEADERS |-> 1, PRIORITY |-> 2, RST_STREAM |-> 3, SETTINGS |-> 4,
   PUSH_PROMISE |-> 5, PING |-> 6, GOAWAY |-> 7, WINDOW_UPDATE |-> 8, CONTINUATION |-> 9]

Classes == DOMAIN TypeOf

ACK == 1
END_STREAM == 1
END_HEADERS == 4
PADDED == 8
PRIORITY == 32

Flags == {END_STREAM, END_HEADERS, PADDED, PRIORITY}

FrameObject ==
  [class : Classes, type : 0 .. 9, length : Nat, flags : SUBSET Flags, stream_id : Word,
   pad_length : Octet, bit : BOOLEAN, word : Word, code : Word, weight : Octet,
   data : Seq(Octet \union {Stray}), list : Lists \union {Garbled, Overread},
   settings : Settings]

PaddedClasses == {"DATA", "HEADERS", "PUSH_PROMISE"}

Padded(f) == f.class \in PaddedClasses /\ PADDED \in f.flags
Prioritized(f) == f.class = "PRIORITY" \/ (f.class = "HEADERS" /\ PRIORITY \in f.flags)

\* The octets between the pad length and the data.
FixedLength(f) ==
  IF Prioritized(f) THEN 5
  ELSE IF f.class \in {"RST_STREAM", "PUSH_PROMISE", "WINDOW_UPDATE"} THEN 4
  ELSE IF f.class \in {"PING", "GOAWAY"} THEN 8
  ELSE 0

\* UpdateLength
LengthUnpadded(f) ==
  IF f.class = "SETTINGS" THEN IF ACK \in f.flags THEN 0 ELSE SettingsLength(f.settings)
  ELSE FixedLength(f) + Len(f.data)
LengthOf(f) ==
  IF f.class = "SETTINGS" THEN IF ACK \in f.flags THEN 0 ELSE SettingsLength(f.settings)
  ELSE FixedLength(f) + Len(f.data) + IF Padded(f) THEN f.pad_length + 1 ELSE 0

Updated(f) == [f EXCEPT !.length = LengthOf(f)]

-----------------------------------------------------------------------------
(* Encoding.                                                               *)

\* (bit << 7) | (word & 0x7FFFFFFF): the bit lands in the last octet.
Marked(word, bit) ==
  [word EXCEPT ![1] = @ % 128, ![4] = IF bit /\ @ < 128 THEN @ + 128 ELSE @]

FixedPart(f) ==
  CASE Prioritized(f)                                -> Append(Marked(f.word, f.bit), f.weight)
    [] f.class \in {"PUSH_PROMISE", "WINDOW_UPDATE"} -> Marked(f.word, f.bit)
    [] f.class = "GOAWAY"                            -> Marked(f.word, f.bit) \o f.code
    [] f.class = "PING"                              -> f.word \o f.code
    [] f.class = "RST_STREAM"                        -> f.code
    [] OTHER                                         -> <<>>

SettingOctets(s, id) == IF id \in Listed(s) THEN <<0, id>> \o s[id] ELSE <<>>
SettingsOctets(s) ==
  SettingOctets(s, 1) \o SettingOctets(s, 2) \o SettingOctets(s, 3)
    \o SettingOctets(s, 4) \o SettingOctets(s, 5) \o SettingOctets(s, 6)

\* EncodeFramePayload; nothing writes the padding.
EncodePayload(f) ==
  IF f.class = "SETTINGS"
  THEN IF ACK \in f.flags \/ f.length = 0 THEN <<>> ELSE SettingsOctets(f.settings)
  ELSE (IF Padded(f) THEN <<f.pad_length>> ELSE <<>>) \o FixedPart(f) \o f.data

-----------------------------------------------------------------------------
(* Decoding a payload p that EncodePayload has made, for an object f that   *)
(* has the class and the flags of the header.                              *)

\* A word from its octets, each a signed char; the first without its highest bit.
WordAt(p, at) == Widened([k \in 1 .. 4 |-> p[at + k]])
MaskedWordAt(p, at) ==
  Widened([k \in 1 .. 4 |-> IF k = 1 THEN p[at + 1] % 128 ELSE p[at + k]])

\* Where the fixed part begins, what the pad length octet says, and how many
\* octets are taken for data; PUSH_PROMISE does not count its fixed part.
PadAt(f) == IF Padded(f) THEN 1 ELSE 0
PadRead(f, p) == IF Padded(f) THEN p[1] ELSE 0
DataLengthWithPadding(f, p) ==
  Len(p) - PadAt(f) - IF f.class = "PUSH_PROMISE" THEN 0 ELSE FixedLength(f)
DataLengthWithoutIndex(f, p) == Len(p) - PadRead(f, p)
DataLength(f, p) ==
  Len(p) - PadRead(f, p) - PadAt(f) - IF f.class = "PUSH_PROMISE" THEN 0 ELSE FixedLength(f)

\* A negative length converts to one of more than 2^31 octets, for which
\* UpdateBufferSize doubles a capacity for ever.
Hangs(f, p) == f.class # "SETTINGS" /\ DataLength(f, p) < 0

\* The n octets of memory behind offset at.
Slice(p, at, n) == [k \in 1 .. n |-> IF at + k <= Len(p) THEN p[at + k] ELSE Stray]

DecodeFixed(f, p) ==
  LET at == PadAt(f)
      masked == [f EXCEPT !.bit = p[at + 1] >= 128, !.word = MaskedWordAt(p, at)]
  IN CASE Prioritized(f) -> [masked EXCEPT !.weight = p[at + 5]]
       [] f.class \in {"PUSH_PROMISE", "WINDOW_UPDATE"} -> masked
       [] f.class = "GOAWAY" -> [masked EXCEPT !.code = MaskedWordAt(p, at + 4)]
       [] f.class = "PING" -> [f EXCEPT !.word = WordAt(p, at), !.code = WordAt(p, at + 4)]
       [] f.class = "RST_STREAM" -> [f EXCEPT !.code = WordAt(p, at)]
       [] OTHER -> f

DecodeData(f, p) ==
  [f EXCEPT !.pad_length = PadRead(f, p),
            !.data = Slice(p, PadAt(f) + FixedLength(f), DataLength(f, p))]

\* Table::Decode of the header block, with whatever table the receiver has: an empty
\* block leaves the list empty, any other may be decoded to any list that has it or to
\* none that was encoded.  Where Decode gives up, the length is not updated.
ListsOf(block) ==
  IF block = <<>> THEN {<<>>}
  ELSE {list \in Lists : block \in Encodings[list]} \union {Garbled}

Listing(f, list) == [f EXCEPT !.list = list]

DecodeList(f) ==
  UNION {IF MayReturn(f.data)
         THEN {Updated(Listing(f, list)) : list \in ListsOf(f.data)}
              \union IF f.data = <<>> THEN {} ELSE {Listing(f, Garbled)}
         ELSE {},
         IF MayOverread(f.data)
         THEN {Listing(f, Overread), Updated(Listing(f, Overread))} ELSE {},
         IF MayAbort(f.data) THEN {Aborted} ELSE {}}

\* A later setting overwrites an earlier one, an unknown identifier is passed over.
SettingsAt(p, id) ==
  {i \in 0 .. (Len(p) \div 6 - 1) : p[6 * i + 1] = 0 /\ p[6 * i + 2] = id}
SettingsIn(p) ==
  [id \in SettingIds |->
     IF SettingsAt(p, id) = {} THEN Defaults[id]
     ELSE Adopted(id, WordAt(p, 6 * Max(SettingsAt(p, id)) + 2))]

\* DecodeFramePayload: what it may make of the object.
DecodePayload(f, p) ==
  CASE f.class = "SETTINGS" ->
         {IF Len(p) % 6 # 0 THEN f ELSE Updated([f EXCEPT !.settings = SettingsIn(p)])}
    [] f.class \in {"PRIORITY", "RST_STREAM"} ->
         {IF Len(p) # FixedLength(f) THEN f ELSE Updated(DecodeFixed(f, p))}
    [] f.class = "HEADERS" -> DecodeList(DecodeData(DecodeFixed(f, p), p))
    [] OTHER -> {Updated(DecodeData(DecodeFixed(f, p), p))}

=============================================================================
