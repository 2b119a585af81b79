--------------------------- MODULE SettingsCodec ---------------------------
(***************************************************************************)
(* Settings (src/settings.h) and the payload of a SETTINGS frame           *)
(* (SettingsFrame of src/frame.cc).  Settings are a function from the      *)
(* identifiers to 32-bit values; a value is the tuple of its four octets,  *)
(* the most significant one first, because the decoding treats octets      *)
(* differently.  A payload is the function from the identifiers it lists   *)
(* to their values: EncodeFramePayload lists each at most once.            *)
(***************************************************************************)
EXTENDS Integers, FiniteSets

Octet == 0 .. 255
Word == [1 .. 4 -> Octet]

HEADER_TABLE_SIZE == 1
ENABLE_PUSH == 2
MAX_CONCURRENT_STREAMS == 3
INITIAL_WINDOW_SIZE == 4
MAX_FRAME_SIZE == 5
MAX_HEADER_LIST_SIZE == 6

SettingIds == 1 .. 6

Zero == <<0, 0, 0, 0>>
One == <<0, 0, 0, 1>>
UINT32_MAX == <<255, 255, 255, 255>>
MinFrameSize == <<0, 0, 64, 0>>
MaxFrameSize == <<0, 255, 255, 255>>

Settings == {s \in [SettingIds -> Word] : s[ENABLE_PUSH] \in {Zero, One}}

\* The member initializers of class Settings.
Defaults ==
  [id \in SettingIds |->
     CASE id = HEADER_TABLE_SIZE   -> <<0, 0, 16, 0>>
       [] id = ENABLE_PUSH         -> One
       [] id = INITIAL_WINDOW_SIZE -> <<0, 0, 255, 255>>
       [] id = MAX_FRAME_SIZE      -> MinFrameSize
       [] OTHER                    -> UINT32_MAX]

ListedButTableSize(s) == {id \in 2 .. 6 : s[id] # Defaults[id]}
Listed(s) == {id \in SettingIds : s[id] # Defaults[id]}

\* EncodeFramePayload: only what differs from the defaults.
EncodeSettings(s) == [id \in Listed(s) |-> s[id]]

\* UpdateLength
SettingsLength(s) == 6 * Cardinality(Listed(s))

\* (uint32_t)buff[i] << 24 | ...: an octet above 127 is a negative char, whose
\* sign fills every octet before it.
Widened(w) ==
  [k \in 1 .. 4 |-> IF \E j \in (k + 1) .. 4 : w[j] >= 128 THEN 255 ELSE w[k]]

ClampFrameSize(w) ==
  IF w[1] = 0 /\ w[2] = 0 /\ w[3] < 64 THEN MinFrameSize
  ELSE IF w[1] > 0 THEN MaxFrameSize
  ELSE w

Adopted(id, w) ==
  IF id = ENABLE_PUSH THEN IF w = Zero THEN Zero ELSE One
  ELSE IF id = MAX_FRAME_SIZE THEN ClampFrameSize(w)
  ELSE w

\* DecodeFramePayload starts from the defaults.
DecodeListed(payload) == [id \in DOMAIN payload |-> Adopted(id, Widened(payload[id]))]
DecodeSettings(payload) ==
  [id \in SettingIds |->
     IF id \in DOMAIN payload THEN Adopted(id, Widened(payload[id])) ELSE Defaults[id]]

\* The settings that survive: what is sent has no octet above 127 but the first,
\* and the frame size is one the protocol allows.
Portable(s) ==
  /\ \A id \in Listed(s) : \A k \in 2 .. 4 : s[id][k] < 128
  /\ s[MAX_FRAME_SIZE][1] = 0
  /\ s[MAX_FRAME_SIZE][2] > 0 \/ s[MAX_FRAME_SIZE][3] >= 64

=============================================================================
