---------------------------- MODULE HpackInteger ----------------------------
(***************************************************************************)
(* EncodeInteger and DecodeInteger of src/hpack/hpack.cc, octet by octet:  *)
(* one behavior encodes one integer at some position of a header block and *)
(* decodes it again from that position.  Both are loops over a Buffer, so  *)
(* an iteration of a loop is a step.                                       *)
(*                                                                         *)
(* uint32_t arithmetic is modelled by unbounded integers: MaxInput keeps   *)
(* every intermediate sum between -2^31 and 2^31, where an integer and its *)
(* residue modulo 2^32 determine each other.                               *)
(***************************************************************************)
EXTENDS HpackFormat, Sequences

CONSTANTS
  Inputs,       \* the integers to encode
  Positions,    \* the offsets in the header block where the encoding starts
  LeadOctets,   \* what the octets of the block before that position may be
  StaleOctets,  \* what Buffer::Resize may expose: octets nobody wrote
  MaxInput,     \* bound on Inputs and Positions
  MaxKept       \* bound on the octets of an encoding that a cut block keeps

ASSUME InputsAssumption ==
  /\ MaxInput \in Nat /\ MaxInput < 2097152
  /\ Inputs \subseteq 0..MaxInput
  /\ Positions \subseteq 0..MaxInput
  /\ LeadOctets \subseteq 0..255
  /\ StaleOctets \subseteq 0..255
  /\ MaxKept \in Nat

VARIABLES
  value,   \* the integer handed to EncodeInteger
  n,       \* prefix_length
  high,    \* prefix_dummy & ~prefix_max[n]: the bits above the prefix
  start,   \* offset of the encoding in the header block
  buf,     \* the header block
  i,       \* EncodeInteger's i: what is left to encode
  room,    \* octets reserved by Resize and not yet written
  offset,  \* DecodeInteger's offset
  acc,     \* DecodeInteger's i: the integer so far
  p,       \* DecodeInteger's p: the weight of the next octet
  cut,     \* the block ends before the encoding does
  pc

vars == <<value, n, high, start, buf, i, room, offset, acc, p, cut, pc>>

input == <<value, n, high, start>>   \* chosen once
encoder == <<buf, i, room>>
decoder == <<offset, acc, p, cut>>

Repeated(octet, k) == [j \in 1..k |-> octet]

\* buff.Get(idx), as the code's arithmetic sees it
Get(idx) == IF idx >= Len(buf) THEN 0 ELSE SignedChar(buf[idx + 1])

TypeOK ==
  /\ value \in Inputs
  /\ n \in 1..8
  /\ high \in {0, PrefixMax[n] + 1} /\ high + PrefixMax[n] <= 255
  /\ start \in Positions
  /\ buf \in Seq(0..255)
  /\ i \in Nat /\ room \in Nat /\ offset \in Nat /\ p \in Nat /\ acc \in Int
  /\ cut \in BOOLEAN
  /\ pc \in {"encode", "more", "decode", "octet", "done"}

Init ==
  /\ value \in Inputs
  /\ n \in 1..8
  /\ high \in {0, PrefixMax[n] + 1} /\ high + PrefixMax[n] <= 255
  /\ start \in Positions
  /\ \E octet \in LeadOctets : buf = Repeated(octet, start)
  /\ i = 0 /\ room = 0 /\ offset = start /\ acc = 0 /\ p = 1 /\ cut = FALSE
  /\ pc = "encode"

\* The integer fits the prefix: Resize(1) and one Set.
EncodeShort ==
  /\ pc = "encode"
  /\ value < PrefixMax[n]
  /\ buf' = Append(buf, high + value)
  /\ pc' = "decode"
  /\ UNCHANGED <<input, i, room, decoder>>

\* What Resize reserves after the prefix octet.
RoomShortByOne(i0, m) == (i0 - m) \div 128
Room(i0, m) == 1 + (i0 - m) \div 128

\* Resize(2 + (i - prefix_max) / 128), the prefix filled with ones, and the rest.
EncodeLong ==
  /\ pc = "encode"
  /\ value >= PrefixMax[n]
  /\ buf' = Append(buf, high + PrefixMax[n])
  /\ i' = value - PrefixMax[n]
  /\ room' = Room(value, PrefixMax[n])
  /\ pc' = "more"
  /\ UNCHANGED <<input, decoder>>

\* An octet with the continuation bit.
UnmarkedOctet(k) == k % 128
ContinuedOctet(k) == (k % 128) + 128

\* An iteration of while(i >= 128).
EncodeMore ==
  /\ pc = "more"
  /\ i >= 128
  /\ buf' = Append(buf, ContinuedOctet(i))
  /\ i' = i \div 128
  /\ room' = room - 1
  /\ UNCHANGED <<input, decoder, pc>>

\* The last Set.  The octets Resize reserved and nobody wrote stay in the block.
EncodeLast ==
  /\ pc = "more"
  /\ i < 128
  /\ \E octet \in StaleOctets :
       buf' = Append(buf, i) \o Repeated(octet, room - 1)
  /\ room' = 0
  /\ pc' = "decode"
  /\ UNCHANGED <<input, i, decoder>>

\* The header block reaches Decode in two frames, HEADERS and CONTINUATION, of
\* which it is given the first only.
CutBlock ==
  /\ pc = "decode" /\ ~cut
  /\ \E kept \in 1 .. MaxKept :
       /\ start + kept < Len(buf)
       /\ buf' = SubSeq(buf, 1, start + kept)
  /\ cut' = TRUE
  /\ UNCHANGED <<input, i, room, offset, acc, p, pc>>

UnmaskedPrefix(octet, m) == octet
Prefix(octet, m) == octet % (m + 1)

\* The prefix: buff.Get(offset++) & prefix_max[n].
DecodePrefix ==
  /\ pc = "decode"
  /\ acc' = Prefix(buf[offset + 1], PrefixMax[n])
  /\ offset' = offset + 1
  /\ pc' = IF acc' >= PrefixMax[n] THEN "octet" ELSE "done"
  /\ UNCHANGED <<input, encoder, p, cut>>

\* The block ends inside the integer: return 0.
DecodeTruncated ==
  /\ pc = "octet"
  /\ offset >= Len(buf)
  /\ acc' = 0
  /\ pc' = "done"
  /\ UNCHANGED <<input, encoder, offset, p, cut>>

\* An iteration of the do-while: the octet added is buff.Get(offset & 127), the
\* continuation bit tested is that of buff.Get(offset++).
DecodeOctet ==
  /\ pc = "octet"
  /\ offset < Len(buf)
  /\ acc' = acc + Get(offset % 128) * p
  /\ p' = p * 128
  /\ offset' = offset + 1
  /\ pc' = IF buf[offset + 1] >= 128 THEN "octet" ELSE "done"
  /\ UNCHANGED <<input, encoder, cut>>

Next ==
  \/ EncodeShort \/ EncodeLong \/ EncodeMore \/ EncodeLast
  \/ CutBlock
  \/ DecodePrefix \/ DecodeTruncated \/ DecodeOctet

Spec == Init /\ [][Next]_vars

-----------------------------------------------------------------------------

\* Below PrefixMax[n] + 256, and in the first 128 octets of a block, the decoded
\* integer is Carried(value, n): the integer itself up to PrefixMax[n] + 127.  If
\* the block was cut inside the integer it is 0, never another integer.
CarriedInteger ==
  pc = "done" /\ value < PrefixMax[n] + 256 /\ start + 2 < 128
    => acc = Carried(value, n) \/ (cut /\ acc = 0)

\* In that range DecodeInteger also stops where EncodeInteger stopped, whatever
\* the position: what follows the integer in the block is read from its start.
NothingLeftOver ==
  pc = "done" /\ value < PrefixMax[n] + 256 => offset = Len(buf)

\* The octets written never exceed those reserved: Resize is large enough for
\* every integer, though it is not exact.
RoomSuffices == pc = "more" => room >= 1

=============================================================================
