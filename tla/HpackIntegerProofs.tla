------------------------- MODULE HpackIntegerProofs -------------------------
(***************************************************************************)
(* What EncodeInteger and DecodeInteger do, for every integer, prefix,     *)
(* position and content of the header block: Resize makes room enough for  *)
(* any integer, and below PrefixMax[n] + 256 the decoder stops where the   *)
(* encoder stopped and has read Carried(value, n).  That is what           *)
(* Carried stands for in the modules of header lists.                      *)
(***************************************************************************)
EXTENDS HpackInteger, TLAPS

m == PrefixMax[n]

-----------------------------------------------------------------------------
(* Arithmetic.                                                             *)

LEMMA PrefixMaxes ==
  ASSUME NEW k \in 1 .. 8
  PROVE  PrefixMax[k] \in {1, 3, 7, 15, 31, 63, 127, 255}
  BY DEF PrefixMax

\* The prefix is read as it was written, whatever the bits above it.
LEMMA PrefixRead ==
  ASSUME NEW w \in Nat, NEW x \in Nat, x <= w, NEW h, h = 0 \/ h = w + 1
  PROVE  Prefix(h + x, w) = x
<1>1. x % (w + 1) = x /\ (w + 1 + x) % (w + 1) = x
  OBVIOUS
<1>2. QED
  BY <1>1 DEF Prefix

\* A septet less leaves at least one octet less to write.
LEMMA RoomShrinks ==
  ASSUME NEW k \in Nat, k >= 128
  PROVE  /\ k \div 128 \in Nat
         /\ 1 + (k \div 128) \div 128 <= k \div 128
  OBVIOUS

LEMMA RoomCounts ==
  ASSUME NEW k \in Nat
  PROVE  1 + k \div 128 \in Nat /\ 1 + k \div 128 >= 1
  OBVIOUS

LEMMA OctetTypes ==
  ASSUME NEW k \in Nat
  PROVE  ContinuedOctet(k) \in 0 .. 255
  BY DEF ContinuedOctet

\* Of an integer between 128 and 255, the octet with the continuation bit is the
\* integer itself, and 1 is left.
LEMMA TwoOctets ==
  ASSUME NEW k \in 128 .. 255
  PROVE  ContinuedOctet(k) = k /\ k \div 128 = 1 /\ SignedChar(k) = k - 256
  BY DEF ContinuedOctet, SignedChar

LEMMA RepeatedType ==
  ASSUME NEW octet \in 0 .. 255, NEW k \in Nat
  PROVE  Repeated(octet, k) \in Seq(0 .. 255) /\ Len(Repeated(octet, k)) = k
  BY DEF Repeated

-----------------------------------------------------------------------------
(* Type correctness and the room.                                          *)

\* The octets still to be written fit what Resize reserved.
RoomLeft == pc = "more" => room >= 1 + i \div 128

\* The encoding starts where the decoder will.
Begun ==
  /\ pc \in {"encode", "more", "decode"} => offset = start
  /\ pc = "encode" => Len(buf) = start
  /\ pc \in {"more", "decode"} => Len(buf) >= start + 1

Types == TypeOK /\ RoomLeft /\ Begun

LEMMA ChosenInputs ==
  /\ Inputs \subseteq Nat /\ Positions \subseteq Nat
  /\ LeadOctets \subseteq 0 .. 255 /\ StaleOctets \subseteq 0 .. 255
  BY InputsAssumption, SMT

LEMMA TypesInit == Init => Types
<1> SUFFICES ASSUME Init PROVE Types
  OBVIOUS
<1>1. start \in Nat
  BY ChosenInputs DEF Init
<1>2. buf \in Seq(0 .. 255) /\ Len(buf) = start
  <2>1. PICK octet \in LeadOctets : buf = Repeated(octet, start)
    BY DEF Init
  <2>2. octet \in 0 .. 255
    BY <2>1, ChosenInputs
  <2>3. QED
    BY <1>1, <2>1, <2>2, RepeatedType
<1>3. TypeOK
  <2>1. i \in Nat /\ room \in Nat /\ offset \in Nat /\ p \in Nat /\ acc \in Int
    BY <1>1 DEF Init
  <2>2. cut \in BOOLEAN /\ pc = "encode"
    BY DEF Init
  <2>3. /\ value \in Inputs /\ n \in 1 .. 8 /\ start \in Positions
        /\ high \in {0, PrefixMax[n] + 1} /\ high + PrefixMax[n] <= 255
    BY DEF Init
  <2>4. QED
    BY <1>2, <2>1, <2>2, <2>3 DEF TypeOK
<1>4. pc = "encode" /\ offset = start
  BY DEF Init
<1>5. QED
  BY <1>2, <1>3, <1>4 DEF Types, RoomLeft, Begun

LEMMA Numbers ==
  ASSUME TypeOK
  PROVE  /\ value \in Nat /\ start \in Nat
         /\ m \in 1 .. 255 /\ high \in Nat /\ high \in {0, m + 1} /\ high + m <= 255
<1>1. value \in Nat /\ start \in Nat
  BY ChosenInputs DEF TypeOK
<1>2. n \in 1 .. 8 /\ high \in {0, m + 1} /\ high + m <= 255
  BY DEF TypeOK, m
<1>3. m \in {1, 3, 7, 15, 31, 63, 127, 255}
  BY <1>2, PrefixMaxes DEF m
<1>4. m \in 1 .. 255 /\ m + 1 \in Nat
  BY <1>3
<1>5. QED
  BY <1>1, <1>2, <1>4

\* An octet more.
LEMMA OctetAppended ==
  ASSUME NEW b \in Seq(0 .. 255), NEW octet \in 0 .. 255
  PROVE  /\ Append(b, octet) \in Seq(0 .. 255)
         /\ Len(Append(b, octet)) = Len(b) + 1
         /\ Append(b, octet)[Len(b) + 1] = octet
         /\ \A k \in 1 .. Len(b) : Append(b, octet)[k] = b[k]
  OBVIOUS

LEMMA OctetsFollow ==
  ASSUME NEW S, NEW b \in Seq(S), NEW c \in Seq(S)
  PROVE  /\ b \o c \in Seq(S)
         /\ Len(b \o c) = Len(b) + Len(c)
         /\ \A k \in 1 .. Len(b) : (b \o c)[k] = b[k]
  OBVIOUS

LEMMA OctetsKept ==
  ASSUME NEW S, NEW b \in Seq(S), NEW l \in Nat, l <= Len(b)
  PROVE  /\ SubSeq(b, 1, l) \in Seq(S)
         /\ Len(SubSeq(b, 1, l)) = l
         /\ \A k \in 1 .. l : SubSeq(b, 1, l)[k] = b[k]
  OBVIOUS

LEMMA OctetAt ==
  ASSUME NEW S, NEW b \in Seq(S), NEW k \in 1 .. Len(b)
  PROVE  b[k] \in S
  OBVIOUS

LEMMA EncodeTypes ==
  ASSUME Types, EncodeShort \/ EncodeLong \/ EncodeMore
  PROVE  Types'
<1>1. /\ TypeOK /\ UNCHANGED <<input, decoder>>
      /\ buf \in Seq(0 .. 255) /\ i \in Nat /\ room \in Nat
  BY DEF Types, TypeOK, EncodeShort, EncodeLong, EncodeMore
<1>2. /\ value \in Nat /\ start \in Nat
      /\ m \in 1 .. 255 /\ high \in Nat /\ high + m <= 255
  BY <1>1, Numbers
<1>3. CASE EncodeShort
  <2>1. high + value \in 0 .. 255 /\ buf' = Append(buf, high + value)
    <3>1. value < m /\ buf' = Append(buf, high + value)
      BY <1>3 DEF EncodeShort, m
    <3>2. QED
      BY <1>2, <3>1
  <2>2. buf' \in Seq(0 .. 255) /\ Len(buf') = Len(buf) + 1
    BY <1>1, <2>1, OctetAppended, ZenonT(30)
  <2>3. TypeOK' /\ pc' = "decode"
    BY <1>1, <1>3, <2>2 DEF EncodeShort, TypeOK, input, decoder
  <2>4. offset = start /\ Len(buf) = start
    BY <1>3 DEF EncodeShort, Types, Begun
  <2>5. QED
    BY <1>1, <1>2, <2>2, <2>3, <2>4 DEF Types, RoomLeft, Begun, input, decoder
<1>4. CASE EncodeLong
  <2>1. /\ high + m \in 0 .. 255 /\ buf' = Append(buf, high + m)
        /\ value >= m /\ i' = value - m /\ room' = 1 + (value - m) \div 128
    <3>1. /\ buf' = Append(buf, high + m) /\ value >= m
          /\ i' = value - m /\ room' = 1 + (value - m) \div 128
      BY <1>4 DEF EncodeLong, Room, m
    <3>2. QED
      BY <1>2, <3>1
  <2>2. buf' \in Seq(0 .. 255) /\ Len(buf') = Len(buf) + 1
    BY <1>1, <2>1, OctetAppended, ZenonT(30)
  <2>3. value - m \in Nat
    BY <1>2, <2>1
  <2>4. i' \in Nat /\ room' \in Nat /\ room' >= 1 + i' \div 128
    <3> DEFINE k == value - m
    <3>1. k \in Nat /\ i' = k /\ room' = 1 + k \div 128
      BY <2>1, <2>3
    <3> HIDE DEF k
    <3>2. 1 + k \div 128 \in Nat
      BY <3>1, RoomCounts
    <3>3. QED
      BY <3>1, <3>2
  <2>5. TypeOK' /\ pc' = "more"
    BY <1>1, <1>4, <2>2, <2>4 DEF EncodeLong, TypeOK, input, decoder
  <2>6. Begun'
    BY <1>1, <1>2, <1>4, <2>2, <2>5 DEF EncodeLong, Types, Begun, input, decoder
  <2>7. RoomLeft'
    BY <2>4 DEF RoomLeft
  <2>8. QED
    BY <2>5, <2>6, <2>7 DEF Types
<1>5. CASE EncodeMore
  <2>1. i >= 128 /\ i' = i \div 128 /\ room' = room - 1 /\ room >= 1 + i \div 128
    BY <1>5 DEF EncodeMore, Types, RoomLeft
  <2>2. /\ i \div 128 \in Nat /\ 1 + (i \div 128) \div 128 <= i \div 128
        /\ 1 + (i \div 128) \div 128 \in Nat
    BY <1>1, <2>1, RoomShrinks, RoomCounts
  <2>3. i' \in Nat /\ room' \in Nat /\ room' >= 1 + i' \div 128
    BY <1>1, <2>1, <2>2
  <2>4. buf' \in Seq(0 .. 255) /\ Len(buf') = Len(buf) + 1
    BY <1>1, <1>5, OctetAppended, OctetTypes DEF EncodeMore
  <2>5. TypeOK' /\ pc' = "more"
    BY <1>1, <1>5, <2>3, <2>4 DEF EncodeMore, TypeOK, input, decoder
  <2>6. Begun'
    BY <1>1, <1>2, <1>5, <2>4, <2>5 DEF EncodeMore, Types, Begun, input, decoder
  <2>7. RoomLeft'
    BY <2>3 DEF RoomLeft
  <2>8. QED
    BY <2>5, <2>6, <2>7 DEF Types
<1>6. QED
  BY <1>3, <1>4, <1>5

LEMMA EncodeLastTypes ==
  ASSUME Types, EncodeLast
  PROVE  /\ Types' /\ UNCHANGED <<input, decoder>> /\ pc' = "decode"
         /\ i \in Nat /\ i < 128 /\ room \in Nat /\ room >= 1
         /\ Len(buf') = Len(buf) + room
         /\ buf'[Len(buf) + 1] = i
         /\ \A k \in 1 .. Len(buf) : buf'[k] = buf[k]
<1>1. /\ TypeOK /\ UNCHANGED <<input, i, decoder>> /\ pc = "more" /\ i < 128
      /\ room' = 0 /\ pc' = "decode"
      /\ buf \in Seq(0 .. 255) /\ i \in Nat /\ room \in Nat /\ start \in Nat
  BY Numbers DEF Types, TypeOK, EncodeLast
<1>2. room >= 1 /\ room - 1 \in Nat
  <2>1. room >= 1 + i \div 128
    BY <1>1 DEF Types, RoomLeft
  <2>2. 1 + i \div 128 \in Nat /\ 1 + i \div 128 >= 1
    BY <1>1, RoomCounts
  <2>3. QED
    BY <1>1, <2>1, <2>2
<1>3. PICK octet \in StaleOctets : buf' = Append(buf, i) \o Repeated(octet, room - 1)
  BY DEF EncodeLast
<1> DEFINE written == Append(buf, i)
           stale == Repeated(octet, room - 1)
<1>4. /\ written \in Seq(0 .. 255) /\ Len(written) = Len(buf) + 1
      /\ written[Len(buf) + 1] = i
      /\ \A k \in 1 .. Len(buf) : written[k] = buf[k]
  <2>1. i \in 0 .. 255
    BY <1>1
  <2>2. QED
    BY <1>1, <2>1, OctetAppended, ZenonT(30)
<1>5. stale \in Seq(0 .. 255) /\ Len(stale) = room - 1
  BY <1>2, RepeatedType, ChosenInputs
<1> HIDE DEF written, stale
<1>6. buf' = written \o stale
  BY <1>3 DEF written, stale
<1>7. /\ buf' \in Seq(0 .. 255) /\ Len(buf') = Len(buf) + 1 + (room - 1)
      /\ \A k \in 1 .. (Len(buf) + 1) : buf'[k] = written[k]
  <2>1. /\ written \o stale \in Seq(0 .. 255)
        /\ Len(written \o stale) = Len(written) + Len(stale)
        /\ \A k \in 1 .. Len(written) : (written \o stale)[k] = written[k]
    BY <1>4, <1>5, OctetsFollow, ZenonT(30)
  <2>2. QED
    BY <1>4, <1>5, <1>6, <2>1
<1>8. Len(buf) \in Nat /\ Len(buf') = Len(buf) + room /\ Len(buf) + 1 \in 1 .. (Len(buf) + 1)
      /\ \A k \in 1 .. Len(buf) : k \in 1 .. (Len(buf) + 1)
  BY <1>1, <1>7
<1>9. TypeOK'
  BY <1>1, <1>7 DEF TypeOK, input, decoder
<1>10. Begun'
  <2>1. Len(buf) >= start + 1 /\ offset = start
    BY <1>1 DEF Types, Begun
  <2>2. Len(buf') >= start + 1
    BY <1>1, <1>2, <1>8, <2>1
  <2>3. QED
    BY <1>1, <2>1, <2>2 DEF Begun, input, decoder
<1>11. RoomLeft'
  BY <1>1 DEF RoomLeft
<1>12. QED
  BY <1>1, <1>2, <1>4, <1>7, <1>8, <1>9, <1>10, <1>11 DEF Types

\* The block cut: some octets of the encoding are kept, not all.
LEMMA CutTypes ==
  ASSUME Types, CutBlock
  PROVE  /\ Types' /\ pc = "decode" /\ pc' = pc /\ cut' = TRUE
         /\ UNCHANGED <<input, i, room, offset, acc, p>>
         /\ Len(buf') \in Nat /\ Len(buf) \in Nat
         /\ Len(buf') >= start + 1 /\ Len(buf') < Len(buf)
         /\ \A k \in 1 .. Len(buf') : buf'[k] = buf[k]
<1>1. /\ TypeOK /\ buf \in Seq(0 .. 255) /\ start \in Nat
  BY Numbers DEF Types, TypeOK
<1>2. /\ pc = "decode" /\ pc' = pc /\ cut' = TRUE
      /\ UNCHANGED <<input, i, room, offset, acc, p>>
  BY DEF CutBlock
<1>3. PICK kept \in 1 .. MaxKept : start + kept < Len(buf) /\ buf' = SubSeq(buf, 1, start + kept)
  BY DEF CutBlock
<1>4. kept \in Nat /\ kept >= 1
  BY InputsAssumption, SMT
<1>5. /\ buf' \in Seq(0 .. 255) /\ Len(buf') = start + kept
      /\ \A k \in 1 .. Len(buf') : buf'[k] = buf[k]
  <2> DEFINE l == start + kept
  <2>1. l \in Nat /\ l <= Len(buf) /\ buf' = SubSeq(buf, 1, l)
    BY <1>1, <1>3, <1>4
  <2> HIDE DEF l
  <2>2. buf' \in Seq(0 .. 255) /\ Len(buf') = l /\ \A k \in 1 .. l : buf'[k] = buf[k]
    BY <1>1, <2>1, OctetsKept
  <2>3. QED
    BY <2>2 DEF l
<1>6. TypeOK'
  BY <1>1, <1>2, <1>5 DEF TypeOK, input
<1>7. /\ Len(buf') \in Nat /\ Len(buf) \in Nat
      /\ Len(buf') >= start + 1 /\ Len(buf') < Len(buf)
  BY <1>1, <1>3, <1>4, <1>5
<1>8. Begun' /\ RoomLeft'
  BY <1>2, <1>7 DEF Types, Begun, RoomLeft, input
<1>9. QED
  BY <1>2, <1>5, <1>6, <1>7, <1>8 DEF Types

LEMMA DecodeTypes ==
  ASSUME Types, DecodePrefix \/ DecodeTruncated \/ DecodeOctet
  PROVE  Types'
<1>1. /\ TypeOK /\ UNCHANGED <<input, encoder, cut>>
      /\ buf \in Seq(0 .. 255) /\ start \in Nat /\ offset \in Nat /\ p \in Nat /\ acc \in Int
  BY Numbers DEF Types, TypeOK, DecodePrefix, DecodeTruncated, DecodeOctet
<1>2. pc' \in {"octet", "done"}
  BY DEF DecodePrefix, DecodeTruncated, DecodeOctet
<1>3. acc' \in Int /\ offset' \in Nat /\ p' \in Nat
  <2>1. CASE DecodePrefix
    <3>1. buf[offset + 1] \in 0 .. 255
      <4>1. offset = start /\ Len(buf) >= start + 1
        BY <2>1 DEF DecodePrefix, Types, Begun
      <4>2. offset + 1 \in 1 .. Len(buf)
        BY <1>1, <4>1
      <4>3. QED
        BY <1>1, <4>2, OctetAt
    <3>2. m \in 1 .. 255 /\ Prefix(buf[offset + 1], m) = buf[offset + 1] % (m + 1)
      BY <1>1, Numbers DEF Prefix
    <3>3. Prefix(buf[offset + 1], m) \in Int
      BY <3>1, <3>2
    <3>4. QED
      BY <1>1, <2>1, <3>3 DEF DecodePrefix, m
  <2>2. CASE DecodeTruncated
    BY <1>1, <2>2 DEF DecodeTruncated
  <2>3. CASE DecodeOctet
    <3>1. Get(offset % 128) \in Int
      <4>1. offset % 128 \in Nat
        BY <1>1
      <4> DEFINE k == offset % 128
      <4> HIDE DEF k
      <4>2. k \in Nat
        BY <4>1 DEF k
      <4>3. CASE k < Len(buf)
        <5>1. k + 1 \in 1 .. Len(buf)
          BY <1>1, <4>2, <4>3
        <5>2. buf[k + 1] \in 0 .. 255
          BY <1>1, <5>1, OctetAt
        <5>3. SignedChar(buf[k + 1]) \in Int
          BY <5>2 DEF SignedChar
        <5>4. QED
          BY <5>3 DEF Get, k
      <4>4. CASE ~(k < Len(buf))
        BY <1>1, <4>2, <4>4 DEF Get, k
      <4>5. QED
        BY <4>3, <4>4
    <3>2. acc + Get(offset % 128) * p \in Int
      BY <1>1, <3>1
    <3>3. QED
      BY <1>1, <2>3, <3>2 DEF DecodeOctet
  <2>4. QED
    BY <2>1, <2>2, <2>3
<1>4. TypeOK'
  BY <1>1, <1>2, <1>3 DEF TypeOK, input, encoder
<1>5. QED
  BY <1>2, <1>4 DEF Types, RoomLeft, Begun

LEMMA TypesStep == Types /\ [Next]_vars => Types'
<1> SUFFICES ASSUME Types, [Next]_vars PROVE Types'
  OBVIOUS
<1>1. CASE Next
  BY <1>1, EncodeTypes, EncodeLastTypes, CutTypes, DecodeTypes DEF Next
<1>2. CASE UNCHANGED vars
  BY <1>2 DEF vars, Types, TypeOK, RoomLeft, Begun
<1>3. QED
  BY <1>1, <1>2

\* The variables of both routines keep their types.
THEOREM TypeCorrect == Spec => []TypeOK
<1>1. Types => TypeOK
  BY DEF Types
<1>2. QED
  BY <1>1, TypesInit, TypesStep, PTL DEF Spec

\* Resize reserves room enough for the encoding of every integer: no Set of
\* EncodeInteger goes beyond the end of the block.
THEOREM RoomIsEnough == Spec => []RoomSuffices
<1>1. Types => RoomSuffices
  <2> SUFFICES ASSUME Types, pc = "more" PROVE room >= 1
    BY DEF RoomSuffices
  <2>1. i \in Nat /\ room \in Nat /\ room >= 1 + i \div 128
    BY DEF Types, TypeOK, RoomLeft
  <2>2. 1 + i \div 128 \in Nat /\ 1 + i \div 128 >= 1
    BY <2>1, RoomCounts
  <2>3. QED
    BY <2>1, <2>2
<1>2. QED
  BY <1>1, TypesInit, TypesStep, PTL DEF Spec

-----------------------------------------------------------------------------
(* Integers of at most two continuation octets.                            *)

rest == value - m

\* The octets of the encoding: the prefix, and as many as the rest takes.
Size == IF value < m THEN 1 ELSE IF rest < 128 THEN 2 ELSE 3

Encoding ==
  /\ pc \in {"encode", "more"} => ~cut
  /\ pc \in {"encode", "more", "decode"} => p = 1
  /\ pc = "more" =>
       /\ rest >= 0 /\ buf[start + 1] = high + m
       /\ \/ Len(buf) = start + 1 /\ i = rest /\ room = 1 + rest \div 128
          \/ Len(buf) = start + 2 /\ rest >= 128 /\ buf[start + 2] = rest /\ i = 1 /\ room = 1

\* The block that is decoded holds the encoding, or the beginning of it.
Block ==
  pc \in {"decode", "octet", "done"} =>
    /\ Len(buf) >= start + 1 /\ Len(buf) <= start + Size
    /\ cut <=> Len(buf) < start + Size
    /\ buf[start + 1] = high + (IF value < m THEN value ELSE m)
    /\ Len(buf) >= start + 2 => buf[start + 2] = rest
    /\ Len(buf) >= start + 3 => buf[start + 3] = 1

\* In the first 128 octets of a block, the first of two continuation octets counts
\* with its sign.
Decoding ==
  /\ pc = "octet" =>
       /\ rest >= 0
       /\ \/ offset = start + 1 /\ p = 1 /\ acc = m
          \/ /\ offset = start + 2 /\ p = 128 /\ rest >= 128 /\ Len(buf) >= start + 2
             /\ start + 2 < 128 => acc = m + rest - 256
  /\ pc = "done" =>
       /\ offset = Len(buf)
       /\ start + 2 < 128 => acc = Carried(value, n) \/ (cut /\ acc = 0)

Exact == value < m + 256 => Encoding /\ Block /\ Decoding

LEMMA Sizes ==
  ASSUME Types, value < m + 256
  PROVE  /\ value \in Nat /\ start \in Nat /\ m \in 1 .. 255 /\ high \in Nat
         /\ rest \in Int /\ rest < 256 /\ Len(buf) \in Nat /\ buf \in Seq(0 .. 255)
         /\ Size \in {1, 2, 3}
         /\ Size = 1 <=> rest < 0
         /\ Size = 2 <=> rest >= 0 /\ rest < 128
         /\ Size = 3 <=> rest >= 128
<1>1. /\ value \in Nat /\ start \in Nat /\ m \in 1 .. 255 /\ high \in Nat
  BY Numbers DEF Types
<1>2. rest \in Int /\ rest < 256 /\ (value < m <=> rest < 0)
  BY <1>1 DEF rest
<1>3. buf \in Seq(0 .. 255)
  BY DEF Types, TypeOK
<1>4. QED
  BY <1>1, <1>2, <1>3 DEF Size

LEMMA ExactInit == Init => Exact
  BY DEF Init, Exact, Encoding, Block, Decoding

\* The input does not change, nor what is defined from it.
LEMMA InputFixed ==
  ASSUME UNCHANGED input
  PROVE  m' = m /\ rest' = rest /\ Size' = Size /\ value' = value /\ start' = start
         /\ high' = high /\ n' = n
  BY DEF input, m, rest, Size

LEMMA ExactEncode ==
  ASSUME Types, value < m + 256, Encoding, EncodeShort \/ EncodeLong \/ EncodeMore
  PROVE  (Encoding /\ Block /\ Decoding)'
<1>1. /\ value \in Nat /\ start \in Nat /\ m \in 1 .. 255 /\ high \in Nat /\ high + m <= 255
      /\ rest \in Int /\ rest < 256 /\ Len(buf) \in Nat /\ buf \in Seq(0 .. 255)
      /\ rest = value - m
  BY Sizes, Numbers DEF Types, rest
<1>2. UNCHANGED <<input, decoder>>
  BY DEF EncodeShort, EncodeLong, EncodeMore
<1>3. /\ m' = m /\ rest' = rest /\ Size' = Size /\ value' = value /\ start' = start
      /\ high' = high /\ p' = p /\ cut' = cut
  BY <1>2, InputFixed DEF decoder
<1>4. CASE EncodeShort
  <2>1. /\ pc = "encode" /\ value < m /\ high + value \in 0 .. 255 /\ Len(buf) = start
        /\ buf' = Append(buf, high + value) /\ pc' = "decode" /\ ~cut /\ p = 1
    <3>1. /\ pc = "encode" /\ value < m
          /\ buf' = Append(buf, high + value) /\ pc' = "decode"
      BY <1>4 DEF EncodeShort, m
    <3>2. Len(buf) = start /\ ~cut /\ p = 1
      BY <3>1 DEF Types, Begun, Encoding
    <3>3. high + value \in 0 .. 255
      BY <1>1, <3>1
    <3>4. QED
      BY <3>1, <3>2, <3>3
  <2>2. Len(buf') = start + 1 /\ buf'[start + 1] = high + value
    <3>1. buf \in Seq(0 .. 255)
      BY <1>1
    <3>2. Len(buf') = Len(buf) + 1 /\ buf'[Len(buf) + 1] = high + value
      <4>1. high + value \in 0 .. 255
        BY <2>1
      <4>2. buf' = Append(buf, high + value)
        BY <2>1
      <4>3. QED
        BY <3>1, <4>1, <4>2, OctetAppended, ZenonT(30)
    <3>3. QED
      BY <2>1, <3>2
  <2>3. Size = 1
    BY <2>1 DEF Size
  <2>4. Block'
    BY <1>1, <1>3, <2>1, <2>2, <2>3 DEF Block
  <2>5. QED
    BY <1>3, <2>1, <2>4 DEF Encoding, Decoding
<1>5. CASE EncodeLong
  <2>1. /\ pc = "encode" /\ value >= m /\ high + m \in 0 .. 255 /\ Len(buf) = start
        /\ buf' = Append(buf, high + m) /\ pc' = "more" /\ ~cut /\ p = 1
        /\ i' = rest /\ room' = 1 + rest \div 128
    <3>1. /\ pc = "encode" /\ value >= m
          /\ buf' = Append(buf, high + m) /\ pc' = "more"
          /\ i' = rest /\ room' = 1 + rest \div 128
      BY <1>5 DEF EncodeLong, m, rest, Room
    <3>2. Len(buf) = start /\ ~cut /\ p = 1
      BY <3>1 DEF Types, Begun, Encoding
    <3>3. high + m \in 0 .. 255
      BY <1>1
    <3>4. QED
      BY <3>1, <3>2, <3>3
  <2>2. Len(buf') = start + 1 /\ buf'[start + 1] = high + m
    <3>1. buf \in Seq(0 .. 255)
      BY <1>1
    <3>2. Len(buf') = Len(buf) + 1 /\ buf'[Len(buf) + 1] = high + m
      <4>1. high + m \in 0 .. 255
        BY <2>1
      <4>2. buf' = Append(buf, high + m)
        BY <2>1
      <4>3. QED
        BY <3>1, <4>1, <4>2, OctetAppended, ZenonT(30)
    <3>3. QED
      BY <2>1, <3>2
  <2>3. rest >= 0
    BY <1>1, <2>1
  <2>4. QED
    BY <1>3, <2>1, <2>2, <2>3 DEF Encoding, Block, Decoding
<1>6. CASE EncodeMore
  <2>1. /\ pc = "more" /\ i >= 128 /\ buf' = Append(buf, ContinuedOctet(i))
        /\ i' = i \div 128 /\ room' = room - 1 /\ pc' = "more"
    BY <1>6 DEF EncodeMore
  <2>2. /\ ~cut /\ p = 1 /\ rest >= 0 /\ buf[start + 1] = high + m
        /\ Len(buf) = start + 1 /\ i = rest /\ room = 1 + rest \div 128
    BY <2>1 DEF Encoding
  <2>3. ContinuedOctet(rest) = rest /\ rest \div 128 = 1 /\ rest \in 0 .. 255
    <3>1. rest \in 128 .. 255
      BY <1>1, <2>1, <2>2
    <3>2. QED
      BY <3>1, TwoOctets
  <2>4. /\ Len(buf') = start + 2 /\ buf'[start + 2] = rest
        /\ buf'[start + 1] = high + m
    <3>1. buf' = Append(buf, rest)
      BY <2>1, <2>2, <2>3
    <3>2. start + 1 + 1 = start + 2 /\ start + 1 \in 1 .. Len(buf)
      BY <1>1, <2>2
    <3>3. Len(buf') = Len(buf) + 1 /\ buf'[Len(buf) + 1] = rest
          /\ \A k \in 1 .. Len(buf) : buf'[k] = buf[k]
      <4>1. rest \in 0 .. 255 /\ buf \in Seq(0 .. 255)
        BY <1>1, <2>3
      <4>2. QED
        BY <3>1, <4>1, OctetAppended, ZenonT(30)
    <3>4. QED
      BY <2>2, <3>2, <3>3
  <2>5. i' = 1 /\ room' = 1 /\ rest >= 128
    BY <2>1, <2>2, <2>3
  <2>6. QED
    BY <1>3, <2>1, <2>2, <2>4, <2>5 DEF Encoding, Block, Decoding
<1>7. QED
  BY <1>4, <1>5, <1>6

LEMMA ExactLast ==
  ASSUME Types, value < m + 256, Encoding, EncodeLast
  PROVE  (Encoding /\ Block /\ Decoding)'
<1>1. /\ value \in Nat /\ start \in Nat /\ m \in 1 .. 255 /\ high \in Nat
      /\ rest \in Int /\ rest < 256 /\ Len(buf) \in Nat /\ rest = value - m
      /\ Size = 2 <=> rest >= 0 /\ rest < 128
      /\ Size = 3 <=> rest >= 128
  BY Sizes DEF rest
<1>2. /\ UNCHANGED <<input, decoder>> /\ pc = "more" /\ pc' = "decode"
      /\ i \in Nat /\ i < 128 /\ room \in Nat
      /\ Len(buf') = Len(buf) + room
      /\ buf'[Len(buf) + 1] = i
      /\ \A k \in 1 .. Len(buf) : buf'[k] = buf[k]
  BY EncodeLastTypes DEF EncodeLast
<1>3. /\ m' = m /\ rest' = rest /\ Size' = Size /\ value' = value /\ start' = start
      /\ high' = high /\ p' = p /\ cut' = cut /\ ~cut /\ p = 1
      /\ rest >= 0 /\ buf[start + 1] = high + m
  BY <1>2, InputFixed DEF decoder, Encoding
<1>4. CASE Len(buf) = start + 1 /\ i = rest /\ room = 1 + rest \div 128
  <2>1. rest \div 128 = 0
    BY <1>1, <1>2, <1>3, <1>4
  <2>2. /\ Len(buf') = start + 2 /\ buf'[start + 2] = rest /\ buf'[start + 1] = high + m
        /\ Size = 2 /\ ~(value < m)
    <3>1. start + 1 + 1 = start + 2 /\ start + 1 \in 1 .. Len(buf) /\ room = 1
      BY <1>1, <1>4, <2>1
    <3>2. Size = 2 /\ ~(value < m)
      BY <1>1, <1>2, <1>3, <1>4
    <3>3. QED
      BY <1>2, <1>3, <1>4, <3>1, <3>2
  <2>3. Block'
    BY <1>1, <1>3, <2>2 DEF Block
  <2>4. QED
    BY <1>2, <1>3, <2>3 DEF Encoding, Decoding
<1>5. CASE Len(buf) = start + 2 /\ rest >= 128 /\ buf[start + 2] = rest /\ i = 1 /\ room = 1
  <2>1. /\ Len(buf') = start + 3 /\ buf'[start + 3] = 1
        /\ buf'[start + 2] = rest /\ buf'[start + 1] = high + m
        /\ Size = 3 /\ ~(value < m)
    <3>1. /\ start + 2 + 1 = start + 3 /\ start + 1 \in 1 .. Len(buf)
          /\ start + 2 \in 1 .. Len(buf)
      BY <1>1, <1>5
    <3>2. Size = 3 /\ ~(value < m)
      BY <1>1, <1>5
    <3>3. QED
      BY <1>2, <1>3, <1>5, <3>1, <3>2
  <2>2. Block'
    BY <1>1, <1>3, <2>1 DEF Block
  <2>3. QED
    BY <1>2, <1>3, <2>2 DEF Encoding, Decoding
<1>6. QED
  BY <1>2, <1>4, <1>5 DEF Encoding

LEMMA ExactCut ==
  ASSUME Types, value < m + 256, Encoding, Block, CutBlock
  PROVE  (Encoding /\ Block /\ Decoding)'
<1>1. start \in Nat /\ Len(buf) \in Nat /\ Size \in {1, 2, 3}
  BY Sizes
<1>2. /\ pc = "decode" /\ pc' = pc /\ cut' = TRUE
      /\ UNCHANGED <<input, p>>
      /\ Len(buf') \in Nat /\ Len(buf') >= start + 1 /\ Len(buf') < Len(buf)
      /\ \A k \in 1 .. Len(buf') : buf'[k] = buf[k]
  BY CutTypes
<1>3. /\ m' = m /\ rest' = rest /\ Size' = Size /\ value' = value /\ start' = start
      /\ high' = high /\ p' = p /\ p = 1
  BY <1>2, InputFixed DEF Encoding
<1>4. /\ Len(buf) <= start + Size
      /\ buf[start + 1] = high + (IF value < m THEN value ELSE m)
      /\ Len(buf) >= start + 2 => buf[start + 2] = rest
      /\ Len(buf) >= start + 3 => buf[start + 3] = 1
  BY <1>2 DEF Block
<1>5. buf'[start + 1] = buf[start + 1]
  BY <1>1, <1>2
<1>6. Len(buf') >= start + 2 => buf'[start + 2] = rest
  <2> SUFFICES ASSUME Len(buf') >= start + 2 PROVE buf'[start + 2] = rest
    OBVIOUS
  <2>1. start + 2 \in 1 .. Len(buf') /\ Len(buf) >= start + 2
    BY <1>1, <1>2
  <2>2. QED
    BY <1>2, <1>4, <2>1
<1>7. Len(buf') >= start + 3 => buf'[start + 3] = 1
  <2> SUFFICES ASSUME Len(buf') >= start + 3 PROVE buf'[start + 3] = 1
    OBVIOUS
  <2>1. start + 3 \in 1 .. Len(buf') /\ Len(buf) >= start + 3
    BY <1>1, <1>2
  <2>2. QED
    BY <1>2, <1>4, <2>1
<1>8. Len(buf') < start + Size
  BY <1>1, <1>2, <1>4
<1>9. Block'
  BY <1>1, <1>2, <1>3, <1>4, <1>5, <1>6, <1>7, <1>8 DEF Block
<1>10. QED
  BY <1>2, <1>3, <1>9 DEF Encoding, Decoding

\* Get reads what the index says in the first 128 octets of the block.
LEMMA GetNear ==
  ASSUME NEW k \in Nat, k < 128, k < Len(buf)
  PROVE  Get(k % 128) = SignedChar(buf[k + 1])
<1>1. k % 128 = k
  OBVIOUS
<1>2. QED
  BY <1>1 DEF Get

LEMMA ExactPrefix ==
  ASSUME Types, value < m + 256, Encoding, Block, DecodePrefix
  PROVE  (Encoding /\ Block /\ Decoding)'
<1>1. /\ value \in Nat /\ start \in Nat /\ m \in 1 .. 255 /\ high \in Nat
      /\ high \in {0, m + 1} /\ rest \in Int /\ Len(buf) \in Nat /\ rest = value - m
      /\ Size = 1 <=> rest < 0
  BY Sizes, Numbers DEF rest, Types
<1>2. /\ pc = "decode" /\ UNCHANGED <<input, encoder, p, cut>>
      /\ acc' = Prefix(buf[offset + 1], m) /\ offset' = offset + 1
      /\ pc' = IF acc' >= m THEN "octet" ELSE "done"
      /\ offset = start
  BY DEF DecodePrefix, Types, Begun, m
<1>3. /\ m' = m /\ rest' = rest /\ Size' = Size /\ value' = value /\ start' = start
      /\ high' = high /\ p' = p /\ buf' = buf /\ cut' = cut /\ n' = n /\ p = 1
  BY <1>2, InputFixed DEF encoder, Encoding
<1>4. Block'
  BY <1>2, <1>3 DEF Block
<1>5. /\ Len(buf) >= start + 1 /\ Len(buf) <= start + Size
      /\ cut <=> Len(buf) < start + Size
      /\ buf[start + 1] = high + (IF value < m THEN value ELSE m)
  BY <1>2 DEF Block
<1>6. acc' = IF value < m THEN value ELSE m
  <2> DEFINE x == IF value < m THEN value ELSE m
  <2>1. x \in Nat /\ x <= m /\ m \in Nat
    BY <1>1
  <2> HIDE DEF x
  <2>2. Prefix(high + x, m) = x
    BY <1>1, <2>1, PrefixRead
  <2>3. QED
    BY <1>2, <1>5, <2>2 DEF x
<1>7. CASE value < m
  <2>1. /\ pc' = "done" /\ acc' = value /\ Size = 1 /\ Len(buf) = start + 1
        /\ value < m + 128
    BY <1>1, <1>2, <1>5, <1>6, <1>7
  <2>2. Carried(value, n) = value
    BY <2>1 DEF Carried, m
  <2>3. QED
    BY <1>2, <1>3, <1>4, <2>1, <2>2 DEF Encoding, Decoding
<1>8. CASE ~(value < m)
  <2>1. pc' = "octet" /\ acc' = m /\ rest >= 0
    BY <1>1, <1>2, <1>6, <1>8
  <2>2. QED
    BY <1>2, <1>3, <1>4, <2>1 DEF Encoding, Decoding
<1>9. QED
  BY <1>7, <1>8

LEMMA ExactTruncated ==
  ASSUME Types, value < m + 256, Encoding, Block, Decoding, DecodeTruncated
  PROVE  (Encoding /\ Block /\ Decoding)'
<1>1. /\ value \in Nat /\ start \in Nat /\ rest \in Int /\ Len(buf) \in Nat
      /\ Size \in {1, 2, 3}
      /\ Size = 1 <=> rest < 0
      /\ Size = 3 <=> rest >= 128
  BY Sizes
<1>2. /\ pc = "octet" /\ offset >= Len(buf) /\ acc' = 0 /\ pc' = "done"
      /\ UNCHANGED <<input, encoder, offset, p, cut>>
  BY DEF DecodeTruncated
<1>3. /\ m' = m /\ rest' = rest /\ Size' = Size /\ value' = value /\ start' = start
      /\ high' = high /\ buf' = buf /\ cut' = cut /\ n' = n /\ offset' = offset
  BY <1>2, InputFixed DEF encoder
<1>4. Block'
  BY <1>2, <1>3 DEF Block
<1>5. offset = Len(buf) /\ cut
  <2>1. /\ Len(buf) >= start + 1
        /\ cut <=> Len(buf) < start + Size
    BY <1>2 DEF Block
  <2>2. /\ rest >= 0
        /\ \/ offset = start + 1
           \/ offset = start + 2 /\ rest >= 128 /\ Len(buf) >= start + 2
    BY <1>2 DEF Decoding
  <2>3. QED
    BY <1>1, <1>2, <2>1, <2>2
<1>6. QED
  BY <1>2, <1>3, <1>4, <1>5 DEF Encoding, Decoding

LEMMA ExactOctet ==
  ASSUME Types, value < m + 256, Encoding, Block, Decoding, DecodeOctet
  PROVE  (Encoding /\ Block /\ Decoding)'
<1>1. /\ value \in Nat /\ start \in Nat /\ m \in 1 .. 255 /\ rest \in Int /\ rest < 256
      /\ Len(buf) \in Nat /\ rest = value - m /\ Size \in {1, 2, 3}
      /\ Size = 1 <=> rest < 0
      /\ Size = 2 <=> rest >= 0 /\ rest < 128
      /\ Size = 3 <=> rest >= 128
  BY Sizes DEF rest
<1>2. /\ pc = "octet" /\ offset < Len(buf)
      /\ acc' = acc + Get(offset % 128) * p /\ p' = p * 128 /\ offset' = offset + 1
      /\ pc' = IF buf[offset + 1] >= 128 THEN "octet" ELSE "done"
      /\ UNCHANGED <<input, encoder, cut>>
  BY DEF DecodeOctet
<1>3. /\ m' = m /\ rest' = rest /\ Size' = Size /\ value' = value /\ start' = start
      /\ high' = high /\ buf' = buf /\ cut' = cut /\ n' = n
  BY <1>2, InputFixed DEF encoder
<1>4. Block'
  BY <1>2, <1>3 DEF Block
<1>5. /\ Len(buf) >= start + 1 /\ Len(buf) <= start + Size
      /\ cut <=> Len(buf) < start + Size
      /\ Len(buf) >= start + 2 => buf[start + 2] = rest
      /\ Len(buf) >= start + 3 => buf[start + 3] = 1
      /\ rest >= 0
  BY <1>2 DEF Block, Decoding
<1>6. CASE offset = start + 1 /\ p = 1 /\ acc = m
  <2>1. /\ offset + 1 = start + 2 /\ Len(buf) >= start + 2
        /\ buf[offset + 1] = rest /\ p' = 128
    BY <1>1, <1>2, <1>5, <1>6
  <2>2. start + 2 < 128 => acc' = m + SignedChar(rest)
    <3> SUFFICES ASSUME start + 2 < 128 PROVE acc' = m + SignedChar(rest)
      OBVIOUS
    <3>1. offset \in Nat /\ offset < 128
      BY <1>1, <1>6
    <3>2. Get(offset % 128) = SignedChar(rest)
      BY <1>2, <2>1, <3>1, GetNear
    <3>3. SignedChar(rest) \in Int
      BY <1>1 DEF SignedChar
    <3>4. QED
      BY <1>1, <1>2, <1>6, <3>2, <3>3
  <2>3. CASE rest < 128
    <3>1. pc' = "done" /\ offset' = Len(buf) /\ SignedChar(rest) = rest /\ value < m + 128
      BY <1>1, <1>2, <1>5, <2>1, <2>3 DEF SignedChar
    <3>2. Carried(value, n) = value
      BY <3>1 DEF Carried, m
    <3>3. start + 2 < 128 => acc' = value
      BY <1>1, <2>2, <3>1
    <3>4. QED
      BY <1>3, <1>4, <3>1, <3>2, <3>3 DEF Encoding, Decoding
  <2>4. CASE rest >= 128
    <3>1. pc' = "octet" /\ offset' = start + 2 /\ SignedChar(rest) = rest - 256
      BY <1>1, <1>2, <2>1, <2>4 DEF SignedChar
    <3>2. start + 2 < 128 => acc' = m + rest - 256
      BY <1>1, <2>2, <3>1
    <3>3. QED
      BY <1>3, <1>4, <1>5, <2>1, <2>4, <3>1, <3>2 DEF Encoding, Decoding
  <2>5. QED
    BY <1>1, <2>3, <2>4
<1>7. CASE /\ offset = start + 2 /\ p = 128 /\ rest >= 128
           /\ start + 2 < 128 => acc = m + rest - 256
  <2>1. /\ offset + 1 = start + 3 /\ Len(buf) = start + 3 /\ buf[offset + 1] = 1
        /\ offset' = Len(buf) /\ pc' = "done" /\ ~(value < m + 128)
    BY <1>1, <1>2, <1>5, <1>7
  <2>2. Carried(value, n) = value - 128
    BY <2>1 DEF Carried, m
  <2>3. start + 2 < 128 => acc' = value - 128
    <3> SUFFICES ASSUME start + 2 < 128 PROVE acc' = value - 128
      OBVIOUS
    <3>1. offset \in Nat /\ offset < 128
      BY <1>1, <1>7
    <3>2. Get(offset % 128) = 1
      BY <1>2, <2>1, <3>1, GetNear DEF SignedChar
    <3>3. acc' = (m + rest - 256) + 1 * 128
      BY <1>2, <1>7, <3>2
    <3>4. QED
      BY <1>1, <3>3
  <2>4. QED
    BY <1>3, <1>4, <2>1, <2>2, <2>3 DEF Encoding, Decoding
<1>8. QED
  BY <1>2, <1>6, <1>7 DEF Decoding

LEMMA ExactStep == Types /\ Exact /\ [Next]_vars => Exact'
<1> SUFFICES ASSUME Types, Exact, [Next]_vars, (value < m + 256)'
             PROVE  (Encoding /\ Block /\ Decoding)'
  BY DEF Exact
<1>1. value' = value /\ m' = m
  BY InputFixed
     DEF Next, vars, EncodeShort, EncodeLong, EncodeMore, EncodeLast, CutBlock,
         DecodePrefix, DecodeTruncated, DecodeOctet, input, m
<1>2. value < m + 256 /\ Encoding /\ Block /\ Decoding
  BY <1>1 DEF Exact
<1>3. CASE Next
  BY <1>2, <1>3, ExactEncode, ExactLast, ExactCut, ExactPrefix, ExactTruncated, ExactOctet
     DEF Next
<1>4. CASE UNCHANGED vars
  BY <1>2, <1>4 DEF vars, Encoding, Block, Decoding, m, rest, Size
<1>5. QED
  BY <1>3, <1>4

LEMMA ExactAlways == Spec => []Exact
<1>1. Init => Types /\ Exact
  BY TypesInit, ExactInit
<1>2. Types /\ Exact /\ [Next]_vars => (Types /\ Exact)'
  BY TypesStep, ExactStep
<1>3. QED
  BY <1>1, <1>2, PTL DEF Spec

\* What EncodeInteger writes for an integer below PrefixMax[n] + 256, DecodeInteger
\* reads as Carried(value, n) in the first 128 octets of a block, or as 0 if the
\* block was cut inside it.
THEOREM IntegersCarried == Spec => []CarriedInteger
<1>1. Exact => CarriedInteger
  BY DEF Exact, Decoding, CarriedInteger, m
<1>2. QED
  BY <1>1, ExactAlways, PTL

\* At any position, the decoder has then read exactly what the encoder wrote.
THEOREM BothStopTogether == Spec => []NothingLeftOver
<1>1. Exact => NothingLeftOver
  BY DEF Exact, Decoding, NothingLeftOver, m
<1>2. QED
  BY <1>1, ExactAlways, PTL

=============================================================================
