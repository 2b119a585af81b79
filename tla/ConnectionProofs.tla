-------------------------- MODULE ConnectionProofs --------------------------
(***************************************************************************)
(* Proofs about Connection: what the handshake establishes, for any        *)
(* settings, any cuts of the stream, any other openings, and any calls of  *)
(* the two applications.                                                   *)
(*                                                                         *)
(* The invariant follows the two streams separately.  Of the client's it   *)
(* knows where the first two messages lie and that all of them are its     *)
(* opening (ClientStream); of the server's, that there is at most one, the *)
(* acknowledgement (ServerStream).  ServerReads and ClientReads say what   *)
(* either side has made of the other's stream while it matters, Good what  *)
(* is known in addition of a good client.                                  *)
(***************************************************************************)
EXTENDS Connection, FiniteSetTheorems, TLAPS

Message == [size : Nat, content : Content]

StreamsType ==
  /\ sent \in [Endpoints -> Seq(Message)]
  /\ starts \in [Endpoints -> Seq(Nat)]
  /\ written \in [Endpoints -> Nat]
  /\ arrived \in [Endpoints -> Nat]
  /\ consumed \in [Endpoints -> Nat]
  /\ open \in [Endpoints -> BOOLEAN]
  /\ cuts \in CutSets
  /\ \A e \in Endpoints : consumed[e] <= arrived[e] /\ arrived[e] <= written[e]

ReceivingType ==
  /\ call \in [Endpoints -> {"none", "header", "payload"}]
  /\ incoming \in [Endpoints -> Frame \union {nullptr}]
  /\ returned \in [Endpoints -> Seq(Frame \union {nullptr})]

\* streams_ is never filled.
ConnectionType ==
  /\ pc \in [Endpoints -> pcs]
  /\ opening \in Seq(Content)
  /\ constructed \in ClientSettings \union {<<>>}
  /\ settings \in [Endpoints -> Settings]
  /\ table_max \in [Endpoints -> Word \union {<<>>}]
  /\ requested \in [Endpoints -> Seq({PriorityFrame})]
  /\ \A e \in Endpoints : Len(requested[e]) <= MaxRequests
  /\ stream_list = [e \in Endpoints |-> <<>>]

Types == StreamsType /\ ReceivingType /\ ConnectionType

\* Where the first two of the messages m lie, which begin at s and end at w.
Lies(m, s, w) ==
  /\ Len(s) = Len(m)
  /\ Len(m) = 0 => w = 0
  /\ Len(m) >= 1 => s[1] = 0
  /\ Len(m) = 1 => w = m[1].size
  /\ Len(m) >= 2 => s[2] = m[1].size /\ w >= s[2] + m[2].size
  /\ Len(m) = 2 => w = s[2] + m[2].size
  /\ \A k \in 3 .. Len(m) : s[k] > s[2]
  /\ \A k \in 1 .. Len(m) : m[k].size = HEADER_LEN + m[k].content.length

Openings == IF constructed = <<>> THEN Foreign ELSE {OpeningOf(constructed)}

\* The messages m are the beginning of o, and rest is the remainder of it.
Begins(m, o) ==
  Len(m) <= Len(o) /\ \A k \in 1 .. Len(m) : m[k].content = o[k]
Remains(m, rest, o) ==
  /\ Len(m) + Len(rest) = Len(o)
  /\ \A k \in 1 .. Len(rest) : rest[k] = o[Len(m) + k]

ClientStream ==
  /\ Lies(sent["client"], starts["client"], written["client"])
  /\ \E o \in Openings :
       /\ Begins(sent["client"], o)
       /\ open["server"] => Remains(sent["client"], opening, o)
  /\ pc["client"] \in {"constructing", "ready"}
  /\ pc["client"] = "constructing" => open["client"]
  /\ pc["client"] = "ready" => opening = <<>>

AckMessage == [size |-> HEADER_LEN, content |-> Ack]
ServerStream ==
  /\ \/ sent["server"] = <<>> /\ starts["server"] = <<>> /\ written["server"] = 0
     \/ /\ sent["server"] = <<AckMessage>> /\ starts["server"] = <<0>>
        /\ written["server"] = HEADER_LEN /\ pc["server"] = "ready"
  /\ pc["server"] = "ready" /\ open["client"] => sent["server"] = <<AckMessage>>

\* Until its first call of RecvFrame returns, the client is at the acknowledgement.
ClientReads ==
  /\ pc["client"] = "constructing" => call["client"] = "none"
  /\ returned["client"] = <<>> =>
       IF call["client"] = "payload"
       THEN incoming["client"] = Ack /\ pc["server"] = "ready"
       ELSE consumed["server"] = 0
  /\ AckMeansAdopted

PrefaceMessage == [size |-> PREFACE_LEN, content |-> Preface]
Accepted == Len(sent["client"]) >= 1 /\ sent["client"][1] = PrefaceMessage
Second == sent["client"][2].content

BeforePreface ==
  /\ open["server"] /\ call["server"] = "none" /\ returned["server"] = <<>>
  /\ consumed["client"] = 0

\* Its call of RecvFrame is at the second message, or has returned it, or nullptr.
BeforeSettings ==
  /\ open["server"] /\ Accepted /\ consumed["client"] >= PREFACE_LEN
  /\ call["server"] # "none" => returned["server"] = <<>>
  /\ call["server"] = "header" => consumed["client"] = PREFACE_LEN
  /\ call["server"] = "payload" =>
       /\ Len(sent["client"]) >= 2 /\ incoming["server"] = Second
       /\ consumed["client"] = PREFACE_LEN + HEADER_LEN
  /\ call["server"] = "none" =>
       /\ Len(returned["server"]) = 1
       /\ \/ returned["server"][1] = nullptr
          \/ Len(sent["client"]) >= 2 /\ returned["server"][1] = Second

ServerReads ==
  /\ pc["server"] # "constructing"
  /\ pc["server"] = "preface" => BeforePreface
  /\ pc["server"] = "settings" => BeforeSettings
  /\ pc["server"] = "ready" => Accepted /\ consumed["client"] >= PREFACE_LEN
  /\ pc["server"] \in {"closed", "crashed"} => ~open["server"] /\ call["server"] # "payload"

\* What a good client writes arrives in one piece or in two.
Good ==
  GoodClient =>
    /\ pc["server"] \notin {"closed", "crashed"}
    /\ arrived["client"] \in {0, PREFACE_LEN, written["client"]}
    /\ pc["server"] = "settings" /\ call["server"] = "payload" =>
         arrived["client"] = written["client"]
    /\ pc["server"] = "settings" /\ call["server"] = "none" => returned["server"][1] # nullptr

IInv == Types /\ ClientStream /\ ServerStream /\ ClientReads /\ ServerReads /\ Good

-----------------------------------------------------------------------------
(* Settings: what the server makes of what the client has encoded.         *)

LEMMA Constants ==
  /\ HEADER_LEN = 9 /\ PREFACE_LEN = 24 /\ TYPE_SETTINGS_FRAME = 4 /\ MAX_TYPE = 9
  /\ Endpoints = {"client", "server"} /\ Peer("client") = "server" /\ Peer("server") = "client"
BY DEF HEADER_LEN, PREFACE_LEN, TYPE_SETTINGS_FRAME, MAX_TYPE, Endpoints, Peer

LEMMA ReadRange ==
  /\ MaxRead \in Nat /\ Huge \in Nat /\ MaxLength \in Nat
  /\ 36 < MaxLength /\ MaxLength < MaxRead /\ MaxRead < Huge
BY SMT DEF MaxRead, Huge, MaxLength

LEMMA WordsAre ==
  /\ Zero \in Word /\ One \in Word /\ UINT32_MAX \in Word
  /\ MinFrameSize \in Word /\ MaxFrameSize \in Word
  /\ \A id \in SettingIds : Defaults[id] \in Word
<1>1. /\ Zero \in Word /\ One \in Word /\ UINT32_MAX \in Word
      /\ MinFrameSize \in Word /\ MaxFrameSize \in Word
      /\ <<0, 0, 16, 0>> \in Word /\ <<0, 0, 255, 255>> \in Word
  BY DEF Zero, One, UINT32_MAX, MinFrameSize, MaxFrameSize, Word, Octet
<1>2. ASSUME NEW id \in SettingIds PROVE Defaults[id] \in Word
  BY <1>1 DEF SettingIds, Defaults, HEADER_TABLE_SIZE, ENABLE_PUSH, MAX_CONCURRENT_STREAMS,
             INITIAL_WINDOW_SIZE, MAX_FRAME_SIZE, MAX_HEADER_LIST_SIZE
<1>3. QED
  BY <1>1, <1>2

LEMMA DefaultsAreSettings == Defaults \in Settings /\ Defaults[MAX_FRAME_SIZE] = MinFrameSize
<1>1. Defaults[ENABLE_PUSH] = One /\ Defaults[MAX_FRAME_SIZE] = MinFrameSize
  BY DEF Defaults, SettingIds, HEADER_TABLE_SIZE, ENABLE_PUSH, MAX_CONCURRENT_STREAMS,
         INITIAL_WINDOW_SIZE, MAX_FRAME_SIZE, MAX_HEADER_LIST_SIZE
<1>2. Defaults \in [SettingIds -> Word]
  <2>1. Defaults = [id \in SettingIds |-> Defaults[id]]
    BY DEF Defaults
  <2>2. QED
    BY <2>1, WordsAre
<1>3. QED
  BY <1>1, <1>2 DEF Settings

\* A setting is decoded to a word, and to one as it was if its last three octets are
\* not above 127.
LEMMA WidenedType ==
  ASSUME NEW w \in Word
  PROVE  /\ Widened(w) \in Word
         /\ (\A k \in 2 .. 4 : w[k] < 128) => Widened(w) = w
<1>1. Widened(w) \in Word
  BY DEF Widened, Word, Octet
<1>2. ASSUME \A k \in 2 .. 4 : w[k] < 128 PROVE Widened(w) = w
  <2>1. ASSUME NEW k \in 1 .. 4 PROVE Widened(w)[k] = w[k]
    <3>1. \A j \in (k + 1) .. 4 : j \in 2 .. 4 /\ w[j] \in Int
      BY DEF Word, Octet
    <3>2. ~\E j \in (k + 1) .. 4 : w[j] >= 128
      BY <1>2, <3>1
    <3>3. QED
      BY <3>2 DEF Widened
  <2>2. QED
    BY <1>1, <2>1 DEF Word
<1>3. QED
  BY <1>1, <1>2

LEMMA AdoptedType ==
  ASSUME NEW id \in SettingIds, NEW w \in Word
  PROVE  Adopted(id, w) \in Word /\ (id = ENABLE_PUSH => Adopted(id, w) \in {Zero, One})
BY WordsAre DEF Adopted, ClampFrameSize

LEMMA DecodeType ==
  ASSUME NEW payload \in Payloads
  PROVE  DecodeSettings(payload.settings) \in Settings
<1> DEFINE list == payload.settings
           s == DecodeSettings(list)
<1>1. \A id \in DOMAIN list : list[id] \in Word
  BY PayloadsAssumption
<1>2. ASSUME NEW id \in SettingIds
      PROVE  s[id] \in Word /\ (id = ENABLE_PUSH => s[id] \in {Zero, One})
  <2>1. CASE id \in DOMAIN list
    <3>1. s[id] = Adopted(id, Widened(list[id]))
      BY <2>1 DEF DecodeSettings
    <3>2. QED
      BY <1>1, <2>1, <3>1, WidenedType, AdoptedType
  <2>2. CASE id \notin DOMAIN list
    <3>1. s[id] = Defaults[id]
      BY <2>2 DEF DecodeSettings
    <3>2. QED
      BY <3>1, WordsAre, DefaultsAreSettings DEF Settings
  <2>3. QED
    BY <2>1, <2>2
<1>3. s \in [SettingIds -> Word]
  BY <1>2 DEF DecodeSettings
<1>4. ENABLE_PUSH \in SettingIds
  BY DEF ENABLE_PUSH, SettingIds
<1>5. QED
  BY <1>2, <1>3, <1>4 DEF Settings

\* What arrives of portable settings is what was encoded, for every value of all six.
THEOREM SettingsRoundTrip ==
  ASSUME NEW s \in Settings, Portable(s)
  PROVE  DecodeSettings(EncodeSettings(s)) = s
<1> DEFINE list == EncodeSettings(s)
<1>1. DOMAIN list = Listed(s) /\ \A id \in Listed(s) : list[id] = s[id]
  BY DEF EncodeSettings
<1>2. \A id \in SettingIds : s[id] \in Word
  BY DEF Settings
<1>3. ASSUME NEW id \in SettingIds PROVE DecodeSettings(list)[id] = s[id]
  <2>1. CASE id \in Listed(s)
    <3>1. DecodeSettings(list)[id] = Adopted(id, Widened(s[id]))
      BY <1>1, <2>1 DEF DecodeSettings
    <3>2. Widened(s[id]) = s[id]
      BY <1>2, <2>1, WidenedType DEF Portable
    <3>3. Adopted(id, s[id]) = s[id]
      <4>1. CASE id = ENABLE_PUSH
        BY <4>1 DEF Adopted, Settings
      <4>2. CASE id = MAX_FRAME_SIZE
        <5>1. /\ s[id][1] = 0
              /\ s[id][2] > 0 \/ s[id][3] >= 64
              /\ s[id][2] \in Int /\ s[id][3] \in Int
          BY <1>2, <4>2 DEF Portable, Word, Octet
        <5>2. ENABLE_PUSH # MAX_FRAME_SIZE
          BY DEF ENABLE_PUSH, MAX_FRAME_SIZE
        <5>3. QED
          BY <4>2, <5>1, <5>2 DEF Adopted, ClampFrameSize
      <4>3. QED
        BY <4>1, <4>2 DEF Adopted
    <3>4. QED
      BY <3>1, <3>2, <3>3
  <2>2. CASE id \notin Listed(s)
    <3>1. s[id] = Defaults[id]
      BY <2>2 DEF Listed
    <3>2. QED
      BY <1>1, <2>2, <3>1 DEF DecodeSettings
  <2>3. QED
    BY <2>1, <2>2
<1>4. s = [id \in SettingIds |-> s[id]]
  BY DEF Settings
<1>5. DecodeSettings(list) = [id \in SettingIds |-> DecodeSettings(list)[id]]
  BY DEF DecodeSettings
<1>6. QED
  BY <1>3, <1>4, <1>5

LEMMA SettingsLengthRange ==
  ASSUME NEW s
  PROVE  SettingsLength(s) \in 0 .. 36
<1>1. IsFiniteSet(1 .. 6) /\ Cardinality(1 .. 6) = 6
  <2>1. 1 \in Int /\ 6 \in Int
    OBVIOUS
  <2>2. IsFiniteSet(1 .. 6) /\ Cardinality(1 .. 6) = IF 1 > 6 THEN 0 ELSE 6 - 1 + 1
    BY <2>1, FS_Interval, Zenon
  <2>3. QED
    BY <2>2
<1>2. IsFiniteSet(Listed(s)) /\ Cardinality(Listed(s)) <= 6
  <2>1. Listed(s) \in SUBSET (1 .. 6)
    BY DEF Listed, SettingIds
  <2>2. QED
    BY <1>1, <2>1, FS_Subset
<1>3. Cardinality(Listed(s)) \in Nat
  BY <1>2, FS_CardinalityType
<1>4. QED
  BY <1>2, <1>3 DEF SettingsLength

-----------------------------------------------------------------------------
(* Messages and openings.                                                  *)

LEMMA ContentTypes ==
  /\ Frame \subseteq Content
  /\ Ack \in Frame /\ Preface \in Content /\ nullptr \notin Frame
  /\ \A s \in ClientSettings : SettingsFrameOf(s) \in Frame /\ OpeningOf(s) \in Seq(Content)
  /\ \A frame \in Frame : frame.type \in 0 .. 255 /\ frame.length \in 0 .. MaxLength
<1>1. Frame \subseteq Content
  BY ReadRange DEF Frame, Content
<1>2. Ack \in Frame /\ Preface \in Content
  BY Constants, ReadRange, PayloadsAssumption DEF Ack, Preface, Frame, Content, Payload
<1>3. ASSUME NEW s \in ClientSettings PROVE SettingsFrameOf(s) \in Frame
  <2>1. SettingsFrameOf(s).payload \in Payloads
    BY PayloadsAssumption
  <2>2. SettingsLength(s) \in 0 .. MaxLength /\ TYPE_SETTINGS_FRAME \in 0 .. 255
    BY Constants, ReadRange, SettingsLengthRange
  <2>3. SettingsFrameOf(s) = [type |-> TYPE_SETTINGS_FRAME, length |-> SettingsLength(s),
                              payload |-> SettingsFrameOf(s).payload]
    BY DEF SettingsFrameOf
  <2>4. QED
    BY <2>1, <2>2, <2>3 DEF Frame
<1>4. \A s \in ClientSettings : OpeningOf(s) \in Seq(Content)
  BY <1>1, <1>2, <1>3 DEF OpeningOf
<1>5. \A frame \in Frame : frame.type \in 0 .. 255 /\ frame.length \in 0 .. MaxLength
  BY DEF Frame
<1>6. nullptr \notin Frame
  BY <1>5 DEF nullptr
<1>7. QED
  BY <1>1, <1>2, <1>3, <1>4, <1>5, <1>6

LEMMA OpeningsType ==
  ASSUME constructed \in ClientSettings \union {<<>>}, NEW o \in Openings
  PROVE  o \in Seq(Content) /\ \A k \in 2 .. Len(o) : o[k] \in Frame
<1>1. CASE constructed = <<>>
  BY <1>1, ConnectionAssumption DEF Openings
<1>2. CASE constructed # <<>>
  <2>1. constructed \in ClientSettings /\ o = OpeningOf(constructed)
    BY <1>2 DEF Openings
  <2>2. Len(o) = 2 /\ o[2] = SettingsFrameOf(constructed)
    BY <2>1 DEF OpeningOf
  <2>3. QED
    BY <2>1, <2>2, ContentTypes
<1>3. QED
  BY <1>1, <1>2

LEMMA LiesAppend ==
  ASSUME NEW m \in Seq(Message), NEW s \in Seq(Nat), NEW w \in Nat, Lies(m, s, w),
         NEW x \in Message, x.size = HEADER_LEN + x.content.length
  PROVE  Lies(Append(m, x), Append(s, w), w + x.size)
<1> DEFINE n == Len(m)
           mm == Append(m, x)
           ss == Append(s, w)
<1>1. /\ n \in Nat /\ Len(mm) = n + 1 /\ Len(ss) = n + 1
      /\ mm[n + 1] = x /\ ss[n + 1] = w
      /\ \A k \in 1 .. n : mm[k] = m[k] /\ ss[k] = s[k]
  BY DEF Lies
<1>2. /\ x.size \in Nat /\ x.size > 0
      /\ \A k \in 1 .. n : m[k].size \in Nat /\ m[k].size > 0 /\ s[k] \in Nat
  <2>1. ASSUME NEW y \in Message, y.size = HEADER_LEN + y.content.length
        PROVE  y.size \in Nat /\ y.size > 0
    BY <2>1, Constants DEF Message, Content
  <2>2. Len(s) = n /\ \A k \in 1 .. n : m[k] \in Message
    BY DEF Lies
  <2>3. \A k \in 1 .. n : m[k].size = HEADER_LEN + m[k].content.length
    BY DEF Lies
  <2>4. \A k \in 1 .. n : s[k] \in Nat
    BY <2>2
  <2>5. QED
    BY <2>1, <2>2, <2>3, <2>4
<1>3. /\ Len(s) = n
      /\ n = 0 => w = 0
      /\ n >= 1 => s[1] = 0
      /\ n = 1 => w = m[1].size
      /\ n >= 2 => s[2] = m[1].size /\ w >= s[2] + m[2].size
      /\ \A k \in 3 .. n : s[k] > s[2]
  BY DEF Lies
<1>4. \A k \in 1 .. n + 1 : mm[k].size = HEADER_LEN + mm[k].content.length
  <2>1. \A k \in 1 .. n : m[k].size = HEADER_LEN + m[k].content.length
    BY DEF Lies
  <2>2. QED
    BY <1>1, <2>1
<1> SUFFICES Lies(mm, ss, w + x.size)
  OBVIOUS
<1> HIDE DEF n, mm, ss
<1>5. CASE n = 0
  BY <1>1, <1>2, <1>3, <1>4, <1>5 DEF Lies
<1>6. CASE n = 1
  BY <1>1, <1>2, <1>3, <1>4, <1>6 DEF Lies
<1>7. CASE n >= 2
  <2>1. mm[1] = m[1] /\ mm[2] = m[2] /\ ss[1] = s[1] /\ ss[2] = s[2]
    BY <1>1, <1>7
  <2>2. m[1].size \in Nat /\ m[2].size \in Nat /\ m[2].size > 0 /\ s[2] \in Nat
    BY <1>1, <1>2, <1>7
  <2>3. \A k \in 3 .. n + 1 : ss[k] > ss[2]
    BY <1>1, <1>3, <1>7, <2>1, <2>2
  <2>4. ss[1] = 0 /\ ss[2] = mm[1].size /\ w + x.size >= ss[2] + mm[2].size
    BY <1>2, <1>3, <1>7, <2>1, <2>2
  <2>5. Len(mm) = n + 1 /\ Len(ss) = n + 1 /\ n + 1 >= 3
    BY <1>1, <1>7
  <2>6. QED
    BY <1>1, <1>4, <2>3, <2>4, <2>5 DEF Lies
<1>8. QED
  BY <1>1, <1>5, <1>6, <1>7

-----------------------------------------------------------------------------
(* Types.                                                                  *)

LEMMA WriteTypes ==
  ASSUME StreamsType, NEW e \in Endpoints, NEW c \in Content,
         Write(e, HEADER_LEN + c.length, c), open' \in [Endpoints -> BOOLEAN]
  PROVE  StreamsType'
<1>1. [size |-> HEADER_LEN + c.length, content |-> c] \in Message
  BY Constants DEF Message, Content
<1>2. HEADER_LEN + c.length \in Nat
  BY Constants DEF Content
<1>3. CASE open[e] /\ open[Peer(e)]
  <2>1. /\ sent' = [sent EXCEPT ![e] = Append(@, [size |-> HEADER_LEN + c.length, content |-> c])]
        /\ starts' = [starts EXCEPT ![e] = Append(@, written[e])]
        /\ written' = [written EXCEPT ![e] = @ + (HEADER_LEN + c.length)]
        /\ UNCHANGED <<cuts, arrived, consumed>>
    BY <1>3 DEF Write
  <2> DEFINE x == [size |-> HEADER_LEN + c.length, content |-> c]
             w == HEADER_LEN + c.length
  <2> HIDE DEF x, w
  <2>2. x \in Message /\ w \in Nat /\ sent' = [sent EXCEPT ![e] = Append(@, x)]
        /\ written' = [written EXCEPT ![e] = @ + w]
    BY <1>1, <1>2, <2>1 DEF x, w
  <2>3. sent' \in [Endpoints -> Seq(Message)]
    BY <2>2 DEF StreamsType
  <2>4. starts' \in [Endpoints -> Seq(Nat)]
    BY <2>1 DEF StreamsType
  <2>5. written' \in [Endpoints -> Nat] /\ \A d \in Endpoints : written[d] <= written'[d]
    BY <2>2 DEF StreamsType
  <2>6. QED
    BY <2>1, <2>3, <2>4, <2>5 DEF StreamsType
<1>4. CASE ~(open[e] /\ open[Peer(e)])
  BY <1>4 DEF Write, StreamsType, streams
<1>5. QED
  BY <1>3, <1>4

LEMMA CountRange ==
  ASSUME StreamsType, NEW e \in Endpoints, NEW limit \in Nat
  PROVE  /\ Count(e, limit) \in Nat
         /\ Count(e, limit) <= limit
         /\ Count(e, limit) <= arrived[Peer(e)] - consumed[Peer(e)]
         /\ ~open[e] => Count(e, limit) = 0
         /\ Peer(e) \in Endpoints
<1>1. Peer(e) \in Endpoints
  BY Constants
<1>2. arrived[Peer(e)] \in Nat /\ consumed[Peer(e)] \in Nat
      /\ consumed[Peer(e)] <= arrived[Peer(e)]
  BY <1>1 DEF StreamsType
<1>3. QED
  BY <1>1, <1>2, ReadRange DEF Count, Lesser

LEMMA ConsumeTypes ==
  ASSUME StreamsType, NEW e \in Endpoints, NEW limit \in Nat, Consume(e, Count(e, limit)),
         open' \in [Endpoints -> BOOLEAN]
  PROVE  StreamsType'
<1>1. /\ Count(e, limit) \in Nat /\ Peer(e) \in Endpoints
      /\ Count(e, limit) <= arrived[Peer(e)] - consumed[Peer(e)]
  BY CountRange
<1> DEFINE n == Count(e, limit)
<1> HIDE DEF n
<1>2. n \in Nat /\ n <= arrived[Peer(e)] - consumed[Peer(e)] /\ Consume(e, n)
  BY <1>1 DEF n
<1>3. /\ consumed' = [consumed EXCEPT ![Peer(e)] = @ + n]
      /\ UNCHANGED <<cuts, sent, starts, written, arrived>>
  BY <1>2 DEF Consume
<1>4. consumed' \in [Endpoints -> Nat] /\ \A d \in Endpoints : consumed'[d] <= arrived[d]
  BY <1>1, <1>2, <1>3 DEF StreamsType
<1>5. QED
  BY <1>3, <1>4 DEF StreamsType

LEMMA ArriveTypes ==
  ASSUME StreamsType, NEW e \in Endpoints, Arrive(e)
  PROVE  StreamsType'
<1>1. PICK n \in (arrived[e] + 1) .. written[e] : arrived' = [arrived EXCEPT ![e] = n]
  BY DEF Arrive
<1>2. UNCHANGED <<cuts, sent, starts, written, consumed, open>>
  BY DEF Arrive
<1>3. n \in Nat /\ arrived[e] <= n /\ n <= written[e]
  BY <1>1 DEF StreamsType
<1>4. QED
  BY <1>1, <1>2, <1>3 DEF StreamsType

-----------------------------------------------------------------------------
(* What a reader finds.                                                    *)

LEMMA ClientMessages ==
  ASSUME Types, ClientStream, NEW k \in 1 .. Len(sent["client"])
  PROVE  /\ sent["client"][k] \in Message /\ starts["client"][k] \in Nat
         /\ sent["client"][k].size = HEADER_LEN + sent["client"][k].content.length
         /\ sent["client"][k].size \in Nat /\ sent["client"][k].size >= HEADER_LEN
         /\ k >= 2 => sent["client"][k].content \in Frame
         /\ Len(starts["client"]) = Len(sent["client"])
<1>1. sent["client"] \in Seq(Message) /\ starts["client"] \in Seq(Nat)
  BY Constants DEF Types, StreamsType
<1>2. Len(starts["client"]) = Len(sent["client"])
  BY DEF ClientStream, Lies
<1>3. sent["client"][k] \in Message /\ starts["client"][k] \in Nat
  BY <1>1, <1>2
<1>4. sent["client"][k].size = HEADER_LEN + sent["client"][k].content.length
  BY DEF ClientStream, Lies
<1>5. sent["client"][k].size \in Nat /\ sent["client"][k].size >= HEADER_LEN
  BY <1>3, <1>4, Constants DEF Message, Content
<1>6. ASSUME k >= 2 PROVE sent["client"][k].content \in Frame
  <2>1. PICK o \in Openings : Begins(sent["client"], o)
    BY DEF ClientStream
  <2>2. \A j \in 2 .. Len(o) : o[j] \in Frame
    BY OpeningsType DEF Types, ConnectionType
  <2>3. o \in Seq(Content)
    BY OpeningsType DEF Types, ConnectionType
  <2>4. sent["client"][k].content = o[k] /\ k \in 2 .. Len(o)
    BY <1>1, <1>6, <2>1, <2>3 DEF Begins
  <2>5. QED
    BY <2>2, <2>4
<1>7. QED
  BY <1>2, <1>3, <1>4, <1>5, <1>6

LEMMA AtFirst ==
  ASSUME Types, ClientStream, consumed["client"] = 0, AtMessage("server")
  PROVE  Len(sent["client"]) >= 1 /\ MessageAt("server") = sent["client"][1]
<1> DEFINE s == starts["client"]
           n == Len(sent["client"])
<1>1. n \in Nat /\ Len(s) = n
  BY Constants DEF Types, StreamsType, ClientStream, Lies
<1>2. ASSUME NEW k \in 1 .. n, s[k] = 0 PROVE k = 1
  <2>1. CASE k = 2
    <3>1. s[2] = sent["client"][1].size /\ sent["client"][1].size >= HEADER_LEN
      BY <1>1, <2>1, ClientMessages DEF ClientStream, Lies
    <3>2. QED
      BY <1>1, <1>2, <2>1, <3>1, ClientMessages, Constants
  <2>2. CASE k \in 3 .. n
    <3>1. s[k] > s[2] /\ s[2] \in Nat /\ s[k] \in Nat
      BY <1>1, <2>2, ClientMessages DEF ClientStream, Lies
    <3>2. QED
      BY <1>2, <3>1
  <2>3. QED
    BY <1>1, <2>1, <2>2
<1>3. \E k \in 1 .. n : s[k] = 0
  BY <1>1, Constants DEF AtMessage
<1>4. MessageAt("server") = sent["client"][CHOOSE k \in 1 .. Len(s) : s[k] = 0]
  BY Constants DEF MessageAt
<1> HIDE DEF s, n
<1>5. (CHOOSE k \in 1 .. n : s[k] = 0) = 1
  BY <1>2, <1>3
<1>6. n >= 1
  BY <1>1, <1>3
<1>7. QED
  BY <1>1, <1>4, <1>5, <1>6 DEF n

LEMMA AtSecond ==
  ASSUME Types, ClientStream, Accepted, consumed["client"] = PREFACE_LEN,
         arrived["client"] > PREFACE_LEN
  PROVE  /\ Len(sent["client"]) >= 2
         /\ AtMessage("server") /\ MessageAt("server") = sent["client"][2]
<1> DEFINE s == starts["client"]
           n == Len(sent["client"])
<1>1. n \in Nat /\ Len(s) = n
  BY Constants DEF Types, StreamsType, ClientStream, Lies
<1>2. n >= 1 /\ sent["client"][1].size = PREFACE_LEN
  BY DEF Accepted, PrefaceMessage
<1>3. n # 1
  <2>1. arrived["client"] \in Nat /\ written["client"] \in Nat /\ arrived["client"] <= written["client"]
    BY Constants DEF Types, StreamsType
  <2>2. n = 1 => written["client"] = PREFACE_LEN
    BY <1>2 DEF ClientStream, Lies
  <2>3. QED
    BY <2>1, <2>2, Constants
<1>4. n >= 2 /\ s[2] = PREFACE_LEN /\ s[1] = 0
  <2>1. n >= 2
    <3>1. n \in Nat /\ n >= 1 /\ n # 1
      BY <1>1, <1>2, <1>3
    <3> HIDE DEF n
    <3>2. QED
      BY <3>1
  <2>2. (n >= 2 => s[2] = sent["client"][1].size) /\ (n >= 1 => s[1] = 0)
    BY DEF ClientStream, Lies
  <2>3. QED
    BY <1>2, <2>1, <2>2
<1>5. ASSUME NEW k \in 1 .. n, s[k] = PREFACE_LEN PROVE k = 2
  <2>1. CASE k = 1
    BY <1>4, <1>5, <2>1, Constants
  <2>2. CASE k \in 3 .. n
    <3>1. s[k] > s[2] /\ s[k] \in Nat
      BY <1>1, <2>2, ClientMessages DEF ClientStream, Lies
    <3>2. QED
      BY <1>4, <1>5, <3>1, Constants
  <2>3. QED
    BY <1>1, <2>1, <2>2
<1>6. MessageAt("server") = sent["client"][CHOOSE k \in 1 .. Len(s) : s[k] = PREFACE_LEN]
  BY Constants DEF MessageAt
<1>7. AtMessage("server")
  BY <1>1, <1>4, Constants DEF AtMessage
<1> HIDE DEF s, n
<1>8. (CHOOSE k \in 1 .. n : s[k] = PREFACE_LEN) = 2
  BY <1>1, <1>4, <1>5
<1>9. QED
  BY <1>1, <1>4, <1>6, <1>7, <1>8 DEF n

\* Behind the preface, what begins in the client's stream is a frame.
LEMMA LaterIsFrame ==
  ASSUME Types, ClientStream, consumed["client"] >= PREFACE_LEN, AtMessage("server")
  PROVE  MessageAt("server").content \in Frame
<1> DEFINE s == starts["client"]
           n == Len(sent["client"])
           k == CHOOSE j \in 1 .. Len(s) : s[j] = consumed["client"]
<1>1. n \in Nat /\ Len(s) = n
  BY Constants DEF Types, StreamsType, ClientStream, Lies
<1>2. \E j \in 1 .. Len(s) : s[j] = consumed["client"]
  BY Constants DEF AtMessage
<1>3. k \in 1 .. Len(s) /\ s[k] = consumed["client"]
  BY <1>2
<1>4. MessageAt("server") = sent["client"][k]
  BY Constants DEF MessageAt
<1> HIDE DEF k
<1>5. k # 1
  <2>1. n >= 1 => s[1] = 0
    BY DEF ClientStream, Lies
  <2>2. n >= 1
    BY <1>1, <1>3
  <2>3. consumed["client"] \in Nat
    BY Constants DEF Types, StreamsType
  <2>4. QED
    BY <1>3, <2>1, <2>2, <2>3, Constants
<1>6. k \in 1 .. n /\ k >= 2
  BY <1>1, <1>3, <1>5
<1>7. QED
  BY <1>4, <1>6, ClientMessages

\* The server's stream is one acknowledgement.
LEMMA AtAck ==
  ASSUME Types, ServerStream
  PROVE  /\ AtMessage("client") => MessageAt("client").content = Ack /\ pc["server"] = "ready"
         /\ consumed["server"] = 0 /\ arrived["server"] > 0 => AtMessage("client")
<1>1. CASE sent["server"] = <<>> /\ starts["server"] = <<>> /\ written["server"] = 0
  <2>1. ~AtMessage("client")
    BY <1>1, Constants DEF AtMessage
  <2>2. ~(arrived["server"] > 0)
    BY <1>1, Constants DEF Types, StreamsType
  <2>3. QED
    BY <2>1, <2>2
<1>2. CASE /\ sent["server"] = <<AckMessage>> /\ starts["server"] = <<0>>
           /\ written["server"] = HEADER_LEN /\ pc["server"] = "ready"
  <2>1. Len(starts["server"]) = 1 /\ starts["server"][1] = 0
    BY <1>2
  <2>2. AtMessage("client") <=> consumed["server"] = 0
    <3>1. AtMessage("client") <=> \E k \in 1 .. 1 : starts["server"][k] = consumed["server"]
      BY <2>1, Constants DEF AtMessage
    <3>2. QED
      BY <2>1, <3>1
  <2>3. ASSUME consumed["server"] = 0 PROVE MessageAt("client") = AckMessage
    <3>1. MessageAt("client") = sent["server"][CHOOSE k \in 1 .. 1 : starts["server"][k] = 0]
      BY <2>1, <2>3, Constants DEF MessageAt
    <3>2. (CHOOSE k \in 1 .. 1 : starts["server"][k] = 0) = 1
      BY <2>1
    <3>3. QED
      BY <1>2, <3>1, <3>2
  <2>4. QED
    BY <1>2, <2>2, <2>3 DEF AckMessage
<1>3. QED
  BY <1>1, <1>2 DEF ServerStream

-----------------------------------------------------------------------------
(* What a part of the invariant depends on.                                *)

LEMMA SameClientStream ==
  ASSUME ClientStream,
         sent'["client"] = sent["client"], starts'["client"] = starts["client"],
         written'["client"] = written["client"],
         constructed' = constructed, opening' = opening, pc'["client"] = pc["client"],
         open'["client"] = open["client"] \/ pc["client"] = "ready",
         open'["server"] => open["server"]
  PROVE  ClientStream'
<1>1. Lies(sent["client"], starts["client"], written["client"])'
  BY DEF ClientStream
<1>2. Openings' = Openings
  BY DEF Openings
<1>3. \E o \in Openings :
        /\ Begins(sent["client"], o)'
        /\ open'["server"] => Remains(sent["client"], opening, o)'
  BY DEF ClientStream, Begins, Remains
<1>4. QED
  BY <1>1, <1>2, <1>3 DEF ClientStream

LEMMA SameServerStream ==
  ASSUME ServerStream,
         sent'["server"] = sent["server"], starts'["server"] = starts["server"],
         written'["server"] = written["server"],
         pc'["server"] = "ready" <=> pc["server"] = "ready",
         open'["client"] => open["client"]
  PROVE  ServerStream'
BY DEF ServerStream

LEMMA SameClientReads ==
  ASSUME ClientReads,
         call'["client"] = call["client"], incoming'["client"] = incoming["client"],
         returned'["client"] = returned["client"], consumed'["server"] = consumed["server"],
         pc'["client"] = "constructing" => pc["client"] = "constructing",
         pc["server"] = "ready" => pc'["server"] = "ready"
  PROVE  ClientReads'
BY DEF ClientReads, AckMeansAdopted

\* The client's stream may have grown meanwhile.
Grows ==
  /\ Len(sent'["client"]) \in Nat
  /\ Len(sent'["client"]) >= Len(sent["client"])
  /\ \A k \in 1 .. Len(sent["client"]) : sent'["client"][k] = sent["client"][k]

LEMMA SameServerReads ==
  ASSUME Types, ServerReads,
         pc'["server"] = pc["server"], call'["server"] = call["server"],
         incoming'["server"] = incoming["server"], returned'["server"] = returned["server"],
         consumed'["client"] = consumed["client"],
         open'["server"] # open["server"] => pc["server"] \in {"ready", "closed"} /\ ~open'["server"],
         Grows
  PROVE  ServerReads'
<1>1. Len(sent["client"]) \in Nat
  BY Constants DEF Types, StreamsType
<1>2. Accepted => Accepted'
  BY <1>1 DEF Grows, Accepted, PrefaceMessage, Preface, NoPayload, Payload, PREFACE_LEN
<1>3. Len(sent["client"]) >= 2 => Len(sent'["client"]) >= 2 /\ Second' = Second
  BY <1>1 DEF Grows, Second
<1>4. pc["server"] = "preface" => BeforePreface'
  BY DEF ServerReads, BeforePreface
<1>5. pc["server"] = "settings" => BeforeSettings'
  BY <1>2, <1>3 DEF ServerReads, BeforeSettings, PREFACE_LEN, HEADER_LEN, nullptr
<1>6. QED
  BY <1>2, <1>4, <1>5 DEF ServerReads, PREFACE_LEN

LEMMA SameGood ==
  ASSUME Good, UNCHANGED <<cuts, constructed>>, pc'["server"] = pc["server"],
         arrived'["client"] = arrived["client"], written'["client"] = written["client"],
         call'["server"] = call["server"], returned'["server"] = returned["server"]
  PROVE  Good'
BY DEF Good, GoodClient, PREFACE_LEN, nullptr

-----------------------------------------------------------------------------
(* What the calls of the socket do, per endpoint.                          *)

LEMMA WriteEffect ==
  ASSUME Types, NEW e \in Endpoints, NEW c \in Content, Write(e, HEADER_LEN + c.length, c)
  PROVE  /\ UNCHANGED <<cuts, arrived, consumed>>
         /\ \A d \in Endpoints : d # e =>
              sent'[d] = sent[d] /\ starts'[d] = starts[d] /\ written'[d] = written[d]
         /\ IF open["client"] /\ open["server"]
            THEN /\ sent'[e] = Append(sent[e], [size |-> HEADER_LEN + c.length, content |-> c])
                 /\ starts'[e] = Append(starts[e], written[e])
                 /\ written'[e] = written[e] + (HEADER_LEN + c.length)
            ELSE sent'[e] = sent[e] /\ starts'[e] = starts[e] /\ written'[e] = written[e]
<1>1. open[e] /\ open[Peer(e)] <=> open["client"] /\ open["server"]
  BY Constants
<1>2. CASE open[e] /\ open[Peer(e)]
  <2>1. /\ sent' = [sent EXCEPT ![e] = Append(@, [size |-> HEADER_LEN + c.length, content |-> c])]
        /\ starts' = [starts EXCEPT ![e] = Append(@, written[e])]
        /\ written' = [written EXCEPT ![e] = @ + (HEADER_LEN + c.length)]
        /\ UNCHANGED <<cuts, arrived, consumed>>
    BY <1>2 DEF Write
  <2>2. e \in DOMAIN sent /\ e \in DOMAIN starts /\ e \in DOMAIN written
        /\ DOMAIN sent = Endpoints /\ DOMAIN starts = Endpoints /\ DOMAIN written = Endpoints
    BY DEF Types, StreamsType
  <2> DEFINE x == [size |-> HEADER_LEN + c.length, content |-> c]
             w == HEADER_LEN + c.length
  <2> HIDE DEF x, w
  <2>3. sent' = [sent EXCEPT ![e] = Append(@, x)] /\ written' = [written EXCEPT ![e] = @ + w]
    BY <2>1 DEF x, w
  <2>4. sent'[e] = Append(sent[e], x) /\ starts'[e] = Append(starts[e], written[e])
        /\ written'[e] = written[e] + w
    BY <2>1, <2>2, <2>3
  <2>5. \A d \in Endpoints : d # e =>
          sent'[d] = sent[d] /\ starts'[d] = starts[d] /\ written'[d] = written[d]
    BY <2>1, <2>2, <2>3
  <2>6. QED
    BY <1>1, <1>2, <2>1, <2>4, <2>5 DEF x, w
<1>3. CASE ~(open[e] /\ open[Peer(e)])
  BY <1>1, <1>3 DEF Write, streams
<1>4. QED
  BY <1>2, <1>3

LEMMA ConsumeEffect ==
  ASSUME Types, NEW e \in Endpoints, NEW n, Consume(e, n)
  PROVE  /\ UNCHANGED <<cuts, sent, starts, written, arrived>>
         /\ consumed'[e] = consumed[e]
         /\ consumed'[Peer(e)] = consumed[Peer(e)] + n
<1>1. Peer(e) \in Endpoints /\ Peer(e) # e
  BY Constants
<1>2. QED
  BY <1>1 DEF Consume, Types, StreamsType

\* The two outcomes of the first read.
LEMMA HeaderRead ==
  ASSUME Types, NEW e \in Endpoints, ReadHeader(e),
         open[e] /\ AtMessage(e) => MessageAt(e).content \in Frame
  PROVE  /\ StreamsType' /\ ReceivingType'
         /\ Consume(e, Count(e, HEADER_LEN)) /\ UNCHANGED open /\ Readable(e, HEADER_LEN)
         /\ call[e] = "header"
         /\ \A d \in Endpoints : d # e =>
              call'[d] = call[d] /\ incoming'[d] = incoming[d] /\ returned'[d] = returned[d]
         /\ \/ /\ Count(e, HEADER_LEN) # HEADER_LEN
                  \/ (AtMessage(e) => MessageAt(e).content.type > MAX_TYPE)
               /\ returned'[e] = Append(returned[e], nullptr) /\ call'[e] = "none"
            \/ /\ Count(e, HEADER_LEN) = HEADER_LEN
               /\ AtMessage(e) => incoming'[e] = MessageAt(e).content
               /\ returned'[e] = returned[e] /\ call'[e] = "payload"
<1> DEFINE n == Count(e, HEADER_LEN)
<1>1. /\ call[e] = "header" /\ Readable(e, HEADER_LEN) /\ Consume(e, n) /\ UNCHANGED open
      /\ IF n # HEADER_LEN
         THEN Return(e, nullptr) /\ UNCHANGED incoming
         ELSE \E header \in IF AtMessage(e) THEN {MessageAt(e).content} ELSE Garbage :
                IF header.type > MAX_TYPE
                THEN Return(e, nullptr) /\ UNCHANGED incoming
                ELSE /\ incoming' = [incoming EXCEPT ![e] = header]
                     /\ call' = [call EXCEPT ![e] = "payload"]
                     /\ UNCHANGED returned
  BY DEF ReadHeader
<1>2. HEADER_LEN \in Nat /\ open' \in [Endpoints -> BOOLEAN] /\ StreamsType
  BY <1>1, Constants DEF Types, StreamsType
<1>3. StreamsType'
  BY <1>1, <1>2, ConsumeTypes
<1>4. n = HEADER_LEN => open[e]
  BY <1>2, CountRange, Constants
<1> HIDE DEF n
<1>5. ASSUME Return(e, nullptr), UNCHANGED incoming,
             n # HEADER_LEN \/ (AtMessage(e) => MessageAt(e).content.type > MAX_TYPE)
      PROVE  /\ ReceivingType'
             /\ \A d \in Endpoints : d # e =>
                  call'[d] = call[d] /\ incoming'[d] = incoming[d] /\ returned'[d] = returned[d]
             /\ returned'[e] = Append(returned[e], nullptr) /\ call'[e] = "none"
  BY <1>5 DEF Return, Types, ReceivingType
<1>6. ASSUME NEW header \in IF AtMessage(e) THEN {MessageAt(e).content} ELSE Garbage,
             n = HEADER_LEN,
             incoming' = [incoming EXCEPT ![e] = header],
             call' = [call EXCEPT ![e] = "payload"], UNCHANGED returned
      PROVE  /\ ReceivingType'
             /\ \A d \in Endpoints : d # e =>
                  call'[d] = call[d] /\ incoming'[d] = incoming[d] /\ returned'[d] = returned[d]
             /\ AtMessage(e) => incoming'[e] = MessageAt(e).content
             /\ returned'[e] = returned[e] /\ call'[e] = "payload"
  <2>1. header \in Frame
    BY <1>4, <1>6, FrameStreamAssumption
  <2>2. QED
    BY <1>6, <2>1 DEF Types, ReceivingType
<1>7. CASE n # HEADER_LEN
  BY <1>1, <1>3, <1>5, <1>7 DEF n
<1>8. CASE n = HEADER_LEN
  <2>1. PICK header \in IF AtMessage(e) THEN {MessageAt(e).content} ELSE Garbage :
          IF header.type > MAX_TYPE
          THEN Return(e, nullptr) /\ UNCHANGED incoming
          ELSE /\ incoming' = [incoming EXCEPT ![e] = header]
               /\ call' = [call EXCEPT ![e] = "payload"]
               /\ UNCHANGED returned
    BY <1>1, <1>8
  <2>2. CASE header.type > MAX_TYPE
    <3>1. AtMessage(e) => MessageAt(e).content.type > MAX_TYPE
      BY <2>1, <2>2
    <3>2. QED
      BY <1>1, <1>3, <1>5, <2>1, <2>2, <3>1 DEF n
  <2>3. CASE ~(header.type > MAX_TYPE)
    BY <1>1, <1>3, <1>6, <1>8, <2>1, <2>3 DEF n
  <2>4. QED
    BY <2>2, <2>3
<1>9. QED
  BY <1>7, <1>8

LEMMA ReadLengthType ==
  ASSUME NEW length \in Nat
  PROVE  ReadLength(length) \in Nat /\ (length <= 36 => ReadLength(length) = length)
<1>1. ReadLength(length) \in Nat
  BY ReadRange DEF ReadLength
<1>2. ASSUME length <= 36 PROVE ReadLength(length) = length
  <2>1. length % 256 = length /\ (length \div 256) % 256 = 0 /\ length \div 65536 = 0
    BY <1>2
  <2>2. QED
    BY <1>2, <2>1 DEF ReadLength, LengthOctets
<1>3. QED
  BY <1>1, <1>2

\* The second read, and what RecvFrame returns.
LEMMA PayloadRead ==
  ASSUME Types, NEW e \in Endpoints, ReadPayload(e)
  PROVE  LET length == ReadLength(incoming[e].length) IN
         /\ StreamsType' /\ ReceivingType'
         /\ length \in Nat /\ Readable(e, length) /\ Consume(e, Count(e, length))
         /\ UNCHANGED open /\ call[e] = "payload"
         /\ \A d \in Endpoints : d # e =>
              call'[d] = call[d] /\ incoming'[d] = incoming[d] /\ returned'[d] = returned[d]
         /\ returned'[e] =
              Append(returned[e], IF Count(e, length) = length THEN incoming[e] ELSE nullptr)
         /\ call'[e] = "none"
<1> DEFINE length == ReadLength(incoming[e].length)
           frame == IF Count(e, length) = length THEN incoming[e] ELSE nullptr
<1>1. incoming[e].length \in Nat
  <2>1. incoming[e] \in Frame \union {nullptr}
    BY DEF Types, ReceivingType
  <2>2. \A x \in Frame : x.length \in Nat
    BY ContentTypes, ReadRange
  <2>3. nullptr.length \in Nat
    BY DEF nullptr
  <2>4. QED
    BY <2>1, <2>2, <2>3
<1>2. length \in Nat
  BY <1>1, ReadLengthType
<1>3. frame \in Frame \union {nullptr}
  BY DEF Types, ReceivingType
<1>4. /\ call[e] = "payload" /\ Readable(e, length) /\ Consume(e, Count(e, length))
      /\ Return(e, frame) /\ incoming' = [incoming EXCEPT ![e] = nullptr] /\ UNCHANGED open
  BY DEF ReadPayload, FrameRead
<1>5. StreamsType'
  BY <1>2, <1>4, ConsumeTypes DEF Types, StreamsType
<1> HIDE DEF frame, length
<1>6. /\ ReceivingType'
      /\ \A d \in Endpoints : d # e =>
           call'[d] = call[d] /\ incoming'[d] = incoming[d] /\ returned'[d] = returned[d]
      /\ returned'[e] = Append(returned[e], frame) /\ call'[e] = "none"
  BY <1>3, <1>4 DEF Return, Types, ReceivingType
<1>7. QED
  BY <1>2, <1>4, <1>5, <1>6 DEF frame, length

-----------------------------------------------------------------------------
(* The steps of the constructors.                                          *)

LEMMA Start == Init => IInv
<1> SUFFICES ASSUME Init PROVE IInv
  OBVIOUS
<1>1. /\ sent = [e \in Endpoints |-> <<>>] /\ starts = [e \in Endpoints |-> <<>>]
      /\ written = [e \in Endpoints |-> 0] /\ arrived = [e \in Endpoints |-> 0]
      /\ consumed = [e \in Endpoints |-> 0] /\ open = [e \in Endpoints |-> TRUE]
      /\ cuts \in CutSets
      /\ call = [e \in Endpoints |-> "none"] /\ incoming = [e \in Endpoints |-> nullptr]
      /\ returned = [e \in Endpoints |-> <<>>]
      /\ pc = [e \in Endpoints |-> IF e = "client" THEN "constructing" ELSE "preface"]
      /\ table_max = [e \in Endpoints |-> <<>>]
      /\ stream_list = [e \in Endpoints |-> <<>>]
      /\ requested = [e \in Endpoints |-> <<>>]
      /\ settings \in [Endpoints -> {Defaults} \union ClientSettings]
  BY DEF Init, FramesInit, SocketInit
<1>2. constructed \in ClientSettings \union {<<>>} /\ opening \in Openings
  <2>1. CASE /\ settings["client"] \in ClientSettings
             /\ constructed = settings["client"] /\ opening = OpeningOf(constructed)
    <3>1. constructed # <<>>
      <4>1. constructed \in Settings
        BY <2>1, ConnectionAssumption
      <4>2. DOMAIN constructed = SettingIds /\ 1 \in SettingIds
        BY <4>1 DEF Settings, SettingIds
      <4>3. 1 \notin DOMAIN <<>>
        OBVIOUS
      <4>4. QED
        BY <4>2, <4>3
    <3>2. QED
      BY <2>1, <3>1 DEF Openings
  <2>2. CASE constructed = <<>> /\ opening \in Foreign
    BY <2>2 DEF Openings
  <2>3. QED
    BY <2>1, <2>2 DEF Init
<1>3. opening \in Seq(Content)
  BY <1>2, OpeningsType
<1>4. StreamsType
  BY <1>1 DEF StreamsType
<1>5. ReceivingType
  BY <1>1 DEF ReceivingType
<1>6. ConnectionType
  <2>1. settings \in [Endpoints -> Settings]
    <3>1. {Defaults} \union ClientSettings \subseteq Settings
      BY DefaultsAreSettings, ConnectionAssumption
    <3>2. QED
      BY <1>1, <3>1
  <2>2. requested \in [Endpoints -> Seq({PriorityFrame})]
        /\ \A e \in Endpoints : Len(requested[e]) <= MaxRequests
    BY <1>1, ConnectionAssumption
  <2>3. pc \in [Endpoints -> pcs] /\ table_max \in [Endpoints -> Word \union {<<>>}]
    BY <1>1 DEF pcs
  <2>4. QED
    BY <1>1, <1>2, <1>3, <2>1, <2>2, <2>3 DEF ConnectionType
<1>7. ClientStream
  <2>1. Lies(sent["client"], starts["client"], written["client"])
    BY <1>1, Constants DEF Lies
  <2>2. Begins(sent["client"], opening) /\ Remains(sent["client"], opening, opening)
    BY <1>1, <1>3, Constants DEF Begins, Remains
  <2>3. pc["client"] = "constructing" /\ open["client"]
    BY <1>1, Constants
  <2>4. QED
    BY <1>2, <2>1, <2>2, <2>3 DEF ClientStream
<1>8. ServerStream
  BY <1>1, Constants DEF ServerStream
<1>9. ClientReads
  BY <1>1, Constants DEF ClientReads, AckMeansAdopted
<1>10. ServerReads
  BY <1>1, Constants DEF ServerReads, BeforePreface
<1>11. Good
  BY <1>1, Constants DEF Good
<1>12. QED
  BY <1>4, <1>5, <1>6, <1>7, <1>8, <1>9, <1>10, <1>11 DEF IInv, Types

\* A good client's opening is the preface and its SETTINGS.
LEMMA GoodOpening ==
  ASSUME Types, ClientStream, GoodClient
  PROVE  /\ Len(sent["client"]) <= 2
         /\ Len(sent["client"]) >= 1 => sent["client"][1] = PrefaceMessage
         /\ Len(sent["client"]) = 1 => written["client"] = PREFACE_LEN
         /\ Len(sent["client"]) = 2 =>
              /\ Second = SettingsFrameOf(constructed)
              /\ starts["client"][2] = PREFACE_LEN
              /\ written["client"] = PREFACE_LEN + HEADER_LEN + SettingsLength(constructed)
         /\ open["server"] => Len(sent["client"]) + Len(opening) = 2
         /\ constructed \in ClientSettings
<1> DEFINE m == sent["client"]
<1>1. constructed \in ClientSettings /\ Openings = {OpeningOf(constructed)}
  BY DEF GoodClient, Types, ConnectionType, Openings
<1>2. /\ Begins(m, OpeningOf(constructed))
      /\ open["server"] => Remains(m, opening, OpeningOf(constructed))
  BY <1>1 DEF ClientStream
<1>3. /\ Len(OpeningOf(constructed)) = 2
      /\ OpeningOf(constructed)[1] = Preface
      /\ OpeningOf(constructed)[2] = SettingsFrameOf(constructed)
  BY DEF OpeningOf
<1>4. m \in Seq(Message) /\ Len(m) \in Nat
  BY Constants DEF Types, StreamsType
<1>5. Len(m) <= 2 /\ \A k \in 1 .. Len(m) : m[k].content = OpeningOf(constructed)[k]
  BY <1>2, <1>3 DEF Begins
<1>6. ASSUME Len(m) >= 1 PROVE m[1] = PrefaceMessage
  <2>1. 1 \in 1 .. Len(m)
    BY <1>4, <1>6
  <2>2. m[1] \in Message
    BY <1>4, <2>1
  <2>3. m[1].content = Preface /\ m[1].size = HEADER_LEN + m[1].content.length
    BY <1>3, <1>5, <2>1, ClientMessages
  <2>4. m[1].size = PREFACE_LEN
    BY <2>3, Constants DEF Preface
  <2>5. m[1] = [size |-> m[1].size, content |-> m[1].content]
    BY <2>2 DEF Message
  <2>6. QED
    BY <2>3, <2>4, <2>5 DEF PrefaceMessage
<1>7. ASSUME Len(m) = 1 PROVE written["client"] = PREFACE_LEN
  BY <1>6, <1>7 DEF ClientStream, Lies, PrefaceMessage
<1>8. ASSUME Len(m) = 2
      PROVE  /\ Second = SettingsFrameOf(constructed)
             /\ starts["client"][2] = PREFACE_LEN
             /\ written["client"] = PREFACE_LEN + HEADER_LEN + SettingsLength(constructed)
  <2>1. Second = SettingsFrameOf(constructed)
    BY <1>3, <1>5, <1>8 DEF Second
  <2>2. m[1].size = PREFACE_LEN
    BY <1>6, <1>8 DEF PrefaceMessage
  <2>3. m[2].size = HEADER_LEN + Second.length
    BY <1>8, ClientMessages DEF Second
  <2>4. starts["client"][2] = m[1].size /\ written["client"] = starts["client"][2] + m[2].size
    BY <1>8 DEF ClientStream, Lies
  <2>5. Second.length = SettingsLength(constructed) /\ SettingsLength(constructed) \in Int
    BY <2>1, SettingsLengthRange DEF SettingsFrameOf
  <2>6. QED
    BY <2>1, <2>2, <2>3, <2>4, <2>5, Constants
<1>9. open["server"] => Len(m) + Len(opening) = 2
  BY <1>2, <1>3 DEF Remains
<1>10. QED
  BY <1>1, <1>5, <1>6, <1>7, <1>8, <1>9

LEMMA SmallSum ==
  ASSUME NEW n \in Nat
  PROVE  /\ n >= 1 /\ n <= 2 => n = 1 \/ n = 2
         /\ n >= 2 /\ n <= 2 => n = 2
         /\ 2 \in 1 .. n => n >= 2
         /\ \A j \in Nat : j >= 1 /\ n + j = 2 => n \in {0, 1}
OBVIOUS

LEMMA GoodWritten ==
  ASSUME Types, ClientStream, GoodClient, Len(sent["client"]) >= 1
  PROVE  /\ written["client"] \in Nat /\ written["client"] >= PREFACE_LEN
         /\ written["client"] # 0
         /\ Len(sent["client"]) = 2 => written["client"] >= PREFACE_LEN + HEADER_LEN
<1>1. Len(sent["client"]) \in Nat /\ Len(sent["client"]) <= 2 /\ written["client"] \in Nat
  BY GoodOpening, Constants DEF Types, StreamsType
<1>2. CASE Len(sent["client"]) = 1
  <2>1. written["client"] = PREFACE_LEN
    BY <1>2, GoodOpening
  <2>2. QED
    BY <1>2, <2>1, Constants
<1>3. CASE Len(sent["client"]) = 2
  <2>1. written["client"] = PREFACE_LEN + HEADER_LEN + SettingsLength(constructed)
    BY <1>3, GoodOpening
  <2>2. SettingsLength(constructed) \in 0 .. 36
    BY SettingsLengthRange
  <2>3. QED
    <3> DEFINE w == written["client"]
               l == SettingsLength(constructed)
    <3>1. w \in Nat /\ w = PREFACE_LEN + HEADER_LEN + l /\ l \in 0 .. 36
      BY <1>1, <2>1, <2>2
    <3> HIDE DEF w, l
    <3>2. w >= PREFACE_LEN /\ w # 0 /\ w >= PREFACE_LEN + HEADER_LEN
      BY <3>1 DEF PREFACE_LEN, HEADER_LEN
    <3>3. QED
      BY <3>1, <3>2 DEF w
<1>4. Len(sent["client"]) = 1 \/ Len(sent["client"]) = 2
  BY <1>1, SmallSum
<1>5. QED
  BY <1>2, <1>3, <1>4

LEMMA OpenStep ==
  ASSUME IInv, Open
  PROVE  IInv'
<1> DEFINE c == Head(opening)
           m == sent["client"]
           x == [size |-> HEADER_LEN + c.length, content |-> c]
<1>1. /\ pc["client"] = "constructing" /\ opening # <<>>
      /\ Write("client", HEADER_LEN + c.length, c)
      /\ opening' = Tail(opening)
      /\ pc' = [pc EXCEPT !["client"] = IF Len(opening) = 1 THEN "ready" ELSE @]
      /\ UNCHANGED <<open, call, incoming, returned, constructed, settings, table_max,
                     stream_list, requested>>
  BY DEF Open, receiving
<1>2. Types /\ ClientStream /\ ServerStream /\ ClientReads /\ ServerReads /\ Good
  BY DEF IInv
<1>3. /\ opening \in Seq(Content) /\ Len(opening) \in Nat /\ Len(opening) >= 1
      /\ c \in Content /\ c = opening[1]
      /\ Tail(opening) \in Seq(Content) /\ Len(Tail(opening)) = Len(opening) - 1
      /\ \A k \in 1 .. Len(Tail(opening)) : Tail(opening)[k] = opening[k + 1]
  BY <1>1, <1>2 DEF Types, ConnectionType
<1>4. /\ UNCHANGED <<cuts, arrived, consumed>>
      /\ sent'["server"] = sent["server"] /\ starts'["server"] = starts["server"]
      /\ written'["server"] = written["server"]
      /\ IF open["client"] /\ open["server"]
         THEN /\ sent'["client"] = Append(m, x)
              /\ starts'["client"] = Append(starts["client"], written["client"])
              /\ written'["client"] = written["client"] + (HEADER_LEN + c.length)
         ELSE /\ sent'["client"] = m /\ starts'["client"] = starts["client"]
              /\ written'["client"] = written["client"]
  <2>1. "client" \in Endpoints /\ "server" \in Endpoints
    BY Constants
  <2> HIDE DEF c
  <2>2. QED
    BY <1>1, <1>2, <1>3, <2>1, WriteEffect
<1>5. /\ pc'["server"] = pc["server"]
      /\ pc'["client"] = IF Len(opening) = 1 THEN "ready" ELSE "constructing"
  BY <1>1, <1>2, Constants DEF Types, ConnectionType
<1>6. open["client"]
  BY <1>1, <1>2 DEF ClientStream
<1>7. m \in Seq(Message) /\ starts["client"] \in Seq(Nat) /\ written["client"] \in Nat
      /\ arrived["client"] \in Nat
  BY <1>2, Constants DEF Types, StreamsType
<1>8. x \in Message /\ x.size = HEADER_LEN + x.content.length
  BY <1>3, Constants DEF Message, Content
<1> HIDE DEF c
<1>9. Types'
  <2>1. StreamsType'
    <3>1. "client" \in Endpoints /\ open' \in [Endpoints -> BOOLEAN] /\ StreamsType
      BY <1>1, <1>2, Constants DEF Types, StreamsType
    <3>2. QED
      BY <1>1, <1>3, <3>1, WriteTypes
  <2>2. ReceivingType'
    BY <1>1, <1>2 DEF Types, ReceivingType
  <2>3. ConnectionType'
    BY <1>1, <1>2, <1>3 DEF Types, ConnectionType, pcs
  <2>4. QED
    BY <2>1, <2>2, <2>3 DEF Types
<1>10. ClientStream'
  <2>1. PICK o \in Openings : Begins(m, o) /\ (open["server"] => Remains(m, opening, o))
    BY <1>2 DEF ClientStream
  <2>2. o \in Seq(Content)
    BY <1>2, <2>1, OpeningsType DEF Types, ConnectionType
  <2>3. Openings' = Openings
    BY <1>1 DEF Openings
  <2>4. pc'["client"] \in {"constructing", "ready"}
        /\ (pc'["client"] = "constructing" => open'["client"])
    BY <1>1, <1>5, <1>6
  <2>5. pc'["client"] = "ready" => opening' = <<>>
    <3>1. Len(opening) = 1 => Tail(opening) = <<>>
      <4> DEFINE t == Tail(opening)
      <4>1. t \in Seq(Content) /\ Len(t) = Len(opening) - 1
        BY <1>3
      <4> HIDE DEF t
      <4>2. Len(opening) = 1 => t = <<>>
        BY <4>1
      <4>3. QED
        BY <4>2 DEF t
    <3>2. QED
      BY <1>1, <1>5, <3>1
  <2>6. CASE open["server"]
    <3>1. /\ sent'["client"] = Append(m, x)
          /\ starts'["client"] = Append(starts["client"], written["client"])
          /\ written'["client"] = written["client"] + x.size
      BY <1>4, <1>6, <2>6
    <3>2. Lies(sent["client"], starts["client"], written["client"])'
      <4>1. Lies(m, starts["client"], written["client"])
        BY <1>2 DEF ClientStream
      <4> HIDE DEF x
      <4>2. QED
        BY <1>7, <1>8, <3>1, <4>1, LiesAppend
    <3>3. /\ Len(m) + Len(opening) = Len(o) /\ Len(m) \in Nat
          /\ \A k \in 1 .. Len(opening) : opening[k] = o[Len(m) + k]
          /\ \A k \in 1 .. Len(m) : m[k].content = o[k]
      BY <1>7, <2>1, <2>6 DEF Begins, Remains
    <3>4. x.content = o[Len(m) + 1]
      BY <1>3, <3>3
    <3>5. Begins(Append(m, x), o)
      <4>1. Len(Append(m, x)) = Len(m) + 1 /\ Append(m, x)[Len(m) + 1] = x
            /\ \A k \in 1 .. Len(m) : Append(m, x)[k] = m[k]
        BY <1>7, <1>8
      <4> HIDE DEF x
      <4>2. \A k \in 1 .. Len(m) + 1 : Append(m, x)[k].content = o[k]
        BY <3>3, <3>4, <4>1
      <4>3. QED
        BY <1>3, <3>3, <4>1, <4>2 DEF Begins
    <3>6. Remains(Append(m, x), Tail(opening), o)
      <4>1. Len(Append(m, x)) = Len(m) + 1
        BY <1>7, <1>8
      <4> HIDE DEF x
      <4>2. QED
        BY <1>3, <3>3, <4>1 DEF Remains
    <3>7. Begins(sent["client"], o)' /\ Remains(sent["client"], opening, o)'
      BY <1>1, <3>1, <3>5, <3>6 DEF Begins, Remains
    <3>8. QED
      BY <2>1, <2>3, <2>4, <2>5, <3>2, <3>7 DEF ClientStream
  <2>7. CASE ~open["server"]
    <3>1. Lies(sent["client"], starts["client"], written["client"])'
      BY <1>2, <1>4, <2>7 DEF ClientStream
    <3>2. Begins(sent["client"], o)' /\ ~open'["server"]
      BY <1>1, <1>4, <2>1, <2>7 DEF Begins
    <3>3. QED
      BY <2>1, <2>3, <2>4, <2>5, <3>1, <3>2 DEF ClientStream
  <2>8. QED
    BY <2>6, <2>7
<1>11. ServerStream'
  BY <1>1, <1>2, <1>4, <1>5, SameServerStream
<1>12. ClientReads'
  BY <1>1, <1>2, <1>4, <1>5, SameClientReads
<1>13. ServerReads'
  <2>1. Grows
    <3>1. Len(Append(m, x)) = Len(m) + 1 /\ \A k \in 1 .. Len(m) : Append(m, x)[k] = m[k]
      BY <1>7, <1>8
    <3> HIDE DEF x
    <3>2. QED
      BY <1>4, <1>7, <3>1 DEF Grows
  <2>2. /\ pc'["server"] = pc["server"] /\ call'["server"] = call["server"]
        /\ incoming'["server"] = incoming["server"] /\ returned'["server"] = returned["server"]
        /\ consumed'["client"] = consumed["client"] /\ open'["server"] = open["server"]
    BY <1>1, <1>4, <1>5
  <2>3. Types /\ ServerReads
    BY <1>2
  <2>4. QED
    BY <2>1, <2>2, <2>3, SameServerReads
<1>14. Good'
  <2> SUFFICES ASSUME GoodClient PROVE Good'
    BY <1>1, <1>4 DEF Good, GoodClient
  <2>1. CASE open["server"]
    <3>1. Len(m) + Len(opening) = 2 /\ Len(m) \in Nat
          /\ (Len(m) = 1 => written["client"] = PREFACE_LEN)
          /\ (Len(m) = 0 => written["client"] = 0)
      BY <1>2, <1>7, <2>1, GoodOpening DEF ClientStream, Lies
    <3>2. arrived["client"] \in {0, PREFACE_LEN}
      <4>1. arrived["client"] \in {0, PREFACE_LEN, written["client"]}
        BY <1>2 DEF Good
      <4>2. Len(m) \in {0, 1}
        <5>1. Len(m) \in Nat /\ Len(opening) \in Nat /\ Len(opening) >= 1
              /\ Len(m) + Len(opening) = 2
          BY <1>3, <3>1
        <5>2. QED
          BY <5>1, SmallSum
      <4>3. QED
        BY <3>1, <4>1, <4>2
    <3>3. ~(pc["server"] = "settings" /\ call["server"] = "payload")
      <4>1. Len(m) < 2
        BY <1>3, <3>1
      <4>2. QED
        BY <1>2, <3>1, <4>1 DEF ServerReads, BeforeSettings
    <3>4. QED
      BY <1>1, <1>2, <1>4, <1>5, <3>2, <3>3 DEF Good, PREFACE_LEN, nullptr
  <2>2. CASE ~open["server"]
    BY <1>1, <1>2, <1>4, <1>5, <2>2, SameGood
  <2>3. QED
    BY <2>1, <2>2
<1>15. QED
  BY <1>9, <1>10, <1>11, <1>12, <1>13, <1>14 DEF IInv

LEMMA RecvPrefaceStep ==
  ASSUME IInv, RecvPreface
  PROVE  IInv'
<1> DEFINE n == Count("server", PREFACE_LEN)
           accepted == n = PREFACE_LEN /\ AtMessage("server") /\ MessageAt("server") =
                         [size |-> PREFACE_LEN, content |-> Preface]
<1>1. /\ pc["server"] = "preface" /\ Readable("server", PREFACE_LEN) /\ Consume("server", n)
      /\ pc' = [pc EXCEPT !["server"] = IF accepted THEN "settings" ELSE "closed"]
      /\ open' = [open EXCEPT !["server"] = accepted]
      /\ call' = [call EXCEPT !["server"] = IF accepted THEN "header" ELSE @]
      /\ UNCHANGED <<incoming, returned, opening, constructed, settings, table_max,
                     stream_list, requested>>
  BY DEF RecvPreface
<1>2. Types /\ ClientStream /\ ServerStream /\ ClientReads /\ ServerReads /\ Good
  BY DEF IInv
<1>3. /\ UNCHANGED <<cuts, sent, starts, written, arrived>>
      /\ consumed'["server"] = consumed["server"]
      /\ consumed'["client"] = consumed["client"] + n
  BY <1>1, <1>2, ConsumeEffect, Constants
<1>4. /\ open["server"] /\ call["server"] = "none" /\ returned["server"] = <<>>
      /\ consumed["client"] = 0
  BY <1>1, <1>2 DEF ServerReads, BeforePreface
<1>5. accepted \in BOOLEAN
  OBVIOUS
<1>6. /\ n \in Nat /\ n <= arrived["client"] /\ arrived["client"] \in Nat
  <2>1. arrived["client"] \in Nat
    BY <1>2, Constants DEF Types, StreamsType
  <2>2. QED
    BY <1>2, <1>4, <2>1, CountRange, Constants DEF Types
<1>7. accepted => Accepted
  BY <1>2, <1>4, AtFirst DEF Accepted, PrefaceMessage
<1>8. GoodClient => accepted
  <2> SUFFICES ASSUME GoodClient PROVE accepted
    OBVIOUS
  <2>1. Len(sent["client"]) + Len(opening) = 2 /\ Len(sent["client"]) \in Nat
        /\ Len(opening) \in Nat
    BY <1>2, <1>4, GoodOpening, Constants DEF Types, StreamsType, ConnectionType
  <2>2. arrived["client"] > 0
    <3>1. CASE open["client"]
      BY <1>1, <1>2, <1>4, <1>6, <3>1, Constants DEF Readable
    <3>2. CASE ~open["client"]
      <4>1. opening = <<>>
        BY <1>2, <3>2 DEF ClientStream
      <4>2. Len(sent["client"]) = 2
        BY <2>1, <4>1
      <4>3. written["client"] # 0
        BY <1>2, <4>2, GoodWritten
      <4>4. QED
        BY <1>1, <1>4, <1>6, <4>3, Constants DEF Readable
    <3>3. QED
      BY <3>1, <3>2
  <2>3. Len(sent["client"]) >= 1
    <3>1. arrived["client"] <= written["client"] /\ written["client"] \in Nat
      BY <1>2, Constants DEF Types, StreamsType
    <3>2. Len(sent["client"]) = 0 => written["client"] = 0
      BY <1>2 DEF ClientStream, Lies
    <3>3. QED
      BY <1>6, <2>1, <2>2, <3>1, <3>2
  <2>4. arrived["client"] >= PREFACE_LEN
    <3>1. written["client"] >= PREFACE_LEN
      BY <1>2, <2>3, GoodWritten
    <3>2. arrived["client"] \in {0, PREFACE_LEN, written["client"]}
      BY <1>2 DEF Good
    <3>3. QED
      BY <2>2, <3>1, <3>2, Constants
  <2>5. n = PREFACE_LEN
    BY <1>4, <1>6, <2>4, ReadRange, Constants DEF Count, Lesser
  <2>6. AtMessage("server") /\ MessageAt("server") = PrefaceMessage
    <3>1. starts["client"][1] = 0 /\ 1 \in 1 .. Len(starts["client"])
      BY <1>2, <2>1, <2>3 DEF ClientStream, Lies
    <3>2. AtMessage("server")
      BY <1>4, <3>1, Constants DEF AtMessage
    <3>3. QED
      BY <1>2, <1>4, <2>3, <3>2, AtFirst, GoodOpening
  <2>7. QED
    BY <2>5, <2>6 DEF PrefaceMessage
<1>9. /\ pc'["client"] = pc["client"] /\ open'["client"] = open["client"]
      /\ call'["client"] = call["client"]
      /\ pc'["server"] = IF accepted THEN "settings" ELSE "closed"
      /\ open'["server"] = accepted
      /\ call'["server"] = IF accepted THEN "header" ELSE "none"
      /\ pc' \in [Endpoints -> pcs] /\ open' \in [Endpoints -> BOOLEAN]
      /\ call' \in [Endpoints -> {"none", "header", "payload"}]
  <2> HIDE DEF accepted
  <2>1. QED
    BY <1>1, <1>2, <1>4, <1>5, Constants DEF Types, StreamsType, ReceivingType, ConnectionType, pcs
<1>10. accepted => n = PREFACE_LEN
  OBVIOUS
<1>11. PREFACE_LEN \in Nat /\ "server" \in Endpoints
  BY Constants
<1>12. StreamsType'
  BY <1>1, <1>2, <1>9, <1>11, ConsumeTypes DEF Types
<1> HIDE DEF accepted, n
<1>13. Types'
  <2>1. ReceivingType'
    BY <1>1, <1>2, <1>9 DEF Types, ReceivingType
  <2>2. ConnectionType'
    BY <1>1, <1>2, <1>9 DEF Types, ConnectionType
  <2>3. QED
    BY <1>12, <2>1, <2>2 DEF Types
<1>14. ClientStream'
  BY <1>1, <1>2, <1>3, <1>4, <1>9, SameClientStream
<1>15. ServerStream'
  BY <1>1, <1>2, <1>3, <1>9, SameServerStream
<1>16. ClientReads'
  BY <1>1, <1>2, <1>3, <1>9, SameClientReads
<1>17. ServerReads'
  <2>1. CASE accepted
    <3>1. Accepted'
      BY <1>3, <1>7, <2>1 DEF Accepted, PrefaceMessage
    <3>2. consumed'["client"] = PREFACE_LEN
      BY <1>3, <1>4, <1>10, <2>1, Constants
    <3>3. BeforeSettings'
      BY <1>1, <1>4, <1>9, <2>1, <3>1, <3>2, Constants DEF BeforeSettings
    <3>4. QED
      BY <1>9, <2>1, <3>3 DEF ServerReads
  <2>2. CASE ~accepted
    BY <1>9, <2>2 DEF ServerReads
  <2>3. QED
    BY <2>1, <2>2
<1>18. Good'
  <2> SUFFICES ASSUME GoodClient PROVE Good'
    BY <1>1, <1>3 DEF Good, GoodClient
  <2>1. pc'["server"] = "settings" /\ call'["server"] = "header"
    BY <1>8, <1>9
  <2>2. arrived["client"] \in {0, PREFACE_LEN, written["client"]}
    BY <1>2 DEF Good
  <2>3. QED
    BY <1>3, <2>1, <2>2 DEF Good
<1>19. QED
  BY <1>13, <1>14, <1>15, <1>16, <1>17, <1>18 DEF IInv

\* What RecvFrame has returned to the server's constructor.
LEMMA FirstFrame ==
  ASSUME IInv, pc["server"] = "settings", call["server"] = "none"
  PROVE  /\ Len(returned["server"]) = 1
         /\ \/ returned["server"][1] = nullptr
            \/ /\ Len(sent["client"]) >= 2
               /\ returned["server"][1] = Second /\ Second \in Frame
         /\ GoodClient => returned["server"][1].type = TYPE_SETTINGS_FRAME
<1>1. /\ Len(returned["server"]) = 1
      /\ \/ returned["server"][1] = nullptr
         \/ Len(sent["client"]) >= 2 /\ returned["server"][1] = Second
  BY DEF IInv, ServerReads, BeforeSettings
<1>2. Types /\ ClientStream /\ Len(sent["client"]) \in Nat
  BY Constants DEF IInv, Types, StreamsType
<1>3. Len(sent["client"]) >= 2 => Second \in Frame
  BY <1>2, ClientMessages DEF Second
<1>4. ASSUME GoodClient PROVE returned["server"][1].type = TYPE_SETTINGS_FRAME
  <2>1. returned["server"][1] # nullptr
    BY <1>4 DEF IInv, Good
  <2>2. Len(sent["client"]) >= 2 /\ Len(sent["client"]) <= 2
    BY <1>1, <1>2, <1>4, <2>1, GoodOpening
  <2>3. Len(sent["client"]) = 2
    BY <1>2, <2>2, SmallSum
  <2>4. Second.type = TYPE_SETTINGS_FRAME
    BY <1>2, <1>4, <2>3, GoodOpening DEF SettingsFrameOf
  <2>5. QED
    BY <1>1, <2>1, <2>4
<1>5. QED
  BY <1>1, <1>3, <1>4

LEMMA RejectStep ==
  ASSUME IInv, RejectFirstFrame
  PROVE  IInv'
<1> DEFINE frame == returned["server"][1]
           outcome == IF frame = nullptr THEN "crashed" ELSE "closed"
<1>1. /\ pc["server"] = "settings" /\ call["server"] = "none"
      /\ frame.type # TYPE_SETTINGS_FRAME
      /\ pc' = [pc EXCEPT !["server"] = outcome]
      /\ open' = [open EXCEPT !["server"] = FALSE]
      /\ UNCHANGED <<cuts, sent, starts, written, arrived, consumed, call, incoming, returned,
                     opening, constructed, settings, table_max, stream_list, requested>>
  BY DEF RejectFirstFrame, streams, receiving
<1>2. Types /\ ClientStream /\ ServerStream /\ ClientReads /\ ServerReads /\ Good
  BY DEF IInv
<1>3. outcome \in {"closed", "crashed"}
  OBVIOUS
<1>4. ~GoodClient
  BY <1>1, FirstFrame
<1> HIDE DEF outcome
<1>5. /\ pc'["client"] = pc["client"] /\ open'["client"] = open["client"]
      /\ pc'["server"] = outcome /\ ~open'["server"]
      /\ pc' \in [Endpoints -> pcs] /\ open' \in [Endpoints -> BOOLEAN]
  BY <1>1, <1>2, <1>3, Constants DEF Types, StreamsType, ConnectionType, pcs
<1>6. Types'
  BY <1>1, <1>2, <1>5 DEF Types, StreamsType, ReceivingType, ConnectionType
<1>7. ClientStream'
  BY <1>1, <1>2, <1>5, SameClientStream
<1>8. ServerStream'
  BY <1>1, <1>2, <1>3, <1>5, SameServerStream
<1>9. ClientReads'
  BY <1>1, <1>2, <1>5, SameClientReads
<1>10. ServerReads'
  BY <1>1, <1>3, <1>5 DEF ServerReads
<1>11. Good'
  BY <1>1, <1>4 DEF Good, GoodClient
<1>12. QED
  BY <1>6, <1>7, <1>8, <1>9, <1>10, <1>11 DEF IInv

LEMMA AdoptStep ==
  ASSUME IInv, AdoptSettings
  PROVE  IInv'
<1> DEFINE frame == returned["server"][1]
           adopted == DecodeSettings(frame.payload.settings)
<1>1. /\ pc["server"] = "settings" /\ call["server"] = "none"
      /\ frame.type = TYPE_SETTINGS_FRAME
      /\ settings' = [settings EXCEPT !["server"] = adopted]
      /\ Write("server", HEADER_LEN, Ack)
      /\ pc' = [pc EXCEPT !["server"] = "ready"]
      /\ UNCHANGED <<open, call, incoming, returned, opening, constructed, table_max,
                     stream_list, requested>>
  BY DEF AdoptSettings, receiving
<1>2. Types /\ ClientStream /\ ServerStream /\ ClientReads /\ ServerReads /\ Good
  BY DEF IInv
<1>3. Ack \in Content /\ Ack.length = 0 /\ HEADER_LEN + Ack.length = HEADER_LEN
      /\ "server" \in Endpoints
  BY ContentTypes, Constants DEF Ack
<1>4. Write("server", HEADER_LEN + Ack.length, Ack)
  BY <1>1, <1>3
<1>5. frame = Second /\ Second \in Frame
  <2>1. frame # nullptr
    BY <1>1, Constants DEF nullptr
  <2>2. QED
    BY <1>1, <2>1, FirstFrame
<1>6. adopted \in Settings
  <2>1. frame.payload \in Payloads
    BY <1>5 DEF Frame
  <2>2. QED
    BY <2>1, DecodeType
<1>7. /\ UNCHANGED <<cuts, arrived, consumed>>
      /\ sent'["client"] = sent["client"] /\ starts'["client"] = starts["client"]
      /\ written'["client"] = written["client"]
      /\ IF open["client"] /\ open["server"]
         THEN /\ sent'["server"] = Append(sent["server"], AckMessage)
              /\ starts'["server"] = Append(starts["server"], written["server"])
              /\ written'["server"] = written["server"] + HEADER_LEN
         ELSE /\ sent'["server"] = sent["server"] /\ starts'["server"] = starts["server"]
              /\ written'["server"] = written["server"]
  BY <1>2, <1>3, <1>4, WriteEffect, Constants DEF AckMessage
<1> HIDE DEF adopted
<1>8. /\ pc'["client"] = pc["client"] /\ pc'["server"] = "ready"
      /\ pc' \in [Endpoints -> pcs] /\ settings' \in [Endpoints -> Settings]
  BY <1>1, <1>2, <1>6, Constants DEF Types, ConnectionType, pcs
<1>9. Types'
  <2>1. StreamsType'
    BY <1>1, <1>2, <1>3, <1>4, WriteTypes DEF Types, StreamsType
  <2>2. ReceivingType' /\ ConnectionType'
    BY <1>1, <1>2, <1>8 DEF Types, ReceivingType, ConnectionType
  <2>3. QED
    BY <2>1, <2>2 DEF Types
<1>10. ClientStream'
  BY <1>1, <1>2, <1>7, <1>8, SameClientStream
<1>11. ServerStream'
  <2>1. sent["server"] = <<>> /\ starts["server"] = <<>> /\ written["server"] = 0
    BY <1>1, <1>2 DEF ServerStream
  <2>2. open["server"]
    BY <1>1, <1>2 DEF ServerReads, BeforeSettings
  <2>3. CASE open["client"]
    <3>1. /\ sent'["server"] = <<AckMessage>> /\ starts'["server"] = <<0>>
          /\ written'["server"] = HEADER_LEN
      BY <1>7, <2>1, <2>2, <2>3, Constants
    <3>2. QED
      BY <1>8, <3>1 DEF ServerStream
  <2>4. CASE ~open["client"]
    BY <1>1, <1>7, <2>1, <2>4 DEF ServerStream
  <2>5. QED
    BY <2>3, <2>4
<1>12. ClientReads'
  BY <1>1, <1>2, <1>7, <1>8, SameClientReads
<1>13. ServerReads'
  <2>1. Accepted /\ consumed["client"] >= PREFACE_LEN
    BY <1>1, <1>2 DEF ServerReads, BeforeSettings
  <2>2. Accepted'
    BY <1>7, <2>1 DEF Accepted, PrefaceMessage
  <2>3. QED
    BY <1>7, <1>8, <2>1, <2>2 DEF ServerReads, PREFACE_LEN
<1>14. Good'
  BY <1>1, <1>2, <1>7, <1>8 DEF Good, GoodClient, PREFACE_LEN
<1>15. QED
  BY <1>9, <1>10, <1>11, <1>12, <1>13, <1>14 DEF IInv

-----------------------------------------------------------------------------
(* The network, and RecvFrame.                                             *)

LEMMA ArriveStep ==
  ASSUME IInv, NEW e \in Endpoints, Arrive(e), UNCHANGED <<receiving, connection>>
  PROVE  IInv'
<1>1. UNCHANGED <<cuts, sent, starts, written, consumed, open, call, incoming, returned,
                  pc, opening, constructed, settings, table_max, stream_list, requested>>
  BY DEF Arrive, receiving, connection
<1>2. Types /\ ClientStream /\ ServerStream /\ ClientReads /\ ServerReads /\ Good
  BY DEF IInv
<1>3. Types'
  <2>1. StreamsType'
    BY <1>2, ArriveTypes DEF Types
  <2>2. ReceivingType' /\ ConnectionType'
    BY <1>1, <1>2 DEF Types, ReceivingType, ConnectionType
  <2>3. QED
    BY <2>1, <2>2 DEF Types
<1>4. ClientStream'
  BY <1>1, <1>2, SameClientStream
<1>5. ServerStream'
  BY <1>1, <1>2, SameServerStream
<1>6. ClientReads'
  BY <1>1, <1>2, SameClientReads
<1>7. ServerReads'
  <2>1. Grows
    BY <1>1, <1>2, Constants DEF Grows, Types, StreamsType
  <2>2. QED
    BY <1>1, <1>2, <2>1, SameServerReads
<1>8. Good'
  <2>1. CASE e = "server"
    <3>1. arrived'["client"] = arrived["client"]
      BY <1>2, <2>1, Constants DEF Arrive, Types, StreamsType
    <3>2. QED
      BY <1>1, <1>2, <3>1, SameGood
  <2>2. CASE e = "client"
    <3> SUFFICES ASSUME GoodClient PROVE Good'
      BY <1>1 DEF Good, GoodClient
    <3>1. PICK n \in (arrived["client"] + 1) .. written["client"] :
            /\ \/ n = written["client"]
               \/ \E k \in 1 .. Len(starts["client"]) : n - starts["client"][k] \in cuts \union {0}
            /\ arrived' = [arrived EXCEPT !["client"] = n]
      BY <2>2 DEF Arrive
    <3>2. arrived'["client"] = n /\ n \in Int /\ n > arrived["client"]
          /\ arrived["client"] \in Nat /\ n <= written["client"] /\ written["client"] \in Nat
      BY <1>2, <3>1, Constants DEF Types, StreamsType
    <3>3. ASSUME NEW k \in 1 .. Len(starts["client"]),
                 n - starts["client"][k] \in cuts \union {0}
          PROVE  n \in {0, PREFACE_LEN, written["client"]}
      <4>1. Len(starts["client"]) = Len(sent["client"]) /\ Len(sent["client"]) \in Nat
            /\ starts["client"][k] \in Nat
        BY <1>2, ClientMessages, Constants DEF ClientStream, Lies, Types, StreamsType
      <4>2. n = starts["client"][k]
        BY <3>2, <3>3, <4>1 DEF GoodClient
      <4>3. Len(sent["client"]) <= 2 /\ k \in 1 .. Len(sent["client"])
        BY <1>2, <4>1, GoodOpening
      <4>4. CASE k = 1
        BY <1>2, <4>1, <4>2, <4>3, <4>4 DEF ClientStream, Lies
      <4>5. CASE k = 2
        <5>1. Len(sent["client"]) = 2
          BY <4>1, <4>3, <4>5, SmallSum
        <5>2. QED
          BY <1>2, <4>2, <4>5, <5>1, GoodOpening
      <4>6. k = 1 \/ k = 2
        BY <4>1, <4>3, SmallSum
      <4>7. QED
        BY <4>4, <4>5, <4>6
    <3>4. arrived'["client"] \in {0, PREFACE_LEN, written["client"]}
      BY <3>1, <3>2, <3>3
    <3>5. pc["server"] = "settings" /\ call["server"] = "payload" => FALSE
      <4>1. pc["server"] = "settings" /\ call["server"] = "payload" =>
              arrived["client"] = written["client"]
        BY <1>2 DEF Good
      <4>2. arrived["client"] # written["client"]
        BY <3>2
      <4>3. QED
        BY <4>1, <4>2
    <3>6. QED
      BY <1>1, <1>2, <3>4, <3>5 DEF Good, PREFACE_LEN, nullptr
  <2>3. QED
    BY <2>1, <2>2, Constants
<1>9. QED
  BY <1>3, <1>4, <1>5, <1>6, <1>7, <1>8 DEF IInv

LEMMA AppendFirst ==
  ASSUME NEW S, NEW s \in Seq(S), NEW x \in S
  PROVE  /\ Append(s, x) # <<>> /\ Len(Append(s, x)) >= 1
         /\ s = <<>> => Append(s, x) = <<x>> /\ Append(s, x)[1] = x /\ Len(Append(s, x)) = 1
         /\ s # <<>> => Len(s) >= 1 /\ Append(s, x)[1] = s[1]
<1> DEFINE t == Append(s, x)
<1>1. /\ t \in Seq(S) /\ Len(t) = Len(s) + 1 /\ Len(s) \in Nat /\ t[Len(s) + 1] = x
      /\ \A k \in 1 .. Len(s) : t[k] = s[k]
  OBVIOUS
<1>2. s = <<>> => Len(s) = 0 /\ t = <<x>>
  OBVIOUS
<1>3. s # <<>> => Len(s) # 0
  OBVIOUS
<1> HIDE DEF t
<1>4. t # <<>>
  <2>1. Len(t) # 0
    BY <1>1
  <2>2. Len(<<>>) = 0
    OBVIOUS
  <2>3. QED
    BY <2>1, <2>2
<1>5. QED
  BY <1>1, <1>2, <1>3, <1>4 DEF t

LEMMA ClientReadsHeader ==
  ASSUME IInv, ReadHeader("client"), UNCHANGED connection
  PROVE  IInv'
<1> DEFINE n == Count("client", HEADER_LEN)
<1>1. Types /\ ClientStream /\ ServerStream /\ ClientReads /\ ServerReads /\ Good
  BY DEF IInv
<1>2. UNCHANGED <<pc, opening, constructed, settings, table_max, stream_list, requested>>
  BY DEF connection
<1>3. AtMessage("client") => MessageAt("client").content = Ack /\ Ack \in Frame /\ pc["server"] = "ready"
  BY <1>1, AtAck, ContentTypes
<1>4. /\ StreamsType' /\ ReceivingType' /\ Consume("client", n) /\ UNCHANGED open
      /\ call["client"] = "header"
      /\ call'["server"] = call["server"] /\ incoming'["server"] = incoming["server"]
      /\ returned'["server"] = returned["server"]
      /\ \/ returned'["client"] = Append(returned["client"], nullptr) /\ call'["client"] = "none"
         \/ /\ n = HEADER_LEN
            /\ AtMessage("client") => incoming'["client"] = MessageAt("client").content
            /\ returned'["client"] = returned["client"] /\ call'["client"] = "payload"
  BY <1>1, <1>3, HeaderRead, Constants
<1>5. /\ UNCHANGED <<cuts, sent, starts, written, arrived>>
      /\ consumed'["client"] = consumed["client"]
  BY <1>1, <1>4, ConsumeEffect, Constants
<1>6. n <= arrived["server"] - consumed["server"] /\ arrived["server"] \in Nat
  BY <1>1, CountRange, Constants DEF Types, StreamsType
<1> HIDE DEF n
<1>7. Types'
  BY <1>1, <1>2, <1>4 DEF Types, ConnectionType
<1>8. ClientStream' /\ ServerStream'
  BY <1>1, <1>2, <1>4, <1>5, SameClientStream, SameServerStream
<1>9. ServerReads'
  <2>1. Grows
    BY <1>1, <1>5, Constants DEF Grows, Types, StreamsType
  <2>2. QED
    BY <1>1, <1>2, <1>4, <1>5, <2>1, SameServerReads
<1>10. Good'
  BY <1>1, <1>2, <1>4, <1>5, SameGood
<1>11. ClientReads'
  <2>1. pc["client"] # "constructing"
    BY <1>1, <1>4 DEF ClientReads
  <2>2. returned["client"] \in Seq(Frame \union {nullptr})
    BY <1>1, Constants DEF Types, ReceivingType
  <2>3. AckMeansAdopted
    BY <1>1 DEF ClientReads
  <2>4. CASE returned'["client"] = Append(returned["client"], nullptr) /\ call'["client"] = "none"
    <3>1. returned'["client"] # <<>> /\ Len(returned'["client"]) >= 1
          /\ returned'["client"][1] =
               IF Len(returned["client"]) >= 1 THEN returned["client"][1] ELSE nullptr
      BY <2>2, <2>4
    <3>2. AckMeansAdopted'
      BY <1>2, <2>3, <3>1 DEF AckMeansAdopted, nullptr, Ack
    <3>3. QED
      BY <1>2, <2>1, <3>1, <3>2 DEF ClientReads
  <2>5. CASE /\ n = HEADER_LEN
             /\ AtMessage("client") => incoming'["client"] = MessageAt("client").content
             /\ returned'["client"] = returned["client"] /\ call'["client"] = "payload"
    <3>1. returned["client"] = <<>> => incoming'["client"] = Ack /\ pc["server"] = "ready"
      <4> SUFFICES ASSUME returned["client"] = <<>>
                   PROVE  incoming'["client"] = Ack /\ pc["server"] = "ready"
        OBVIOUS
      <4>1. consumed["server"] = 0
        BY <1>1, <1>4 DEF ClientReads
      <4>2. arrived["server"] > 0
        BY <1>6, <2>5, <4>1, Constants
      <4>3. AtMessage("client")
        BY <1>1, <4>1, <4>2, AtAck
      <4>4. QED
        BY <1>3, <2>5, <4>3
    <3>2. AckMeansAdopted'
      BY <1>2, <2>3, <2>5 DEF AckMeansAdopted, nullptr, Ack
    <3>3. QED
      BY <1>2, <2>1, <2>5, <3>1, <3>2 DEF ClientReads, Ack
  <2>6. QED
    BY <1>4, <2>4, <2>5
<1>12. QED
  BY <1>7, <1>8, <1>9, <1>10, <1>11 DEF IInv

LEMMA ClientReadsPayload ==
  ASSUME IInv, ReadPayload("client"), UNCHANGED connection
  PROVE  IInv'
<1> DEFINE length == ReadLength(incoming["client"].length)
           n == Count("client", length)
           frame == IF n = length THEN incoming["client"] ELSE nullptr
<1>1. Types /\ ClientStream /\ ServerStream /\ ClientReads /\ ServerReads /\ Good
  BY DEF IInv
<1>2. UNCHANGED <<pc, opening, constructed, settings, table_max, stream_list, requested>>
  BY DEF connection
<1>3. /\ StreamsType' /\ ReceivingType' /\ Consume("client", n) /\ UNCHANGED open
      /\ call["client"] = "payload"
      /\ call'["server"] = call["server"] /\ incoming'["server"] = incoming["server"]
      /\ returned'["server"] = returned["server"]
      /\ returned'["client"] = Append(returned["client"], frame)
      /\ call'["client"] = "none"
  BY <1>1, PayloadRead, Constants
<1>4. /\ UNCHANGED <<cuts, sent, starts, written, arrived>>
      /\ consumed'["client"] = consumed["client"]
  BY <1>1, <1>3, ConsumeEffect, Constants
<1>5. frame \in {incoming["client"], nullptr}
  OBVIOUS
<1> HIDE DEF length, n, frame
<1>6. Types'
  BY <1>1, <1>2, <1>3 DEF Types, ConnectionType
<1>7. ClientStream' /\ ServerStream'
  BY <1>1, <1>2, <1>3, <1>4, SameClientStream, SameServerStream
<1>8. ServerReads'
  <2>1. Grows
    BY <1>1, <1>4, Constants DEF Grows, Types, StreamsType
  <2>2. QED
    BY <1>1, <1>2, <1>3, <1>4, <2>1, SameServerReads
<1>9. Good'
  BY <1>1, <1>2, <1>3, <1>4, SameGood
<1>10. ClientReads'
  <2>1. pc["client"] # "constructing" /\ AckMeansAdopted
    BY <1>1, <1>3 DEF ClientReads
  <2>2. /\ returned["client"] \in Seq(Frame \union {nullptr})
        /\ frame \in Frame \union {nullptr}
    BY <1>1, <1>5, Constants DEF Types, ReceivingType
  <2>3. /\ returned'["client"] # <<>>
        /\ returned["client"] = <<>> => returned'["client"][1] = frame
        /\ returned["client"] # <<>> =>
             Len(returned["client"]) >= 1 /\ returned'["client"][1] = returned["client"][1]
    BY <1>3, <2>2, AppendFirst
  <2>4. returned["client"] = <<>> =>
          frame = nullptr \/ (frame = Ack /\ pc["server"] = "ready")
    BY <1>1, <1>3, <1>5 DEF ClientReads
  <2>5. AckMeansAdopted'
    <3>1. CASE returned["client"] = <<>>
      BY <1>2, <2>3, <2>4, <3>1 DEF AckMeansAdopted
    <3>2. CASE returned["client"] # <<>>
      BY <1>2, <2>1, <2>3, <3>2 DEF AckMeansAdopted
    <3>3. QED
      BY <3>1, <3>2
  <2>6. QED
    BY <1>2, <2>1, <2>3, <2>5 DEF ClientReads
<1>11. QED
  BY <1>6, <1>7, <1>8, <1>9, <1>10 DEF IInv

\* While the server's constructor is in RecvFrame, a good client's SETTINGS are to come.
LEMMA GoodSettingsArrive ==
  ASSUME IInv, GoodClient, pc["server"] = "settings", consumed["client"] = PREFACE_LEN,
         Readable("server", HEADER_LEN)
  PROVE  /\ arrived["client"] = written["client"]
         /\ arrived["client"] >= PREFACE_LEN + HEADER_LEN
<1>1. Types /\ ClientStream /\ ServerReads /\ Good
  BY DEF IInv
<1>2. open["server"] /\ Len(sent["client"]) >= 1 /\ Len(sent["client"]) \in Nat
      /\ Len(opening) \in Nat /\ arrived["client"] \in Nat /\ written["client"] \in Nat
  <2>1. open["server"] /\ Len(sent["client"]) >= 1
    BY <1>1 DEF ServerReads, BeforeSettings, Accepted
  <2>2. /\ sent["client"] \in Seq(Message) /\ opening \in Seq(Content)
        /\ arrived["client"] \in Nat /\ written["client"] \in Nat
    BY <1>1, Constants DEF Types, StreamsType, ConnectionType
  <2>3. Len(sent["client"]) \in Nat /\ Len(opening) \in Nat
    BY <2>2
  <2>4. QED
    BY <2>1, <2>2, <2>3
<1>3. Len(sent["client"]) + Len(opening) = 2
  BY <1>1, <1>2, GoodOpening
<1>4. arrived["client"] > PREFACE_LEN
  <2>1. CASE open["client"]
    BY <1>2, <2>1, Constants DEF Readable
  <2>2. CASE ~open["client"]
    <3>1. opening = <<>>
      BY <1>1, <2>2 DEF ClientStream
    <3>2. Len(sent["client"]) = 2
      BY <1>2, <1>3, <3>1
    <3>3. written["client"] >= PREFACE_LEN + HEADER_LEN
      BY <1>1, <1>2, <3>2, GoodWritten
    <3>4. QED
      BY <1>2, <2>2, <3>3, Constants DEF Readable
  <2>3. QED
    BY <2>1, <2>2
<1>5. arrived["client"] = written["client"]
  BY <1>1, <1>4, Constants DEF Good
<1>6. Len(sent["client"]) = 2
  <2>1. Len(sent["client"]) # 1
    <3>1. Len(sent["client"]) = 1 => written["client"] = PREFACE_LEN
      BY <1>1, GoodOpening
    <3>2. QED
      BY <1>4, <1>5, <3>1, Constants
  <2>2. Len(sent["client"]) <= 2
    BY <1>1, GoodOpening
  <2>3. QED
    BY <1>2, <2>1, <2>2, SmallSum
<1>7. QED
  BY <1>1, <1>2, <1>5, <1>6, GoodWritten

LEMMA ServerReadsHeader ==
  ASSUME IInv, ReadHeader("server"), UNCHANGED connection
  PROVE  IInv'
<1> DEFINE n == Count("server", HEADER_LEN)
<1>1. Types /\ ClientStream /\ ServerStream /\ ClientReads /\ ServerReads /\ Good
  BY DEF IInv
<1>2. UNCHANGED <<pc, opening, constructed, settings, table_max, stream_list, requested>>
  BY DEF connection
<1>3. call["server"] = "header"
  BY DEF ReadHeader
<1>4. /\ pc["server"] \in {"settings", "ready", "closed", "crashed"}
      /\ open["server"] => pc["server"] \in {"settings", "ready"}
      /\ pc["server"] \in {"settings", "ready"} => consumed["client"] >= PREFACE_LEN
  <2>1. pc["server"] \in pcs
    BY <1>1, Constants DEF Types, ConnectionType
  <2>2. QED
    BY <1>1, <1>3, <2>1 DEF ServerReads, BeforePreface, BeforeSettings, pcs
<1>5. open["server"] /\ AtMessage("server") => MessageAt("server").content \in Frame
  BY <1>1, <1>4, LaterIsFrame
<1>6. /\ StreamsType' /\ ReceivingType' /\ Consume("server", n) /\ UNCHANGED open
      /\ Readable("server", HEADER_LEN)
      /\ call'["client"] = call["client"] /\ incoming'["client"] = incoming["client"]
      /\ returned'["client"] = returned["client"]
      /\ \/ /\ n # HEADER_LEN
               \/ (AtMessage("server") => MessageAt("server").content.type > MAX_TYPE)
            /\ returned'["server"] = Append(returned["server"], nullptr)
            /\ call'["server"] = "none"
         \/ /\ n = HEADER_LEN
            /\ AtMessage("server") => incoming'["server"] = MessageAt("server").content
            /\ returned'["server"] = returned["server"] /\ call'["server"] = "payload"
  BY <1>1, <1>5, HeaderRead, Constants
<1>7. /\ UNCHANGED <<cuts, sent, starts, written, arrived>>
      /\ consumed'["server"] = consumed["server"]
      /\ consumed'["client"] = consumed["client"] + n
  BY <1>1, <1>6, ConsumeEffect, Constants
<1>8. /\ n \in Nat /\ n <= arrived["client"] - consumed["client"]
      /\ arrived["client"] \in Nat /\ consumed["client"] \in Nat
      /\ ~open["server"] => n # HEADER_LEN
  <2>1. /\ StreamsType /\ "server" \in Endpoints /\ HEADER_LEN \in Nat /\ HEADER_LEN # 0
        /\ Peer("server") = "client"
    BY <1>1, Constants DEF Types
  <2>2. /\ n \in Nat /\ n <= arrived["client"] - consumed["client"]
        /\ ~open["server"] => n = 0
    BY <2>1, CountRange
  <2>3. arrived["client"] \in Nat /\ consumed["client"] \in Nat
    BY <2>1, Constants DEF StreamsType
  <2>4. QED
    BY <2>1, <2>2, <2>3
<1>9. ASSUME pc["server"] = "settings"
      PROVE  /\ open["server"] /\ Accepted /\ consumed["client"] = PREFACE_LEN
             /\ returned["server"] = <<>>
             /\ arrived["client"] > PREFACE_LEN =>
                  /\ Len(sent["client"]) >= 2
                  /\ AtMessage("server") /\ MessageAt("server").content = Second
  <2>1. /\ open["server"] /\ Accepted /\ consumed["client"] = PREFACE_LEN
        /\ returned["server"] = <<>>
    BY <1>1, <1>3, <1>9 DEF ServerReads, BeforeSettings
  <2>2. QED
    BY <1>1, <2>1, AtSecond DEF Second
<1>10. ASSUME pc["server"] = "settings", GoodClient
       PROVE  /\ n = HEADER_LEN /\ AtMessage("server")
              /\ ~(MessageAt("server").content.type > MAX_TYPE)
              /\ arrived["client"] = written["client"]
  <2>1. arrived["client"] = written["client"] /\ arrived["client"] >= PREFACE_LEN + HEADER_LEN
    BY <1>6, <1>9, <1>10, GoodSettingsArrive
  <2>2. n = HEADER_LEN
    BY <1>8, <1>9, <1>10, <2>1, ReadRange, Constants DEF Count, Lesser
  <2>3. /\ Len(sent["client"]) >= 2
        /\ AtMessage("server") /\ MessageAt("server").content = Second
    BY <1>8, <1>9, <1>10, <2>1, Constants
  <2>4. Len(sent["client"]) = 2
    <3>1. Len(sent["client"]) \in Nat
      BY <1>1, Constants DEF Types, StreamsType
    <3>2. Len(sent["client"]) <= 2
      BY <1>1, <1>10, GoodOpening
    <3>3. QED
      BY <2>3, <3>1, <3>2, SmallSum
  <2>5. Second.type = 4
    BY <1>1, <1>10, <2>4, GoodOpening, Constants DEF SettingsFrameOf
  <2>6. QED
    BY <2>1, <2>2, <2>3, <2>5, Constants
<1> HIDE DEF n
<1>11. Types'
  BY <1>1, <1>2, <1>6 DEF Types, ConnectionType
<1>12. ClientStream' /\ ServerStream'
  BY <1>1, <1>2, <1>6, <1>7, SameClientStream, SameServerStream
<1>13. ClientReads'
  BY <1>1, <1>2, <1>6, <1>7, SameClientReads
<1>14. Accepted => Accepted'
  BY <1>7 DEF Accepted, PrefaceMessage
<1>15. consumed["client"] >= PREFACE_LEN => consumed'["client"] >= PREFACE_LEN
  BY <1>7, <1>8, Constants
<1>16. ServerReads'
  <2>1. CASE pc["server"] = "settings"
    <3>1. CASE /\ returned'["server"] = Append(returned["server"], nullptr)
               /\ call'["server"] = "none"
      <4>1. returned["server"] = <<>> /\ returned["server"] \in Seq({nullptr})
        <5>1. <<>> \in Seq({nullptr})
          OBVIOUS
        <5>2. QED
          BY <1>9, <2>1, <5>1
      <4>2. Len(returned'["server"]) = 1 /\ returned'["server"][1] = nullptr
        BY <3>1, <4>1, AppendFirst
      <4>3. BeforeSettings'
        BY <1>6, <1>9, <1>14, <1>15, <1>4, <2>1, <3>1, <4>2
           DEF BeforeSettings, nullptr, PREFACE_LEN, HEADER_LEN
      <4>4. QED
        BY <1>2, <2>1, <4>3 DEF ServerReads
    <3>2. CASE /\ n = HEADER_LEN
               /\ AtMessage("server") => incoming'["server"] = MessageAt("server").content
               /\ returned'["server"] = returned["server"] /\ call'["server"] = "payload"
      <4>1. arrived["client"] > PREFACE_LEN
        BY <1>8, <1>9, <2>1, <3>2, Constants
      <4>2. Len(sent["client"]) >= 2 /\ incoming'["server"] = Second
        BY <1>9, <2>1, <3>2, <4>1
      <4>3. consumed'["client"] = PREFACE_LEN + HEADER_LEN
        BY <1>7, <1>9, <2>1, <3>2
      <4>4. Second' = Second /\ sent'["client"] = sent["client"]
        BY <1>7 DEF Second
      <4>5. BeforeSettings'
        BY <1>6, <1>9, <1>14, <1>15, <1>4, <2>1, <3>2, <4>2, <4>3, <4>4
           DEF BeforeSettings, PREFACE_LEN, HEADER_LEN
      <4>6. QED
        BY <1>2, <2>1, <4>5 DEF ServerReads
    <3>3. QED
      BY <1>6, <3>1, <3>2
  <2>2. CASE pc["server"] = "ready"
    <3>1. Accepted
      BY <1>1, <2>2 DEF ServerReads
    <3>2. Accepted' /\ consumed'["client"] >= PREFACE_LEN
      BY <1>4, <1>14, <1>15, <2>2, <3>1
    <3>3. QED
      BY <1>2, <2>2, <3>2 DEF ServerReads, PREFACE_LEN
  <2>3. CASE pc["server"] \in {"closed", "crashed"}
    <3>1. ~open'["server"] /\ call'["server"] = "none"
      BY <1>4, <1>6, <1>8, <2>3
    <3>2. QED
      BY <1>2, <2>3, <3>1 DEF ServerReads
  <2>4. QED
    BY <1>4, <2>1, <2>2, <2>3
<1>17. Good'
  <2> SUFFICES ASSUME GoodClient PROVE Good'
    BY <1>2, <1>7 DEF Good, GoodClient
  <2>1. pc'["server"] \notin {"closed", "crashed"}
        /\ arrived'["client"] \in {0, PREFACE_LEN, written'["client"]}
    BY <1>1, <1>2, <1>7 DEF Good, PREFACE_LEN
  <2>2. ASSUME pc["server"] = "settings"
        PROVE  call'["server"] = "payload" /\ arrived["client"] = written["client"]
    BY <1>6, <1>10, <2>2
  <2>3. QED
    BY <1>2, <1>7, <2>1, <2>2 DEF Good, PREFACE_LEN, nullptr
<1>18. QED
  BY <1>11, <1>12, <1>13, <1>16, <1>17 DEF IInv

LEMMA ServerReadsPayload ==
  ASSUME IInv, ReadPayload("server"), UNCHANGED connection
  PROVE  IInv'
<1> DEFINE length == ReadLength(incoming["server"].length)
           n == Count("server", length)
           frame == IF n = length THEN incoming["server"] ELSE nullptr
<1>1. Types /\ ClientStream /\ ServerStream /\ ClientReads /\ ServerReads /\ Good
  BY DEF IInv
<1>2. UNCHANGED <<pc, opening, constructed, settings, table_max, stream_list, requested>>
  BY DEF connection
<1>3. /\ StreamsType' /\ ReceivingType' /\ Consume("server", n) /\ UNCHANGED open
      /\ length \in Nat /\ call["server"] = "payload"
      /\ call'["client"] = call["client"] /\ incoming'["client"] = incoming["client"]
      /\ returned'["client"] = returned["client"]
      /\ returned'["server"] = Append(returned["server"], frame)
      /\ call'["server"] = "none"
  BY <1>1, PayloadRead, Constants
<1>4. /\ UNCHANGED <<cuts, sent, starts, written, arrived>>
      /\ consumed'["server"] = consumed["server"]
      /\ consumed'["client"] = consumed["client"] + n
  BY <1>1, <1>3, ConsumeEffect, Constants
<1>5. n \in Nat /\ arrived["client"] \in Nat /\ consumed["client"] \in Nat
  <2>1. StreamsType /\ "server" \in Endpoints
    BY <1>1, Constants DEF Types
  <2>2. n \in Nat
    BY <1>3, <2>1, CountRange
  <2>3. QED
    BY <2>1, <2>2, Constants DEF StreamsType
<1>6. pc["server"] \in {"settings", "ready"}
  <2>1. pc["server"] \in pcs
    BY <1>1, Constants DEF Types, ConnectionType
  <2>2. QED
    BY <1>1, <1>3, <2>1 DEF ServerReads, BeforePreface, pcs
<1>7. ASSUME pc["server"] = "settings"
      PROVE  /\ open["server"] /\ Accepted /\ returned["server"] = <<>>
             /\ Len(sent["client"]) >= 2 /\ incoming["server"] = Second
             /\ consumed["client"] = PREFACE_LEN + HEADER_LEN
  BY <1>1, <1>3, <1>7 DEF ServerReads, BeforeSettings
<1>8. ASSUME pc["server"] = "settings", GoodClient
      PROVE  n = length /\ incoming["server"] # nullptr
  <2>1. Len(sent["client"]) = 2
    <3>1. Len(sent["client"]) \in Nat /\ Len(sent["client"]) >= 2 /\ Len(sent["client"]) <= 2
      BY <1>1, <1>7, <1>8, GoodOpening, Constants DEF Types, StreamsType
    <3>2. QED
      BY <3>1, SmallSum
  <2>2. incoming["server"] = SettingsFrameOf(constructed)
        /\ written["client"] = PREFACE_LEN + HEADER_LEN + SettingsLength(constructed)
    BY <1>1, <1>7, <1>8, <2>1, GoodOpening
  <2>3. arrived["client"] = written["client"]
    BY <1>1, <1>3, <1>8 DEF Good
  <2>4. SettingsLength(constructed) \in 0 .. 36
        /\ incoming["server"].length = SettingsLength(constructed)
        /\ incoming["server"].type = TYPE_SETTINGS_FRAME
    BY <2>2, SettingsLengthRange DEF SettingsFrameOf
  <2>5. length = SettingsLength(constructed)
    BY <2>4, ReadLengthType
  <2>6. arrived["client"] - consumed["client"] = length /\ length \in Nat /\ length <= 36
    <3> DEFINE l == SettingsLength(constructed)
    <3>1. /\ arrived["client"] = PREFACE_LEN + HEADER_LEN + l /\ l \in 0 .. 36
          /\ consumed["client"] = PREFACE_LEN + HEADER_LEN /\ length = l
      BY <1>7, <1>8, <2>2, <2>3, <2>4, <2>5
    <3> HIDE DEF l, length
    <3>2. QED
      BY <3>1, Constants
  <2>7. n = length
    <3>1. n = Lesser(length, Lesser(length, MaxRead))
      BY <1>7, <1>8, <2>6, Constants DEF Count
    <3> HIDE DEF length, n
    <3>2. QED
      BY <2>6, <3>1, ReadRange DEF Lesser
  <2>8. QED
    BY <2>4, <2>7, Constants DEF nullptr
<1>9. n = length => frame = incoming["server"]
  OBVIOUS
<1>10. frame = incoming["server"] \/ frame = nullptr
  OBVIOUS
<1> HIDE DEF length, n, frame
<1>11. Types'
  BY <1>1, <1>2, <1>3 DEF Types, ConnectionType
<1>12. ClientStream' /\ ServerStream'
  BY <1>1, <1>2, <1>3, <1>4, SameClientStream, SameServerStream
<1>13. ClientReads'
  BY <1>1, <1>2, <1>3, <1>4, SameClientReads
<1>14. Accepted => Accepted'
  BY <1>4 DEF Accepted, PrefaceMessage
<1>15. ASSUME pc["server"] = "settings"
       PROVE  Len(returned'["server"]) = 1 /\ returned'["server"][1] = frame
  <2>1. returned["server"] = <<>> /\ returned["server"] \in Seq({frame})
    <3>1. <<>> \in Seq({frame})
      OBVIOUS
    <3>2. QED
      BY <1>7, <1>15, <3>1
  <2>2. QED
    BY <1>3, <2>1, AppendFirst
<1>16. ServerReads'
  <2>1. CASE pc["server"] = "settings"
    <3>1. consumed'["client"] >= PREFACE_LEN
      BY <1>4, <1>5, <1>7, <2>1, Constants
    <3>2. Second' = Second /\ sent'["client"] = sent["client"]
      BY <1>4 DEF Second
    <3>3. open'["server"] /\ Accepted' /\ call'["server"] = "none"
      BY <1>3, <1>7, <1>14, <2>1
    <3>4. /\ Len(returned'["server"]) = 1
          /\ returned'["server"][1] = Second \/ returned'["server"][1] = nullptr
          /\ Len(sent'["client"]) >= 2
      BY <1>7, <1>10, <1>15, <2>1, <3>2
    <3>5. BeforeSettings'
      BY <3>1, <3>2, <3>3, <3>4 DEF BeforeSettings, PREFACE_LEN, HEADER_LEN, nullptr
    <3>6. QED
      BY <1>2, <2>1, <3>5 DEF ServerReads
  <2>2. CASE pc["server"] = "ready"
    <3>1. Accepted /\ consumed["client"] >= PREFACE_LEN
      BY <1>1, <2>2 DEF ServerReads
    <3>2. consumed'["client"] >= PREFACE_LEN
      BY <1>4, <1>5, <3>1, Constants
    <3>3. QED
      BY <1>2, <1>14, <2>2, <3>1, <3>2 DEF ServerReads, PREFACE_LEN
  <2>3. QED
    BY <1>6, <2>1, <2>2
<1>17. Good'
  <2> SUFFICES ASSUME GoodClient PROVE Good'
    BY <1>2, <1>4 DEF Good, GoodClient
  <2>1. pc'["server"] \notin {"closed", "crashed"}
        /\ arrived'["client"] \in {0, PREFACE_LEN, written'["client"]}
    BY <1>1, <1>2, <1>4 DEF Good, PREFACE_LEN
  <2>2. pc["server"] = "settings" => returned'["server"][1] # nullptr
    BY <1>8, <1>9, <1>15
  <2>3. QED
    BY <1>2, <1>3, <1>4, <2>1, <2>2 DEF Good, PREFACE_LEN, nullptr
<1>18. QED
  BY <1>11, <1>12, <1>13, <1>16, <1>17 DEF IInv

-----------------------------------------------------------------------------
(* What the applications do.                                               *)

LEMMA CallStep ==
  ASSUME IInv, NEW e \in Endpoints, CallConnectionRecvFrame(e)
  PROVE  IInv'
<1>1. /\ pc[e] \in {"ready", "closed"} /\ call[e] = "none"
      /\ call' = [call EXCEPT ![e] = "header"]
      /\ UNCHANGED <<cuts, sent, starts, written, arrived, consumed, open, incoming, returned,
                     pc, opening, constructed, settings, table_max, stream_list, requested>>
  BY DEF CallConnectionRecvFrame, Usable, CallRecvFrame, Enter, connection, socket, streams
<1>2. Types /\ ClientStream /\ ServerStream /\ ClientReads /\ ServerReads /\ Good
  BY DEF IInv
<1>3. Types'
  BY <1>1, <1>2 DEF Types, StreamsType, ReceivingType, ConnectionType
<1>4. ClientStream' /\ ServerStream'
  BY <1>1, <1>2, SameClientStream, SameServerStream
<1>5. Grows
  BY <1>1, <1>2, Constants DEF Grows, Types, StreamsType
<1>6. CASE e = "client"
  <2>1. call'["client"] = "header" /\ call'["server"] = call["server"]
    BY <1>1, <1>2, <1>6, Constants DEF Types, ReceivingType
  <2>2. ClientReads'
    BY <1>1, <1>2, <1>6, <2>1 DEF ClientReads, AckMeansAdopted
  <2>3. ServerReads' /\ Good'
    BY <1>1, <1>2, <1>5, <2>1, SameServerReads, SameGood
  <2>4. QED
    BY <1>3, <1>4, <2>2, <2>3 DEF IInv
<1>7. CASE e = "server"
  <2>1. call'["server"] = "header" /\ call'["client"] = call["client"]
    BY <1>1, <1>2, <1>7, Constants DEF Types, ReceivingType
  <2>2. ClientReads'
    BY <1>1, <1>2, <2>1, SameClientReads
  <2>3. ServerReads'
    <3>1. Accepted => Accepted'
      BY <1>1 DEF Accepted, PrefaceMessage
    <3>2. QED
      BY <1>1, <1>2, <1>7, <2>1, <3>1 DEF ServerReads, PREFACE_LEN
  <2>4. Good'
    BY <1>1, <1>2, <1>7, <2>1 DEF Good, GoodClient, PREFACE_LEN
  <2>5. QED
    BY <1>3, <1>4, <2>2, <2>3, <2>4 DEF IInv
<1>8. QED
  BY <1>6, <1>7, Constants

LEMMA CloseStep ==
  ASSUME IInv, NEW e \in Endpoints, CloseDescriptor(e)
  PROVE  IInv'
<1>1. /\ pc[e] \in {"ready", "closed"} /\ open[e]
      /\ open' = [open EXCEPT ![e] = FALSE]
      /\ UNCHANGED <<cuts, sent, starts, written, arrived, consumed, call, incoming, returned,
                     pc, opening, constructed, settings, table_max, stream_list, requested>>
  BY DEF CloseDescriptor, Close, Usable, connection, streams, receiving
<1>2. Types /\ ClientStream /\ ServerStream /\ ClientReads /\ ServerReads /\ Good
  BY DEF IInv
<1>3. Types'
  BY <1>1, <1>2 DEF Types, StreamsType, ReceivingType, ConnectionType
<1>4. /\ open'["client"] = open["client"] \/ pc["client"] = "ready"
      /\ open'["client"] => open["client"]
      /\ open'["server"] => open["server"]
      /\ open'["server"] # open["server"] => pc["server"] \in {"ready", "closed"} /\ ~open'["server"]
  <2>1. CASE e = "client"
    <3>1. pc["client"] = "ready"
      BY <1>1, <1>2, <2>1 DEF ClientStream
    <3>2. open'["client"] = FALSE /\ open'["server"] = open["server"]
      BY <1>1, <1>2, <2>1, Constants DEF Types, StreamsType
    <3>3. QED
      BY <3>1, <3>2
  <2>2. CASE e = "server"
    <3>1. open'["server"] = FALSE /\ open'["client"] = open["client"]
      BY <1>1, <1>2, <2>2, Constants DEF Types, StreamsType
    <3>2. QED
      BY <1>1, <2>2, <3>1
  <2>3. QED
    BY <2>1, <2>2, Constants
<1>5. ClientStream' /\ ServerStream'
  BY <1>1, <1>2, <1>4, SameClientStream, SameServerStream
<1>6. ClientReads' /\ Good'
  BY <1>1, <1>2, SameClientReads, SameGood
<1>7. ServerReads'
  <2>1. Grows
    BY <1>1, <1>2, Constants DEF Grows, Types, StreamsType
  <2>2. QED
    BY <1>1, <1>2, <1>4, <2>1, SameServerReads
<1>8. QED
  BY <1>3, <1>5, <1>6, <1>7 DEF IInv

\* Neither SendFrame, AllocateStream, SetSettings nor the setters touch the socket.
LEMMA ApplicationStep ==
  ASSUME IInv, UNCHANGED <<frames, pc, opening, constructed>>, ConnectionType'
  PROVE  IInv'
<1>1. UNCHANGED <<cuts, sent, starts, written, arrived, consumed, open, call, incoming, returned,
                  pc, opening, constructed>>
  BY DEF frames, socket, streams, receiving
<1>2. Types /\ ClientStream /\ ServerStream /\ ClientReads /\ ServerReads /\ Good
  BY DEF IInv
<1>3. Types'
  BY <1>1, <1>2 DEF Types, StreamsType, ReceivingType
<1>4. ClientStream' /\ ServerStream' /\ ClientReads' /\ Good'
  BY <1>1, <1>2, SameClientStream, SameServerStream, SameClientReads, SameGood
<1>5. ServerReads'
  <2>1. Grows
    BY <1>1, <1>2, Constants DEF Grows, Types, StreamsType
  <2>2. QED
    BY <1>1, <1>2, <2>1, SameServerReads
<1>6. QED
  BY <1>3, <1>4, <1>5 DEF IInv

LEMMA SendStep ==
  ASSUME IInv, NEW e \in Endpoints, NEW streamId \in StreamIds,
         ConnectionSendFrame(e, streamId, PriorityFrame)
  PROVE  IInv' /\ UNCHANGED frames
<1>1. Types /\ ConnectionType
  BY DEF IInv, Types
<1>2. streamId \in Nat /\ stream_list[e] = <<>> /\ Len(stream_list[e]) = 0
  BY <1>1, ConnectionAssumption DEF ConnectionType
<1>3. /\ Len(requested[e]) < MaxRequests
      /\ requested' = [requested EXCEPT ![e] = Append(@, PriorityFrame)]
      /\ UNCHANGED <<streams, open, receiving, pc, opening, constructed, settings, table_max,
                     stream_list>>
  BY <1>2 DEF ConnectionSendFrame
<1>4. requested' \in [Endpoints -> Seq({PriorityFrame})]
      /\ \A d \in Endpoints : Len(requested'[d]) <= MaxRequests
  <2>1. requested[e] \in Seq({PriorityFrame}) /\ Len(requested[e]) \in Nat /\ MaxRequests \in Nat
    BY <1>1, ConnectionAssumption DEF ConnectionType
  <2>2. Append(requested[e], PriorityFrame) \in Seq({PriorityFrame})
        /\ Len(Append(requested[e], PriorityFrame)) = Len(requested[e]) + 1
    BY <2>1
  <2>3. QED
    BY <1>1, <1>3, <2>1, <2>2 DEF ConnectionType
<1>5. ConnectionType'
  BY <1>1, <1>3, <1>4 DEF ConnectionType
<1>6. UNCHANGED frames
  BY <1>3 DEF frames, socket
<1>7. QED
  BY <1>3, <1>5, <1>6, ApplicationStep

LEMMA AllocateStep ==
  ASSUME IInv, NEW e \in Endpoints, AllocateStream(e)
  PROVE  IInv'
<1>1. ConnectionType
  BY DEF IInv, Types
<1>2. /\ stream_list' = [stream_list EXCEPT ![e] =
           [k \in 1 .. Len(@) |-> IF k > 1 /\ @[k] = "idle" THEN "closed" ELSE @[k]]]
      /\ UNCHANGED <<frames, pc, opening, constructed, settings, table_max, requested>>
  BY DEF AllocateStream
<1>3. stream_list[e] = <<>>
  BY <1>1 DEF ConnectionType
<1>4. stream_list' = stream_list
  <2> DEFINE closing == [k \in 1 .. Len(stream_list[e]) |->
                IF k > 1 /\ stream_list[e][k] = "idle" THEN "closed" ELSE stream_list[e][k]]
  <2>1. closing = <<>>
    BY <1>3
  <2>2. stream_list' = [stream_list EXCEPT ![e] = closing]
    BY <1>2
  <2> HIDE DEF closing
  <2>3. QED
    BY <1>1, <1>3, <2>1, <2>2 DEF ConnectionType
<1>5. ConnectionType'
  BY <1>1, <1>2, <1>4 DEF ConnectionType
<1>6. QED
  BY <1>2, <1>5, ApplicationStep

LEMMA SettersStep ==
  ASSUME IInv, NEW e \in Endpoints, NEW s \in NewSettings,
         SetSettings(e, s) \/ ChangeSettings(e, s)
  PROVE  IInv'
<1>1. ConnectionType
  BY DEF IInv, Types
<1>2. /\ settings' = [settings EXCEPT ![e] = s]
      /\ table_max' = table_max \/ table_max' = [table_max EXCEPT ![e] = s[HEADER_TABLE_SIZE]]
      /\ UNCHANGED <<frames, pc, opening, constructed, stream_list, requested>>
  BY DEF SetSettings, ChangeSettings
<1>3. s \in Settings /\ s[HEADER_TABLE_SIZE] \in Word
  BY ConnectionAssumption DEF Settings, SettingIds, HEADER_TABLE_SIZE
<1>4. settings' \in [Endpoints -> Settings] /\ table_max' \in [Endpoints -> Word \union {<<>>}]
  BY <1>1, <1>2, <1>3 DEF ConnectionType
<1>5. ConnectionType'
  BY <1>1, <1>2, <1>4 DEF ConnectionType
<1>6. QED
  BY <1>2, <1>5, ApplicationStep

LEMMA StutterStep == IInv /\ UNCHANGED vars => IInv'
<1> SUFFICES ASSUME IInv, UNCHANGED vars PROVE IInv'
  OBVIOUS
<1>1. UNCHANGED <<frames, pc, opening, constructed, settings, table_max, stream_list, requested>>
  BY DEF vars, connection
<1>2. ConnectionType'
  BY <1>1 DEF IInv, Types, ConnectionType
<1>3. QED
  BY <1>1, <1>2, ApplicationStep

-----------------------------------------------------------------------------
(* The invariant, and what follows from it.                                *)

LEMMA Inductive == IInv /\ [Next]_vars => IInv'
<1> SUFFICES ASSUME IInv, [Next]_vars PROVE IInv'
  OBVIOUS
<1>1. CASE Open
  BY <1>1, OpenStep
<1>2. CASE RecvPreface
  BY <1>2, RecvPrefaceStep
<1>3. CASE RejectFirstFrame
  BY <1>3, RejectStep
<1>4. CASE AdoptSettings
  BY <1>4, AdoptStep
<1>5. ASSUME NEW e \in Endpoints, Arrive(e) /\ UNCHANGED <<receiving, connection>> PROVE IInv'
  BY <1>5, ArriveStep
<1>6. ASSUME NEW e \in Endpoints, RecvFrame(e) /\ UNCHANGED connection PROVE IInv'
  <2>1. CASE e = "client"
    BY <1>6, <2>1, ClientReadsHeader, ClientReadsPayload DEF RecvFrame
  <2>2. CASE e = "server"
    BY <1>6, <2>2, ServerReadsHeader, ServerReadsPayload DEF RecvFrame
  <2>3. QED
    BY <2>1, <2>2, Constants
<1>7. ASSUME NEW e \in Endpoints, CallConnectionRecvFrame(e) PROVE IInv'
  BY <1>7, CallStep
<1>8. ASSUME NEW e \in Endpoints, NEW streamId \in StreamIds,
             ConnectionSendFrame(e, streamId, PriorityFrame)
      PROVE  IInv'
  BY <1>8, SendStep
<1>9. ASSUME NEW e \in Endpoints, AllocateStream(e) PROVE IInv'
  BY <1>9, AllocateStep
<1>10. ASSUME NEW e \in Endpoints, NEW s \in NewSettings, SetSettings(e, s) \/ ChangeSettings(e, s)
       PROVE  IInv'
  BY <1>10, SettersStep
<1>11. ASSUME NEW e \in Endpoints, CloseDescriptor(e) PROVE IInv'
  BY <1>11, CloseStep
<1>12. CASE UNCHANGED vars
  BY <1>12, StutterStep
<1>13. QED
  BY <1>1, <1>2, <1>3, <1>4, <1>5, <1>6, <1>7, <1>8, <1>9, <1>10, <1>11, <1>12 DEF Next

LEMMA Invariant == Spec => []IInv
BY Start, Inductive, PTL DEF Spec

\* Types: the variables of the two sockets, of RecvFrame and of both Connections.
THEOREM TypeCorrect == Spec => []TypeOK
<1>1. IInv => TypeOK
  <2> SUFFICES ASSUME IInv PROVE TypeOK
    OBVIOUS
  <2>1. StreamsType /\ ReceivingType /\ ConnectionType
    BY DEF IInv, Types
  <2>2. ASSUME NEW e \in Endpoints
        PROVE  /\ Len(starts[e]) = Len(sent[e])
               /\ 0 <= consumed[e] /\ consumed[e] <= arrived[e] /\ arrived[e] <= written[e]
    <3>1. 0 <= consumed[e] /\ consumed[e] <= arrived[e] /\ arrived[e] <= written[e]
      BY <2>1 DEF StreamsType
    <3>2. CASE e = "client"
      BY <3>1, <3>2 DEF IInv, ClientStream, Lies
    <3>3. CASE e = "server"
      <4>1. Len(<<AckMessage>>) = Len(<<0>>)
        OBVIOUS
      <4>2. Len(starts["server"]) = Len(sent["server"])
        BY <4>1 DEF IInv, ServerStream
      <4>3. QED
        BY <3>1, <3>3, <4>2
    <3>4. QED
      BY <3>2, <3>3, Constants
  <2>3. SocketTypeOK
    BY <2>1, <2>2 DEF SocketTypeOK, StreamsType
  <2>4. FramesTypeOK
    BY <2>1, <2>3 DEF FramesTypeOK, ReceivingType
  <2>5. constructed \in Settings \union {<<>>}
    BY <2>1, ConnectionAssumption DEF ConnectionType
  <2>6. QED
    BY <2>1, <2>4, <2>5 DEF TypeOK, ConnectionType
<1>2. QED
  BY <1>1, Invariant, PTL

\* A client whose first frame is the acknowledgement deals with a server that has
\* adopted its settings; it never sees another frame before.
THEOREM AckIsHonest == Spec => []AckMeansAdopted
<1>1. IInv => AckMeansAdopted
  BY DEF IInv, ClientReads
<1>2. QED
  BY <1>1, Invariant, PTL

\* A client of this library whose messages arrive whole is never turned away.
THEOREM GoodClientAccepted == Spec => []ClientIsAccepted
<1>1. IInv => ClientIsAccepted
  BY DEF IInv, Good, ClientIsAccepted
<1>2. QED
  BY <1>1, Invariant, PTL

\* The step in which the server's constructor succeeds: it has read the preface and a
\* SETTINGS frame, and has the settings that a client of this library was given.
LEMMA AdoptionStep ==
  ASSUME IInv, AdoptSettings
  PROVE  /\ Len(sent["client"]) >= 2
         /\ sent["client"][1].content = Preface
         /\ sent["client"][2].content.type = TYPE_SETTINGS_FRAME
         /\ constructed # <<>> /\ Portable(constructed) => settings'["server"] = constructed
<1> DEFINE frame == returned["server"][1]
<1>1. /\ pc["server"] = "settings" /\ call["server"] = "none"
      /\ frame.type = TYPE_SETTINGS_FRAME
      /\ settings' = [settings EXCEPT !["server"] = DecodeSettings(frame.payload.settings)]
  BY DEF AdoptSettings
<1>2. Types /\ ClientStream /\ ServerReads
  BY DEF IInv
<1>3. frame = Second /\ Len(sent["client"]) >= 2
  <2>1. frame # nullptr
    BY <1>1, Constants DEF nullptr
  <2>2. QED
    BY <1>1, <2>1, FirstFrame
<1>4. sent["client"][1].content = Preface
  BY <1>1, <1>2 DEF ServerReads, BeforeSettings, Accepted, PrefaceMessage
<1>5. settings'["server"] = DecodeSettings(Second.payload.settings)
  <2>1. settings \in [Endpoints -> Settings]
    BY <1>2 DEF Types, ConnectionType
  <2>2. QED
    BY <1>1, <1>3, <2>1, Constants
<1>6. ASSUME constructed # <<>>, Portable(constructed)
      PROVE  settings'["server"] = constructed
  <2>1. constructed \in Settings /\ Openings = {OpeningOf(constructed)}
    BY <1>2, <1>6, ConnectionAssumption DEF Types, ConnectionType, Openings
  <2>2. Begins(sent["client"], OpeningOf(constructed))
    BY <1>2, <2>1 DEF ClientStream
  <2>3. Second = SettingsFrameOf(constructed)
    <3>1. Len(sent["client"]) \in Nat
      BY <1>2, Constants DEF Types, StreamsType
    <3>2. 2 \in 1 .. Len(sent["client"])
      BY <1>3, <3>1
    <3>3. OpeningOf(constructed)[2] = SettingsFrameOf(constructed)
      BY DEF OpeningOf
    <3>4. QED
      BY <2>2, <3>2, <3>3 DEF Begins, Second
  <2>4. Second.payload.settings = EncodeSettings(constructed)
    BY <2>3 DEF SettingsFrameOf, Payload
  <2>5. QED
    BY <1>5, <1>6, <2>1, <2>4, SettingsRoundTrip
<1>7. QED
  BY <1>1, <1>3, <1>4, <1>6 DEF Second

\* When the server's constructor succeeds, the client has opened with the preface and
\* SETTINGS, and the server has the settings that the client was constructed with.
THEOREM SettingsAdopted == Spec => AdoptsWhatTheClientHas
<1> DEFINE Succeeds == pc["server"] # "ready" /\ pc'["server"] = "ready"
           Honest ==
             /\ Len(sent["client"]) >= 2
             /\ sent["client"][1].content = Preface
             /\ sent["client"][2].content.type = TYPE_SETTINGS_FRAME
             /\ constructed # <<>> /\ Portable(constructed) => settings'["server"] = constructed
<1>1. IInv /\ [Next]_vars => [Succeeds => Honest]_vars
  <2> SUFFICES ASSUME IInv, Next, Succeeds PROVE Honest
    OBVIOUS
  <2>1. pc \in [Endpoints -> pcs] /\ "client" \in Endpoints /\ "server" \in Endpoints
    BY Constants DEF IInv, Types, ConnectionType
  <2>2. ASSUME UNCHANGED pc PROVE FALSE
    BY <2>2
  <2>3. CASE Open
    BY <2>1, <2>3 DEF Open
  <2>4. CASE RecvPreface
    BY <2>1, <2>4 DEF RecvPreface
  <2>5. CASE RejectFirstFrame
    BY <2>1, <2>5 DEF RejectFirstFrame
  <2>6. CASE AdoptSettings
    BY <2>6, AdoptionStep
  <2>7. ASSUME NEW e \in Endpoints,
               \/ Arrive(e) /\ UNCHANGED <<receiving, connection>>
               \/ RecvFrame(e) /\ UNCHANGED connection
               \/ CallConnectionRecvFrame(e)
               \/ \E streamId \in StreamIds : ConnectionSendFrame(e, streamId, PriorityFrame)
               \/ AllocateStream(e)
               \/ \E s \in NewSettings : SetSettings(e, s) \/ ChangeSettings(e, s)
               \/ CloseDescriptor(e)
        PROVE  FALSE
    BY <2>2, <2>7 DEF CallConnectionRecvFrame, ConnectionSendFrame, AllocateStream, SetSettings,
       ChangeSettings, CloseDescriptor, connection
  <2>8. QED
    BY <2>3, <2>4, <2>5, <2>6, <2>7 DEF Next
<1>2. QED
  BY <1>1, Invariant, PTL DEF Spec, AdoptsWhatTheClientHas

=============================================================================
