------------------------- MODULE FrameObjectsProofs -------------------------
(***************************************************************************)
(* Frames as an application builds, sends and receives them, for any       *)
(* words, octets, blocks, header lists and settings, and any number of     *)
(* calls and of frames.                                                    *)
(***************************************************************************)
EXTENDS FrameObjects, SequenceTheorems, FiniteSetTheorems, WellFoundedInduction, TLAPS

-----------------------------------------------------------------------------
(* Numbers and octets.                                                     *)

LEMMA LeastNatural ==
  ASSUME NEW S \in SUBSET Nat, S # {}
  PROVE  \E x \in S : \A y \in S : x <= y
<1>1. PICK x \in S : \A y \in S : ~(<<y, x>> \in OpToRel(<, Nat))
  BY NatLessThanWellFounded, WFMin, Zenon
<1>2. \A y \in S : <<y, x>> \in OpToRel(<, Nat) <=> y < x
  BY <1>1 DEF OpToRel
<1>3. \A y \in S : ~(y < x)
  BY <1>1, <1>2
<1>4. x \in Nat /\ \A y \in S : y \in Nat
  BY <1>1
<1>5. \A y \in S : x <= y
  BY <1>3, <1>4
<1>6. QED
  BY <1>1, <1>5

LEMMA MaxIsIn ==
  ASSUME NEW m \in Int, NEW S \in SUBSET (0 .. m), S # {}
  PROVE  Max(S) \in S
<1> DEFINE T == {n \in Nat : m - n \in S}
<1>1. T # {}
  <2>1. PICK x \in S : TRUE
    OBVIOUS
  <2>2. m - x \in Nat /\ m - (m - x) = x
    BY <2>1
  <2>3. QED
    BY <2>1, <2>2
<1>2. PICK t \in T : \A y \in T : t <= y
  BY <1>1, LeastNatural
<1>3. m - t \in S /\ \A y \in S : m - t >= y
  <2>1. ASSUME NEW y \in S PROVE m - t >= y
    <3>1. m - y \in Nat /\ m - (m - y) = y
      OBVIOUS
    <3>2. t <= m - y
      BY <1>2, <3>1
    <3>3. QED
      BY <1>2, <3>1, <3>2
  <2>2. QED
    BY <1>2, <2>1
<1>4. QED
  BY <1>3, Zenon DEF Max

LEMMA SeqOfFunction ==
  ASSUME NEW S, NEW n \in Nat, NEW f \in [1 .. n -> S]
  PROVE  f \in Seq(S) /\ Len(f) = n
OBVIOUS

LEMMA Joined ==
  ASSUME NEW S, NEW u \in Seq(S), NEW v \in Seq(S)
  PROVE  /\ u \o v \in Seq(S) /\ Len(u \o v) = Len(u) + Len(v)
         /\ \A i \in 1 .. Len(u) : (u \o v)[i] = u[i]
         /\ \A i \in 1 .. Len(v) : (u \o v)[Len(u) + i] = v[i]
OBVIOUS

LEMMA WordsAre ==
  /\ Zero \in Word /\ One \in Word /\ UINT32_MAX \in Word
  /\ MinFrameSize \in Word /\ MaxFrameSize \in Word
  /\ \A id \in SettingIds : Defaults[id] \in Word
<1>1. /\ Zero \in Word /\ One \in Word /\ UINT32_MAX \in Word
      /\ MinFrameSize \in Word /\ MaxFrameSize \in Word
      /\ <<0, 0, 16, 0>> \in Word /\ <<0, 0, 255, 255>> \in Word
  BY DEF Zero, One, UINT32_MAX, MinFrameSize, MaxFrameSize, Word, Octet
<1>2. ASSUME NEW id \in SettingIds PROVE Defaults[id] \in Word
  BY <1>1 DEF SettingIds, Defaults, HEADER_TABLE_SIZE, ENABLE_PUSH, MAX_CONCURRENT_STREAMS,
             INITIAL_WINDOW_SIZE, MAX_FRAME_SIZE, MAX_HEADER_LIST_SIZE
<1>3. QED
  BY <1>1, <1>2

LEMMA DefaultsAreSettings == Defaults \in Settings /\ Defaults[MAX_FRAME_SIZE] = MinFrameSize
<1>1. Defaults[ENABLE_PUSH] = One /\ Defaults[MAX_FRAME_SIZE] = MinFrameSize
  BY DEF Defaults, SettingIds, HEADER_TABLE_SIZE, ENABLE_PUSH, MAX_CONCURRENT_STREAMS,
         INITIAL_WINDOW_SIZE, MAX_FRAME_SIZE, MAX_HEADER_LIST_SIZE
<1>2. Defaults \in [SettingIds -> Word]
  <2>1. Defaults = [id \in SettingIds |-> Defaults[id]]
    BY DEF Defaults
  <2>2. QED
    BY <2>1, WordsAre
<1>3. QED
  BY <1>1, <1>2 DEF Settings

\* A setting is decoded to a word, and to one as it was if its last three octets are
\* not above 127.
LEMMA WidenedType ==
  ASSUME NEW w \in Word
  PROVE  /\ Widened(w) \in Word
         /\ (\A k \in 2 .. 4 : w[k] < 128) => Widened(w) = w
<1>1. Widened(w) \in Word
  BY DEF Widened, Word, Octet
<1>2. ASSUME \A k \in 2 .. 4 : w[k] < 128 PROVE Widened(w) = w
  <2>1. ASSUME NEW k \in 1 .. 4 PROVE Widened(w)[k] = w[k]
    <3>1. \A j \in (k + 1) .. 4 : j \in 2 .. 4 /\ w[j] \in Int
      BY DEF Word, Octet
    <3>2. ~\E j \in (k + 1) .. 4 : w[j] >= 128
      BY <1>2, <3>1
    <3>3. QED
      BY <3>2 DEF Widened
  <2>2. QED
    BY <1>1, <2>1 DEF Word
<1>3. QED
  BY <1>1, <1>2

LEMMA AdoptedType ==
  ASSUME NEW id \in SettingIds, NEW w \in Word
  PROVE  Adopted(id, w) \in Word /\ (id = ENABLE_PUSH => Adopted(id, w) \in {Zero, One})
BY WordsAre DEF Adopted, ClampFrameSize

-----------------------------------------------------------------------------
(* Classes, objects and lengths.                                           *)

LEMMA ClassSet ==
  Classes = {"DATA", "HEADERS", "PRIORITY", "RST_STREAM", "SETTINGS", "PUSH_PROMISE",
             "PING", "GOAWAY", "WINDOW_UPDATE", "CONTINUATION"}
BY DEF Classes, TypeOf

LEMMA Types ==
  /\ TypeOf["DATA"] = 0 /\ TypeOf["HEADERS"] = 1 /\ TypeOf["PRIORITY"] = 2
  /\ TypeOf["RST_STREAM"] = 3 /\ TypeOf["SETTINGS"] = 4 /\ TypeOf["PUSH_PROMISE"] = 5
  /\ TypeOf["PING"] = 6 /\ TypeOf["GOAWAY"] = 7 /\ TypeOf["WINDOW_UPDATE"] = 8
  /\ TypeOf["CONTINUATION"] = 9
BY DEF TypeOf

LEMMA TypeTells ==
  /\ \A class \in Classes : TypeOf[class] \in 0 .. 9
  /\ \A c, d \in Classes : TypeOf[c] = TypeOf[d] => c = d
BY ClassSet, Types

LEMMA ListedCount ==
  ASSUME NEW s
  PROVE  SettingsLength(s) \in Nat /\ Cardinality(Listed(s)) \in Nat
<1>1. Listed(s) \in SUBSET (1 .. 6)
  BY DEF Listed, SettingIds
<1>2. IsFiniteSet(Listed(s))
  <2>1. 1 \in Int /\ 6 \in Int
    OBVIOUS
  <2>2. IsFiniteSet(1 .. 6)
    BY <2>1, FS_Interval, Zenon
  <2>3. QED
    BY <1>1, <2>2, FS_Subset
<1>3. Cardinality(Listed(s)) \in Nat
  BY <1>2, FS_CardinalityType
<1>4. QED
  BY <1>3 DEF SettingsLength

\* A frame of the application: what it holds was given to it.
SentObject ==
  [class : Classes, type : 0 .. 9, length : Nat, flags : SUBSET Flags, stream_id : Word,
   pad_length : Octet, bit : BOOLEAN, word : Word, code : Word, weight : Octet,
   data : Seq(Octet), list : Lists, settings : Settings]

LEMMA SentIsObject == SentObject \subseteq FrameObject
<1>1. Seq(Octet) \subseteq Seq(Octet \union {Stray})
  BY SeqMonotonic
<1>2. QED
  BY <1>1 DEF SentObject, FrameObject

LEMMA LengthIsNatural ==
  ASSUME NEW f \in FrameObject
  PROVE  FixedLength(f) \in Nat /\ LengthOf(f) \in Nat
<1>1. FixedLength(f) \in Nat
  BY DEF FixedLength
<1>2. f.pad_length \in Nat /\ Len(f.data) \in Nat
  <2>1. f.pad_length \in Octet /\ f.data \in Seq(Octet \union {Stray})
    BY DEF FrameObject
  <2>2. \A octet \in Octet : octet \in Nat
    BY DEF Octet
  <2>3. \A S : \A s \in Seq(S) : Len(s) \in Nat
    OBVIOUS
  <2>4. QED
    BY <2>1, <2>2, <2>3
<1>3. QED
  BY <1>1, <1>2, ListedCount DEF LengthOf

LEMMA UpdatedIsObject ==
  /\ \A f \in FrameObject : Updated(f) \in FrameObject
  /\ \A f \in SentObject : Updated(f) \in SentObject
<1>1. ASSUME NEW f \in FrameObject PROVE Updated(f) \in FrameObject
  <2>1. LengthOf(f) \in Nat
    BY LengthIsNatural
  <2>2. QED
    BY <2>1 DEF Updated, FrameObject
<1>2. ASSUME NEW f \in SentObject PROVE Updated(f) \in SentObject
  <2>1. LengthOf(f) \in Nat
    BY LengthIsNatural, SentIsObject
  <2>2. QED
    BY <2>1 DEF Updated, SentObject
<1>3. QED
  BY <1>1, <1>2

\* UpdateLength changes nothing but the length, and nothing it depends on.
LEMMA UpdatedFields ==
  ASSUME NEW f \in FrameObject
  PROVE  /\ Updated(f).class = f.class /\ Updated(f).type = f.type /\ Updated(f).flags = f.flags
         /\ Updated(f).stream_id = f.stream_id /\ Updated(f).pad_length = f.pad_length
         /\ Updated(f).bit = f.bit /\ Updated(f).word = f.word /\ Updated(f).code = f.code
         /\ Updated(f).weight = f.weight /\ Updated(f).data = f.data
         /\ Updated(f).list = f.list /\ Updated(f).settings = f.settings
         /\ Updated(f).length = LengthOf(f)
BY DEF Updated, FrameObject

\* The length depends on these members alone.
LEMMA SameLength ==
  ASSUME NEW f, NEW g, f.class = g.class, f.flags = g.flags, f.data = g.data,
         f.settings = g.settings, Padded(f) => f.pad_length = g.pad_length
  PROVE  LengthOf(f) = LengthOf(g) /\ FixedLength(f) = FixedLength(g)
         /\ (Padded(f) <=> Padded(g)) /\ (Prioritized(f) <=> Prioritized(g))
BY DEF LengthOf, FixedLength, Padded, Prioritized

-----------------------------------------------------------------------------
(* Building.                                                               *)

\* The flags of an object are those wanted, but for what DATA muddles up.
FlagsKept(class, flags, wanted) ==
  /\ flags \ Muddled(class) = wanted \ Muddled(class)
  /\ END_STREAM \in wanted => END_STREAM \in flags

\* Constructors with arguments of these classes do not update the length.
Stale == {"PRIORITY", "RST_STREAM", "PING", "WINDOW_UPDATE"}

\* What every frame of the application satisfies, made by how and with the flags wanted; its
\* length is out of date if set_flags or clear_flags was called, unchecked.
Shaped(f, how, wanted) ==
  /\ f \in SentObject
  /\ f.type = IF how = "default" THEN TypeOf[f.class] ELSE TypeOf["SETTINGS"]
  /\ f.class \in {"PRIORITY", "RST_STREAM", "SETTINGS", "PING", "WINDOW_UPDATE"} => f.data = <<>>
  /\ f.class # "HEADERS" => f.list = <<>>
  /\ f.class # "SETTINGS" => f.settings = Defaults
  /\ FlagsKept(f.class, f.flags, wanted)

Proper(f, how, unchecked, wanted) ==
  /\ Shaped(f, how, wanted)
  /\ (how = "default" \/ f.class \notin Stale) /\ ~unchecked /\ ~Padded(f) =>
       f.length = LengthOf(f)

Building ==
  /\ made \in {"default", "arguments"} /\ raw \in BOOLEAN /\ asked \in SUBSET Flags
  /\ calls \in 0 .. MaxCalls /\ freed \in BOOLEAN
  /\ Built => Proper(frame, made, raw, asked)

\* Nothing is on its way, and what was received before is forgotten.
Forgotten == wire = None /\ wire' = None /\ original' = None /\ received' = None

LEMMA ListTypes ==
  /\ <<>> \in Lists
  /\ \A l \in Lists : \A block \in Encodings[l] : block \in Seq(Octet)
BY EncodingsAssumption

IsDefault(f, class, word, code) ==
  /\ f \in SentObject
  /\ f.class = class /\ f.type = TypeOf[class] /\ f.flags = {} /\ f.data = <<>>
  /\ f.list = <<>> /\ f.settings = Defaults /\ f.length = FixedLength(f)
  /\ f.stream_id = Zero /\ f.pad_length = 0 /\ f.weight = 0 /\ f.bit = FALSE
  /\ f.word = word /\ f.code = code

LEMMA DefaultIsSent ==
  ASSUME NEW class \in Classes, NEW word \in Word, NEW code \in Word
  PROVE  IsDefault(Default(class, word, code), class, word, code)
<1> DEFINE f == [class |-> class, type |-> TypeOf[class], length |-> 0, flags |-> {},
                 stream_id |-> Zero, pad_length |-> 0, bit |-> FALSE, word |-> word,
                 code |-> code, weight |-> 0, data |-> <<>>, list |-> <<>>,
                 settings |-> Defaults]
           g == [f EXCEPT !.length = FixedLength(f)]
<1>1. TypeOf[class] \in 0 .. 9 /\ <<>> \in Lists /\ <<>> \in Seq(Octet) /\ 0 \in Octet
  BY TypeTells, ListTypes DEF Octet
<1>2. f \in SentObject
  BY <1>1, WordsAre, DefaultsAreSettings DEF SentObject
<1>3. FixedLength(f) \in Nat
  BY <1>2, LengthIsNatural, SentIsObject
<1>4. g \in SentObject
  BY <1>2, <1>3 DEF SentObject
<1>5. g = Default(class, word, code)
  BY DEF Default
<1>6. /\ g.class = class /\ g.type = TypeOf[class] /\ g.flags = {} /\ g.data = <<>>
      /\ g.list = <<>> /\ g.settings = Defaults /\ g.length = FixedLength(f)
      /\ g.stream_id = Zero /\ g.pad_length = 0 /\ g.weight = 0 /\ g.bit = FALSE
      /\ g.word = word /\ g.code = code
  OBVIOUS
<1>7. FixedLength(g) = FixedLength(f)
  <2>1. f.class = g.class /\ f.flags = g.flags
    OBVIOUS
  <2>2. QED
    BY <2>1 DEF FixedLength, Prioritized
<1> HIDE DEF f, g
<1>8. QED
  BY <1>4, <1>5, <1>6, <1>7 DEF IsDefault

LEMMA FoundWords ==
  ASSUME NEW class, NEW member, NEW w \in Found(class, member)
  PROVE  w \in Word
BY WordsAre, FrameObjectsAssumption DEF Found

LEMMA CallsBound == MaxCalls \in Nat \ {0}
BY FrameObjectsAssumption

LEMMA NewProper ==
  ASSUME NEW class \in Classes, New(class)
  PROVE  Building'
<1>1. PICK word \in Found(class, "word"), code \in Found(class, "code") :
        Construct(Default(class, word, code), "default")
  BY DEF New
<1> DEFINE f == Default(class, word, code)
<1>2. word \in Word /\ code \in Word
  BY FoundWords
<1>3. IsDefault(f, class, word, code)
  BY <1>2, DefaultIsSent
<1> HIDE DEF f
<1> USE DEF IsDefault
<1>4. LengthOf(f) = FixedLength(f)
  <2>1. ~Padded(f) /\ ACK \notin f.flags
    BY <1>3 DEF Padded
  <2>2. Listed(Defaults) = {}
    BY DEF Listed
  <2>3. SettingsLength(Defaults) = 0
    BY <2>2, FS_EmptySet DEF SettingsLength
  <2>4. f.class = "SETTINGS" => FixedLength(f) = 0
    BY DEF FixedLength, Prioritized
  <2>5. FixedLength(f) \in Nat
    BY <1>3, LengthIsNatural, SentIsObject
  <2>6. QED
    BY <1>3, <2>1, <2>3, <2>4, <2>5 DEF LengthOf
<1>5. Proper(f, "default", FALSE, {})
  BY <1>3, <1>4 DEF Proper, Shaped, FlagsKept
<1>6. /\ frame' = f /\ made' = "default" /\ asked' = {} /\ raw' = FALSE /\ calls' = 1
      /\ freed' = FALSE
  BY <1>1, <1>3 DEF Construct, f
<1>7. QED
  <2>1. 1 \in 0 .. MaxCalls /\ made' \in {"default", "arguments"} /\ {} \in SUBSET Flags
    BY <1>6, CallsBound
  <2>2. Proper(frame', made', raw', asked')
    BY <1>5, <1>6
  <2>3. QED
    BY <1>6, <2>1, <2>2 DEF Building

LEMMA ValueTypes ==
  /\ ValuesOf("pad_length") \subseteq Octet /\ ValuesOf("weight") \subseteq Octet
  /\ ValuesOf("bit") = BOOLEAN /\ ValuesOf("word") \subseteq Word
  /\ ValuesOf("code") \subseteq Word /\ ValuesOf("data") \subseteq Seq(Octet)
  /\ ValuesOf("list") = Lists /\ ValuesOf("settings") \subseteq Settings
BY FrameObjectsAssumption DEF ValuesOf

LEMMA MembersAre ==
  /\ \A c \in {"PRIORITY", "RST_STREAM", "SETTINGS", "PING", "WINDOW_UPDATE"} :
       "data" \notin MembersOf[c]
  /\ \A c \in Classes \ {"HEADERS"} : "list" \notin MembersOf[c]
  /\ \A c \in Classes \ {"SETTINGS"} : "settings" \notin MembersOf[c]
BY ClassSet DEF MembersOf

LEMMA GivenTypes ==
  ASSUME NEW class \in Classes
  PROVE  /\ Given(class, "pad_length") \subseteq Octet /\ Given(class, "weight") \subseteq Octet
         /\ Given(class, "word") \subseteq Word /\ Given(class, "code") \subseteq Word
         /\ Given(class, "data") \subseteq Seq(Octet) /\ Given(class, "list") \subseteq Lists
         /\ Given(class, "settings") \subseteq Settings
         /\ class \in {"PRIORITY", "RST_STREAM", "SETTINGS", "PING", "WINDOW_UPDATE"} =>
              Given(class, "data") = {<<>>}
         /\ class # "HEADERS" => Given(class, "list") = {<<>>}
         /\ class # "SETTINGS" => Given(class, "settings") = {Defaults}
<1> DEFINE d == Default(class, Zero, Zero)
<1>1. IsDefault(d, class, Zero, Zero)
  BY WordsAre, DefaultIsSent
<1> HIDE DEF d
<1>2. /\ d.pad_length \in Octet /\ d.weight \in Octet /\ d.word \in Word /\ d.code \in Word
      /\ d.data = <<>> /\ d.list = <<>> /\ d.settings = Defaults
  BY <1>1, WordsAre DEF IsDefault, SentObject
<1>3. <<>> \in Seq(Octet) /\ <<>> \in Lists /\ Defaults \in Settings
  BY ListTypes, DefaultsAreSettings
<1>4. \A member \in {"pad_length", "weight", "word", "code", "data", "list", "settings"} :
        Given(class, member) = IF member \in MembersOf[class] THEN ValuesOf(member)
                               ELSE {d[member]}
  BY DEF Given, d
<1>5. QED
  BY <1>2, <1>3, <1>4, ValueTypes, MembersAre

LEMMA NewWithArgumentsProper ==
  ASSUME NEW class \in Classes, NewWithArguments(class)
  PROVE  Building' /\ Forgotten
<1> DEFINE Blk(l) == IF class = "HEADERS" THEN Encodings[l] ELSE Given(class, "data")
           Obj(pad, word, code, weight, bit, list, settings, priority, data) ==
             [Default(class, word, code) EXCEPT
                !.type = TypeOf["SETTINGS"], !.length = 0,
                !.flags = priority \union (IF pad > 0 THEN {PADDED} ELSE {}),
                !.pad_length = pad, !.bit = bit, !.weight = weight,
                !.data = data, !.list = list, !.settings = settings]
<1>1. PICK pad \in Given(class, "pad_length"), word \in Given(class, "word"),
           code \in Given(class, "code"), weight \in Given(class, "weight"),
           bit \in IF "weight" \in MembersOf[class] THEN BOOLEAN ELSE {FALSE},
           list \in Given(class, "list"), settings \in Given(class, "settings"),
           priority \in IF class = "HEADERS" THEN {{}, {PRIORITY}} ELSE {{}} :
        \E data \in Blk(list) :
          LET f == Obj(pad, word, code, weight, bit, list, settings, priority, data) IN
          Construct(IF class \in {"PRIORITY", "RST_STREAM", "PING", "WINDOW_UPDATE"}
                    THEN f ELSE Updated(f), "arguments")
  BY DEF NewWithArguments
<1>0. PICK data \in Blk(list) :
        LET f == Obj(pad, word, code, weight, bit, list, settings, priority, data) IN
        Construct(IF class \in {"PRIORITY", "RST_STREAM", "PING", "WINDOW_UPDATE"}
                  THEN f ELSE Updated(f), "arguments")
  BY <1>1
<1> DEFINE d == Default(class, word, code)
           flags == priority \union (IF pad > 0 THEN {PADDED} ELSE {})
           f == [d EXCEPT !.type = TypeOf["SETTINGS"], !.length = 0, !.flags = flags,
                          !.pad_length = pad, !.bit = bit, !.weight = weight,
                          !.data = data, !.list = list, !.settings = settings]
           g == IF class \in {"PRIORITY", "RST_STREAM", "PING", "WINDOW_UPDATE"}
                THEN f ELSE Updated(f)
<1>2. Construct(g, "arguments")
  BY <1>0
<1>3. /\ pad \in Octet /\ word \in Word /\ code \in Word /\ weight \in Octet
      /\ bit \in BOOLEAN /\ priority \in {{}, {PRIORITY}}
      /\ list \in Lists /\ settings \in Settings
      /\ class # "HEADERS" => list = <<>>
      /\ class # "SETTINGS" => settings = Defaults
  <2>1. bit \in BOOLEAN /\ priority \in {{}, {PRIORITY}}
    OBVIOUS
  <2>2. QED
    BY <2>1, GivenTypes
<1>4. /\ data \in Seq(Octet)
      /\ class \in {"PRIORITY", "RST_STREAM", "SETTINGS", "PING", "WINDOW_UPDATE"} => data = <<>>
  <2>1. class = "HEADERS" => data \in Encodings[list]
    OBVIOUS
  <2>2. class # "HEADERS" => data \in Given(class, "data")
    OBVIOUS
  <2>3. QED
    BY <1>3, <2>1, <2>2, GivenTypes, ListTypes
<1>5. IsDefault(d, class, word, code)
  BY <1>3, DefaultIsSent
<1>6. flags \in SUBSET Flags /\ TypeOf["SETTINGS"] \in 0 .. 9
  BY <1>3, Types DEF Flags
<1> HIDE DEF d, flags
<1>7. d \in SentObject /\ d.class = class
  BY <1>5 DEF IsDefault
<1>8. /\ f \in SentObject /\ f.class = class /\ f.type = TypeOf["SETTINGS"] /\ f.data = data
      /\ f.list = list /\ f.settings = settings
  BY <1>3, <1>4, <1>6, <1>7 DEF SentObject
<1> HIDE DEF f
<1>9. /\ Updated(f) \in SentObject /\ Updated(f).class = class
      /\ Updated(f).type = TypeOf["SETTINGS"] /\ Updated(f).data = data
      /\ Updated(f).list = list /\ Updated(f).settings = settings
      /\ Updated(f).length = LengthOf(Updated(f))
  <2>1. f \in FrameObject
    BY <1>8, SentIsObject
  <2> DEFINE u == Updated(f)
  <2>2. /\ u.class = f.class /\ u.type = f.type /\ u.flags = f.flags
        /\ u.pad_length = f.pad_length /\ u.data = f.data /\ u.list = f.list
        /\ u.settings = f.settings /\ u.length = LengthOf(f)
    BY <2>1, UpdatedFields
  <2>3. u \in SentObject
    BY <1>8, UpdatedIsObject
  <2> HIDE DEF u
  <2>4. LengthOf(f) = LengthOf(u)
    BY <2>2, SameLength
  <2>5. QED
    BY <1>8, <2>2, <2>3, <2>4 DEF u
<1>10. /\ g \in SentObject /\ g.class = class /\ g.type = TypeOf["SETTINGS"] /\ g.data = data
       /\ g.list = list /\ g.settings = settings
       /\ class \notin Stale => g.length = LengthOf(g)
  BY <1>8, <1>9 DEF Stale
<1> HIDE DEF g
<1>11. Proper(g, "arguments", FALSE, g.flags)
  <2>1. FlagsKept(class, g.flags, g.flags)
    BY DEF FlagsKept
  <2>2. QED
    BY <1>3, <1>4, <1>10, <2>1 DEF Proper, Shaped
<1>12. /\ frame' = g /\ made' = "arguments" /\ asked' = g.flags /\ raw' = FALSE /\ calls' = 1
       /\ freed' = FALSE
  BY <1>2 DEF Construct
<1>13. g.flags \in SUBSET Flags
  BY <1>10 DEF SentObject
<1>14. Proper(frame', made', raw', asked')
  BY <1>11, <1>12
<1>15. 1 \in 0 .. MaxCalls
  BY CallsBound
<1>16. Forgotten
  BY <1>2 DEF Construct, Forgotten
<1>17. QED
  BY <1>12, <1>13, <1>14, <1>15, <1>16 DEF Building

LEMMA UpdatedProper ==
  ASSUME NEW f, NEW how, NEW unchecked, NEW wanted, Shaped(f, how, wanted)
  PROVE  /\ Proper(Updated(f), how, unchecked, wanted)
         /\ Updated(f).length = LengthOf(Updated(f))
<1> DEFINE u == Updated(f)
<1>1. f \in SentObject /\ f \in FrameObject
  BY SentIsObject DEF Shaped
<1>2. /\ u.class = f.class /\ u.type = f.type /\ u.flags = f.flags
      /\ u.pad_length = f.pad_length /\ u.data = f.data /\ u.list = f.list
      /\ u.settings = f.settings /\ u.length = LengthOf(f)
  BY <1>1, UpdatedFields
<1>3. u \in SentObject
  BY <1>1, UpdatedIsObject
<1> HIDE DEF u
<1>4. LengthOf(f) = LengthOf(u)
  BY <1>2, SameLength
<1>5. Shaped(u, how, wanted)
  BY <1>2, <1>3 DEF Shaped
<1>6. u.length = LengthOf(u)
  BY <1>2, <1>4
<1>7. QED
  BY <1>5, <1>6 DEF Proper, u

\* A call on a frame.
LEMMA CallKeeps ==
  ASSUME Building, Call, NEW f, frame' = f, raw' \in BOOLEAN, asked' \in SUBSET Flags,
         Proper(f, made, raw', asked')
  PROVE  Building'
<1>1. made' = made /\ calls' \in 0 .. MaxCalls /\ freed' = freed
  BY CallsBound DEF Call, Building
<1>2. QED
  BY <1>1 DEF Building

LEMMA SetField ==
  ASSUME NEW f \in SentObject,
         NEW member \in {"pad_length", "bit", "word", "code", "weight", "data", "list", "settings"},
         NEW value \in ValuesOf(member)
  PROVE  /\ [f EXCEPT ![member] = value] \in SentObject
         /\ \A x \in {"class", "type", "length", "flags", "stream_id", "pad_length", "bit", "word",
                      "code", "weight", "data", "list", "settings"} \ {member} :
              [f EXCEPT ![member] = value][x] = f[x]
         /\ [f EXCEPT ![member] = value][member] = value
<1>1. CASE member \in {"pad_length", "bit"}
  BY <1>1, ValueTypes DEF SentObject
<1>2. CASE member \in {"word", "code"}
  BY <1>2, ValueTypes DEF SentObject
<1>3. CASE member \in {"weight", "data"}
  BY <1>3, ValueTypes DEF SentObject
<1>4. CASE member \in {"list", "settings"}
  BY <1>4, ValueTypes DEF SentObject
<1>5. QED
  BY <1>1, <1>2, <1>3, <1>4

LEMMA SetMemberKeeps ==
  ASSUME Building, NEW member, NEW value \in ValuesOf(member),
         member \in {"pad_length", "bit", "word", "code", "weight", "data", "list", "settings"},
         SetMember(member, value)
  PROVE  Building'
<1> DEFINE f == [frame EXCEPT ![member] = value]
<1>1. /\ Call /\ member \in MembersOf[frame.class] /\ raw' = raw /\ asked' = asked
      /\ IF member = "list"
         THEN \E block \in Encodings[value] : frame' = Updated([f EXCEPT !.data = block])
         ELSE frame' = IF member \in {"data", "settings"} THEN Updated(f) ELSE f
  BY DEF SetMember
<1>2. Proper(frame, made, raw, asked) /\ raw \in BOOLEAN /\ asked \in SUBSET Flags
  BY <1>1 DEF Building, Call
<1>3. frame \in SentObject /\ frame.class \in Classes
  BY <1>2 DEF Proper, Shaped, SentObject
<1>4. /\ f \in SentObject
      /\ f.class = frame.class /\ f.type = frame.type /\ f.flags = frame.flags
      /\ f.length = frame.length
      /\ member # "data" => f.data = frame.data
      /\ member # "list" => f.list = frame.list
      /\ member # "settings" => f.settings = frame.settings
  <2>1. /\ f \in SentObject
        /\ \A x \in {"class", "type", "length", "flags", "stream_id", "pad_length", "bit", "word",
                     "code", "weight", "data", "list", "settings"} \ {member} :
             f[x] = frame[x]
    BY <1>3, SetField
  <2> HIDE DEF f
  <2>2. /\ member # "class" /\ member # "type" /\ member # "flags" /\ member # "length"
    OBVIOUS
  <2>3. QED
    BY <2>1, <2>2
<1> HIDE DEF f
<1>5. CASE member = "list"
  <2>1. PICK block \in Encodings[value] : frame' = Updated([f EXCEPT !.data = block])
    BY <1>1, <1>5
  <2> DEFINE g == [f EXCEPT !.data = block]
  <2>2. frame.class = "HEADERS" /\ block \in Seq(Octet)
    BY <1>1, <1>3, <1>5, MembersAre, ValueTypes, ListTypes
  <2>3. /\ g \in SentObject /\ g.class = f.class /\ g.type = f.type /\ g.flags = f.flags
        /\ g.settings = f.settings
    BY <1>4, <2>2 DEF SentObject
  <2> HIDE DEF g
  <2>4. Shaped(g, made, asked)
    BY <1>2, <1>4, <1>5, <2>2, <2>3 DEF Proper, Shaped
  <2>5. QED
    BY <1>1, <1>2, <2>1, <2>4, UpdatedProper, CallKeeps DEF g
<1>6. CASE member \in {"data", "settings"}
  <2>1. Shaped(f, made, asked)
    <3>1. f.class \in {"PRIORITY", "RST_STREAM", "SETTINGS", "PING", "WINDOW_UPDATE"} =>
            f.data = <<>>
      BY <1>1, <1>2, <1>4, <1>6, MembersAre DEF Proper, Shaped
    <3>2. f.class # "SETTINGS" => f.settings = Defaults
      BY <1>1, <1>2, <1>3, <1>4, <1>6, MembersAre DEF Proper, Shaped
    <3>3. QED
      BY <1>2, <1>4, <1>6, <3>1, <3>2 DEF Proper, Shaped
  <2>2. frame' = Updated(f)
    BY <1>1, <1>6
  <2>3. QED
    BY <1>1, <1>2, <2>1, <2>2, UpdatedProper, CallKeeps
<1>7. CASE member \in {"pad_length", "bit", "word", "code", "weight"}
  <2>1. Shaped(f, made, asked)
    BY <1>2, <1>4, <1>7 DEF Proper, Shaped
  <2>2. Padded(f) <=> Padded(frame)
    BY <1>4 DEF Padded
  <2>3. ~Padded(f) => LengthOf(f) = LengthOf(frame)
    BY <1>4, <1>7, SameLength
  <2>4. Proper(f, made, raw, asked)
    BY <1>2, <1>4, <2>1, <2>2, <2>3 DEF Proper
  <2>5. frame' = f
    BY <1>1, <1>7
  <2>6. QED
    BY <1>1, <1>2, <2>4, <2>5, CallKeeps
<1>8. QED
  BY <1>5, <1>6, <1>7

LEMMA SetStreamIdKeeps ==
  ASSUME Building, NEW id \in Words, SetStreamId(id)
  PROVE  Building'
<1> DEFINE f == [frame EXCEPT !.stream_id = id]
<1>1. Call /\ frame' = f /\ raw' = raw /\ asked' = asked
  BY DEF SetStreamId
<1>2. Proper(frame, made, raw, asked) /\ raw \in BOOLEAN /\ asked \in SUBSET Flags
  BY <1>1 DEF Building, Call
<1>3. frame \in SentObject /\ id \in Word
  BY <1>2, FrameObjectsAssumption DEF Proper, Shaped
<1>4. /\ f \in SentObject
      /\ f.class = frame.class /\ f.type = frame.type /\ f.flags = frame.flags
      /\ f.length = frame.length /\ f.data = frame.data /\ f.list = frame.list
      /\ f.settings = frame.settings /\ f.pad_length = frame.pad_length
  BY <1>3 DEF SentObject
<1> HIDE DEF f
<1>5. LengthOf(f) = LengthOf(frame) /\ (Padded(f) <=> Padded(frame))
  BY <1>4, SameLength
<1>6. Proper(f, made, raw, asked)
  BY <1>2, <1>4, <1>5 DEF Proper, Shaped
<1>7. QED
  BY <1>1, <1>2, <1>6, CallKeeps

LEMMA FlagTypes ==
  /\ ACK = 1 /\ END_STREAM = 1 /\ END_HEADERS = 4 /\ PADDED = 8 /\ PRIORITY = 32
  /\ Flags = {1, 4, 8, 32}
BY DEF ACK, END_STREAM, END_HEADERS, PADDED, PRIORITY, Flags

\* What a frame is after some flags were set or cleared.
LEMMA FlagsChanged ==
  ASSUME NEW f, NEW how, NEW wanted, Shaped(f, how, wanted), NEW flags \in SUBSET Flags,
         NEW wanted2, FlagsKept(f.class, flags, wanted2)
  PROVE  /\ Shaped([f EXCEPT !.flags = flags], how, wanted2)
         /\ [f EXCEPT !.flags = flags].class = f.class
         /\ [f EXCEPT !.flags = flags].flags = flags
         /\ [f EXCEPT !.flags = flags].length = f.length
         /\ [f EXCEPT !.flags = flags].data = f.data
         /\ [f EXCEPT !.flags = flags].settings = f.settings
         /\ [f EXCEPT !.flags = flags].pad_length = f.pad_length
BY DEF Shaped, SentObject

\* A flag that has a method of its own is set or cleared: the length is kept up to date.
LEMMA FlaggedProper ==
  ASSUME NEW f, NEW how, NEW unchecked, NEW wanted, Proper(f, how, unchecked, wanted),
         NEW flag \in Flags, NEW flags \in SUBSET Flags,
         flag \notin {PADDED, PRIORITY} =>
           /\ PADDED \in flags <=> PADDED \in f.flags
           /\ PRIORITY \in flags <=> PRIORITY \in f.flags,
         NEW wanted2, FlagsKept(f.class, flags, wanted2)
  PROVE  Proper(Flagged([f EXCEPT !.flags = flags], flag), how, unchecked, wanted2)
<1> DEFINE g == [f EXCEPT !.flags = flags]
<1>1. /\ Shaped(g, how, wanted2) /\ g.class = f.class /\ g.flags = flags /\ g.length = f.length
      /\ g.data = f.data /\ g.settings = f.settings /\ g.pad_length = f.pad_length
  BY FlagsChanged DEF Proper
<1> HIDE DEF g
<1>2. CASE flag \in {PADDED, PRIORITY} \/ g.class = "SETTINGS"
  <2>1. Flagged(g, flag) = Updated(g)
    BY <1>2 DEF Flagged
  <2>2. QED
    BY <1>1, <2>1, UpdatedProper DEF g
<1>3. CASE ~(flag \in {PADDED, PRIORITY} \/ g.class = "SETTINGS")
  <2>1. Flagged(g, flag) = g
    BY <1>3 DEF Flagged
  <2>2. (Padded(g) <=> Padded(f)) /\ (Prioritized(g) <=> Prioritized(f))
    BY <1>1, <1>3 DEF Padded, Prioritized
  <2>3. FixedLength(g) = FixedLength(f)
    BY <1>1, <2>2 DEF FixedLength
  <2>4. LengthOf(g) = LengthOf(f)
    BY <1>1, <1>3, <2>2, <2>3 DEF LengthOf
  <2>5. Proper(g, how, unchecked, wanted2)
    BY <1>1, <2>2, <2>4 DEF Proper
  <2>6. QED
    BY <2>1, <2>5 DEF g
<1>4. QED
  BY <1>2, <1>3

LEMMA SetFlagKeeps ==
  ASSUME Building, NEW flag \in Flags, SetFlag(flag) \/ ClearFlag(flag)
  PROVE  Building'
<1>1. Call /\ raw' = raw
  BY DEF SetFlag, ClearFlag
<1>2. /\ Proper(frame, made, raw, asked) /\ raw \in BOOLEAN /\ asked \in SUBSET Flags
      /\ frame.flags \in SUBSET Flags
      /\ FlagsKept(frame.class, frame.flags, asked)
  BY <1>1 DEF Building, Call, Proper, Shaped, SentObject
<1>3. CASE SetFlag(flag)
  <2> DEFINE flags == frame.flags \union {flag}
  <2>1. /\ frame' = Flagged([frame EXCEPT !.flags = flags], flag)
        /\ asked' = asked \union {flag}
    BY <1>3 DEF SetFlag
  <2>2. /\ flags \in SUBSET Flags /\ asked' \in SUBSET Flags
        /\ FlagsKept(frame.class, flags, asked')
    BY <1>2, <2>1 DEF FlagsKept
  <2>3. flag \notin {PADDED, PRIORITY} =>
           /\ PADDED \in flags <=> PADDED \in frame.flags
           /\ PRIORITY \in flags <=> PRIORITY \in frame.flags
    OBVIOUS
  <2> HIDE DEF flags
  <2>4. Proper(frame', made, raw, asked')
    BY <1>2, <2>1, <2>2, <2>3, FlaggedProper
  <2>5. QED
    BY <1>1, <1>2, <2>2, <2>4, CallKeeps
<1>4. CASE ClearFlag(flag)
  <2> DEFINE cleared == FlagCleared(frame.class, flag)
             flags == frame.flags \ {cleared}
  <2>1. /\ frame' = Flagged([frame EXCEPT !.flags = flags], flag)
        /\ asked' = asked \ {flag}
    BY <1>4 DEF ClearFlag
  <2>2. \/ cleared = flag
        \/ frame.class = "DATA" /\ flag = END_STREAM /\ cleared = END_HEADERS
    BY DEF FlagCleared
  <2>3. flag \notin {PADDED, PRIORITY} => cleared \notin {PADDED, PRIORITY}
    BY FlagTypes DEF FlagCleared
  <2> HIDE DEF cleared
  <2>4. /\ flags \in SUBSET Flags /\ asked' \in SUBSET Flags
        /\ FlagsKept(frame.class, flags, asked')
    <3>1. /\ flags = frame.flags \ {cleared} /\ asked' = asked \ {flag}
          /\ END_STREAM # END_HEADERS
      BY <2>1, FlagTypes
    <3>2. CASE cleared = flag
      BY <1>2, <3>1, <3>2 DEF FlagsKept
    <3>3. CASE frame.class = "DATA" /\ flag = END_STREAM /\ cleared = END_HEADERS
      BY <1>2, <3>1, <3>3 DEF FlagsKept, Muddled
    <3>4. QED
      BY <2>2, <3>2, <3>3
  <2>5. flag \notin {PADDED, PRIORITY} =>
           /\ PADDED \in flags <=> PADDED \in frame.flags
           /\ PRIORITY \in flags <=> PRIORITY \in frame.flags
    BY <2>3
  <2> HIDE DEF flags
  <2>6. Proper(frame', made, raw, asked')
    BY <1>2, <2>1, <2>4, <2>5, FlaggedProper
  <2>7. QED
    BY <1>1, <1>2, <2>4, <2>6, CallKeeps
<1>5. QED
  BY <1>3, <1>4

LEMMA SetFlagsKeeps ==
  ASSUME Building, NEW given \in FlagChoices, SetFlags(given) \/ ClearFlags(given)
  PROVE  Building'
<1>1. Call /\ raw' = TRUE
  BY DEF SetFlags, ClearFlags
<1>2. given \in SUBSET Flags
  BY FrameObjectsAssumption
<1>3. PICK flags : frame' = [frame EXCEPT !.flags = flags]
                   /\ \/ flags = frame.flags \union given /\ asked' = asked \union given
                      \/ flags = frame.flags \ given /\ asked' = asked \ given
  BY DEF SetFlags, ClearFlags
<1>4. /\ Shaped(frame, made, asked) /\ asked \in SUBSET Flags
      /\ frame.flags \in SUBSET Flags
      /\ FlagsKept(frame.class, frame.flags, asked)
  BY <1>1 DEF Building, Call, Proper, Shaped, SentObject
<1>5. /\ flags \in SUBSET Flags /\ asked' \in SUBSET Flags
      /\ FlagsKept(frame.class, flags, asked')
  BY <1>2, <1>3, <1>4 DEF FlagsKept
<1>6. Shaped(frame', made, asked')
  BY <1>3, <1>4, <1>5, FlagsChanged
<1>7. Proper(frame', made, raw', asked')
  BY <1>1, <1>6 DEF Proper
<1>8. QED
  BY <1>1, <1>5, <1>7, CallKeeps

LEMMA RefreshedProper ==
  ASSUME Building, Built, NEW f \in Refreshed(frame)
  PROVE  /\ Proper(f, made, raw, asked)
         /\ f.class = "HEADERS" => f.data \in Encodings[f.list]
         /\ f.class = "RST_STREAM" => f.length = LengthOf(f)
<1>1. Proper(frame, made, raw, asked)
  BY DEF Building
<1>2. CASE frame.class = "HEADERS"
  <2>1. PICK block \in Encodings[frame.list] : f = Updated([frame EXCEPT !.data = block])
    BY <1>2 DEF Refreshed
  <2> DEFINE g == [frame EXCEPT !.data = block]
  <2>2. frame \in SentObject /\ block \in Seq(Octet)
    BY <1>1, ListTypes DEF Proper, Shaped, SentObject
  <2>3. /\ g \in SentObject /\ g.class = frame.class /\ g.type = frame.type
        /\ g.flags = frame.flags /\ g.settings = frame.settings /\ g.list = frame.list
        /\ g.data = block
    BY <2>2 DEF SentObject
  <2> HIDE DEF g
  <2>4. Shaped(g, made, asked)
    BY <1>1, <1>2, <2>3 DEF Proper, Shaped
  <2>5. f.data = block /\ f.list = frame.list /\ f.class = "HEADERS"
    BY <1>2, <2>1, <2>3, SentIsObject, UpdatedFields DEF g
  <2>6. QED
    BY <2>1, <2>4, <2>5, UpdatedProper DEF g
<1>3. CASE frame.class = "RST_STREAM"
  <2>1. f = Updated(frame) /\ frame \in FrameObject
    BY <1>1, <1>3, SentIsObject DEF Refreshed, Proper, Shaped
  <2>2. f.class = "RST_STREAM"
    BY <1>3, <2>1, UpdatedFields
  <2>3. QED
    BY <1>1, <2>1, <2>2, UpdatedProper DEF Proper
<1>4. CASE frame.class \notin {"HEADERS", "RST_STREAM"}
  BY <1>1, <1>4 DEF Refreshed
<1>5. QED
  BY <1>2, <1>3, <1>4

LEMMA SendFrameKeeps ==
  ASSUME Building, SendFrame
  PROVE  Building'
<1>1. PICK f \in Refreshed(frame) : frame' = f
  BY DEF SendFrame
<1>2. Proper(f, made, raw, asked)
  BY RefreshedProper DEF SendFrame
<1>3. UNCHANGED <<made, raw, asked>> /\ calls' = 0 /\ freed' \in BOOLEAN
  BY DEF SendFrame
<1>4. 0 \in 0 .. MaxCalls
  BY CallsBound
<1>5. QED
  BY <1>1, <1>2, <1>3, <1>4 DEF Building

-----------------------------------------------------------------------------
(* Sending and receiving.                                                  *)

WireOf(f) ==
  [header |-> [length |-> Len(EncodePayload(f)), type |-> f.type,
               flags |-> f.flags, stream_id |-> Masked(f.stream_id)],
   payload |-> EncodePayload(f)]

Outcome(f) ==
  LET g == Announced(WireOf(f).header)
      p == EncodePayload(f)
  IN IF Hangs(g, p) THEN {Hung} ELSE DecodePayload(g, p)

\* What is remembered of a frame that was sent.
Whole(o) ==
  /\ o.made \in {"default", "arguments"}
  /\ Proper(o.frame, o.made, o.raw, o.asked)
  /\ o.frame.class = "HEADERS" => o.frame.data \in Encodings[o.frame.list]
  /\ o.frame.class = "RST_STREAM" => o.frame.length = LengthOf(o.frame)

Sent ==
  /\ original # None => Whole(original)
  /\ wire # None => Whole(original) /\ wire = WireOf(original.frame)
  /\ received # None => Whole(original) /\ received \in Outcome(original.frame)

IInv == Building /\ Sent

LEMMA InitIsSound == Init => IInv
<1> SUFFICES ASSUME Init PROVE IInv
  OBVIOUS
<1>1. Sent
  BY DEF Init, Sent
<1>2. 0 \in 0 .. MaxCalls
  BY CallsBound
<1>3. {} \in SUBSET Flags
  OBVIOUS
<1>4. Building
  BY <1>2, <1>3 DEF Init, Building, Built
<1>5. QED
  BY <1>1, <1>4 DEF IInv

LEMMA NothingSent ==
  ASSUME Forgotten
  PROVE  Sent'
BY DEF Sent, Forgotten

LEMMA SendFrameSent ==
  ASSUME Building, SendFrame
  PROVE  Sent'
<1>1. PICK f \in Refreshed(frame) :
        /\ wire' = WireOf(f)
        /\ original' = [frame |-> f, made |-> made, raw |-> raw, asked |-> asked]
  BY DEF SendFrame, WireOf
<1>2. /\ Proper(f, made, raw, asked)
      /\ f.class = "HEADERS" => f.data \in Encodings[f.list]
      /\ f.class = "RST_STREAM" => f.length = LengthOf(f)
      /\ made \in {"default", "arguments"}
  BY RefreshedProper DEF SendFrame, Building
<1>3. /\ original'.frame = f /\ original'.made = made /\ original'.raw = raw
      /\ original'.asked = asked
  BY <1>1
<1>4. Whole(original')
  BY <1>2, <1>3 DEF Whole
<1>5. received' = None
  BY DEF SendFrame
<1>6. QED
  BY <1>1, <1>3, <1>4, <1>5 DEF Sent

LEMMA RecvFrameKeeps ==
  ASSUME IInv, RecvFrame
  PROVE  IInv'
<1>1. Whole(original) /\ wire = WireOf(original.frame) /\ wire # None
  BY DEF IInv, Sent, RecvFrame
<1>2. /\ UNCHANGED <<frame, freed, made, raw, asked, calls, original>> /\ wire' = None
      /\ received' \in IF Hangs(Announced(wire.header), wire.payload) THEN {Hung}
                       ELSE DecodePayload(Announced(wire.header), wire.payload)
  BY DEF RecvFrame
<1>3. wire.payload = EncodePayload(original.frame)
  BY <1>1 DEF WireOf
<1>4. received' \in Outcome(original.frame)
  BY <1>1, <1>2, <1>3 DEF Outcome
<1>5. Sent'
  BY <1>1, <1>2, <1>4 DEF Sent
<1>6. Building'
  BY <1>2 DEF IInv, Building, Built
<1>7. QED
  BY <1>5, <1>6 DEF IInv

LEMMA GoneKeeps ==
  ASSUME Delete \/ UseFreed
  PROVE  IInv'
<1>1. Gone /\ ~Built'
  BY DEF Delete, UseFreed, Built
<1>2. Forgotten
  BY <1>1 DEF Gone, Forgotten
<1>3. 0 \in 0 .. MaxCalls
  BY CallsBound
<1>4. Building'
  BY <1>1, <1>3 DEF Gone, Building
<1>5. QED
  BY <1>2, <1>4, NothingSent DEF IInv

LEMMA NextIsSound == IInv /\ [Next]_vars => IInv'
<1> SUFFICES ASSUME IInv, [Next]_vars PROVE IInv'
  OBVIOUS
<1>0. Building /\ Sent
  BY DEF IInv
<1>1. ASSUME NEW class \in Classes, New(class) PROVE IInv'
  <2>1. Sent'
    BY <1>1, NothingSent DEF New, Construct, Forgotten
  <2>2. QED
    BY <1>1, <2>1, NewProper DEF IInv
<1>2. ASSUME NEW class \in Classes, NewWithArguments(class) PROVE IInv'
  BY <1>2, NothingSent, NewWithArgumentsProper DEF IInv
<1>3. ASSUME Call, Building' PROVE IInv'
  BY <1>3, NothingSent DEF Call, IInv, Forgotten
<1>4. ASSUME NEW member \in {"pad_length", "bit", "word", "code", "weight", "data", "list", "settings"},
             NEW value \in ValuesOf(member), SetMember(member, value)
      PROVE  IInv'
  BY <1>0, <1>3, <1>4, SetMemberKeeps DEF SetMember
<1>5. ASSUME NEW id \in Words, SetStreamId(id) PROVE IInv'
  BY <1>0, <1>3, <1>5, SetStreamIdKeeps DEF SetStreamId
<1>6. ASSUME NEW flag \in Flags, SetFlag(flag) \/ ClearFlag(flag) PROVE IInv'
  BY <1>0, <1>3, <1>6, SetFlagKeeps DEF SetFlag, ClearFlag
<1>7. ASSUME NEW flags \in FlagChoices, SetFlags(flags) \/ ClearFlags(flags) PROVE IInv'
  BY <1>0, <1>3, <1>7, SetFlagsKeeps DEF SetFlags, ClearFlags
<1>8. ASSUME SendFrame PROVE IInv'
  BY <1>0, <1>8, SendFrameKeeps, SendFrameSent DEF IInv
<1>9. ASSUME RecvFrame PROVE IInv'
  BY <1>9, RecvFrameKeeps
<1>10. ASSUME UNCHANGED vars PROVE IInv'
  BY <1>0, <1>10 DEF vars, IInv, Building, Built, Sent
<1>11. ASSUME Delete \/ UseFreed PROVE IInv'
  BY <1>11, GoneKeeps
<1>12. QED
  BY <1>1, <1>2, <1>4, <1>5, <1>6, <1>7, <1>8, <1>9, <1>10, <1>11 DEF Next

LEMMA Invariance == Spec => []IInv
<1>1. QED
  BY InitIsSound, NextIsSound, PTL DEF Spec

-----------------------------------------------------------------------------
(* What a frame is on the stream.                                          *)

LEMMA MarkedIs ==
  ASSUME NEW w \in Word, NEW bit \in BOOLEAN
  PROVE  /\ Marked(w, bit) \in Word /\ Masked(w) \in Word
         /\ Marked(w, FALSE) = Masked(w)
         /\ Masked(w)[1] = w[1] % 128 /\ \A k \in 2 .. 4 : Masked(w)[k] = w[k]
<1>1. \A k \in 1 .. 4 : w[k] \in 0 .. 255
  BY DEF Word, Octet
<1>2. \A n \in 0 .. 255 : n % 128 \in 0 .. 127 /\ (n < 128 => n + 128 \in 0 .. 255)
  OBVIOUS
<1> DEFINE a == w[1] % 128
           b == IF bit /\ w[4] < 128 THEN w[4] + 128 ELSE w[4]
<1>3. Marked(w, bit) \in Word
  <2>1. a \in Octet /\ b \in Octet
    BY <1>1, <1>2 DEF Octet
  <2>2. Marked(w, bit) = [w EXCEPT ![1] = a, ![4] = b]
    BY DEF Marked, Word
  <2> HIDE DEF a, b
  <2>3. QED
    BY <2>1, <2>2 DEF Word
<1>4. Masked(w) \in Word /\ Masked(w)[1] = w[1] % 128 /\ \A k \in 2 .. 4 : Masked(w)[k] = w[k]
  BY <1>1, <1>2 DEF Masked, Word, Octet
<1>5. Marked(w, FALSE) = Masked(w)
  <2>1. Marked(w, FALSE) = [w EXCEPT ![1] = w[1] % 128, ![4] = w[4]]
    BY DEF Marked, Word
  <2>2. [w EXCEPT ![1] = w[1] % 128, ![4] = w[4]] = [w EXCEPT ![1] = w[1] % 128]
    <3>1. w = [k \in 1 .. 4 |-> w[k]] /\ DOMAIN w = 1 .. 4
      BY DEF Word
    <3>2. [w EXCEPT ![1] = w[1] % 128, ![4] = w[4]] =
            [k \in 1 .. 4 |-> IF k = 1 THEN w[1] % 128 ELSE w[k]]
      BY <3>1
    <3>3. [w EXCEPT ![1] = w[1] % 128] = [k \in 1 .. 4 |-> IF k = 1 THEN w[1] % 128 ELSE w[k]]
      BY <3>1
    <3>4. QED
      BY <3>2, <3>3
  <2>3. Masked(w) = [w EXCEPT ![1] = w[1] % 128]
    BY DEF Masked, Word
  <2>4. QED
    BY <2>1, <2>2, <2>3
<1>6. QED
  BY <1>3, <1>4, <1>5

LEMMA Appended ==
  ASSUME NEW S, NEW s \in Seq(S), NEW e \in S
  PROVE  /\ Append(s, e) \in Seq(S) /\ Len(Append(s, e)) = Len(s) + 1
         /\ \A i \in 1 .. Len(s) : Append(s, e)[i] = s[i]
         /\ Append(s, e)[Len(s) + 1] = e
OBVIOUS

LEMMA AppendedToFour ==
  ASSUME NEW S, NEW s \in Seq(S), Len(s) = 4, NEW e \in S
  PROVE  Append(s, e) \in Seq(S) /\ Len(Append(s, e)) = 5
<1>1. Len(Append(s, e)) = 4 + 1
  BY Appended
<1>2. QED
  BY <1>1, Appended

LEMMA JoinedFours ==
  ASSUME NEW S, NEW u \in Seq(S), NEW v \in Seq(S), Len(u) = 4, Len(v) = 4
  PROVE  u \o v \in Seq(S) /\ Len(u \o v) = 8
<1>1. u \o v \in Seq(S) /\ Len(u \o v) = Len(u) + Len(v)
  BY Joined, ZenonT(30)
<1>2. Len(u \o v) = 4 + 4
  BY <1>1, ZenonT(30)
<1>3. QED
  BY <1>1, <1>2

LEMMA WordIsSeq ==
  ASSUME NEW w \in Word
  PROVE  w \in Seq(Octet) /\ Len(w) = 4
BY 4 \in Nat, SeqOfFunction DEF Word

LEMMA FixedPartIs ==
  ASSUME NEW f \in SentObject
  PROVE  FixedPart(f) \in Seq(Octet) /\ Len(FixedPart(f)) = FixedLength(f)
<1> DEFINE m == Marked(f.word, f.bit)
<1>1. /\ f.word \in Word /\ f.code \in Word /\ f.bit \in BOOLEAN /\ f.weight \in Octet
  BY DEF SentObject
<1>2. m \in Seq(Octet) /\ Len(m) = 4
  BY <1>1, MarkedIs, WordIsSeq
<1>3. f.word \in Seq(Octet) /\ Len(f.word) = 4 /\ f.code \in Seq(Octet) /\ Len(f.code) = 4
  BY <1>1, WordIsSeq
<1> HIDE DEF m
<1>4. CASE Prioritized(f)
  <2>1. FixedPart(f) = Append(m, f.weight) /\ FixedLength(f) = 5
    BY <1>4 DEF FixedPart, FixedLength, Prioritized, m
  <2>2. Append(m, f.weight) \in Seq(Octet) /\ Len(Append(m, f.weight)) = 5
    BY <1>1, <1>2, AppendedToFour, Zenon
  <2>3. QED
    BY <2>1, <2>2
<1>5. CASE f.class \in {"PUSH_PROMISE", "WINDOW_UPDATE"}
  <2>1. FixedPart(f) = m /\ FixedLength(f) = 4
    BY <1>5 DEF FixedPart, FixedLength, Prioritized, m
  <2>2. QED
    BY <1>2, <2>1
<1>6. CASE f.class = "GOAWAY"
  <2>1. FixedPart(f) = m \o f.code /\ FixedLength(f) = 8
    BY <1>6 DEF FixedPart, FixedLength, Prioritized, m
  <2>2. QED
    <3>1. m \o f.code \in Seq(Octet) /\ Len(m \o f.code) = 8
      BY <1>2, <1>3, JoinedFours, ZenonT(30)
    <3>2. QED
      BY <1>2, <1>3, <2>1, <3>1
<1>7. CASE f.class = "PING"
  <2>1. FixedPart(f) = f.word \o f.code /\ FixedLength(f) = 8
    BY <1>7 DEF FixedPart, FixedLength, Prioritized
  <2>2. QED
    <3>1. f.word \o f.code \in Seq(Octet) /\ Len(f.word \o f.code) = 8
      BY <1>3, JoinedFours, ZenonT(30)
    <3>2. QED
      BY <1>3, <2>1, <3>1
<1>8. CASE f.class = "RST_STREAM"
  <2>1. FixedPart(f) = f.code /\ FixedLength(f) = 4
    BY <1>8 DEF FixedPart, FixedLength, Prioritized
  <2>2. QED
    BY <1>3, <2>1
<1>9. CASE ~Prioritized(f) /\ f.class \notin {"PUSH_PROMISE", "WINDOW_UPDATE", "GOAWAY", "PING", "RST_STREAM"}
  <2>1. FixedPart(f) = <<>> /\ FixedLength(f) = 0
    BY <1>9 DEF FixedPart, FixedLength
  <2>2. QED
    BY <2>1
<1>10. QED
  BY <1>4, <1>5, <1>6, <1>7, <1>8, <1>9

\* A payload but that of SETTINGS is the pad length, the fixed part and the data.
LEMMA EncodedIs ==
  ASSUME NEW f \in SentObject, f.class # "SETTINGS"
  PROVE  LET p == EncodePayload(f)
             at == PadAt(f)
             n == FixedLength(f)
         IN /\ p \in Seq(Octet) /\ Len(p) = at + n + Len(f.data)
            /\ at \in Nat /\ n \in Nat /\ Len(f.data) \in Nat
            /\ Padded(f) => p[1] = f.pad_length
            /\ \A i \in 1 .. n : p[at + i] = FixedPart(f)[i]
            /\ \A i \in 1 .. Len(f.data) : p[at + n + i] = f.data[i]
<1> DEFINE p == EncodePayload(f)
           at == PadAt(f)
           n == FixedLength(f)
           pad == IF Padded(f) THEN <<f.pad_length>> ELSE <<>>
           x == FixedPart(f)
           d == f.data
<1>1. x \in Seq(Octet) /\ Len(x) = n
  BY FixedPartIs
<1>2. d \in Seq(Octet) /\ f.pad_length \in Octet
  BY DEF SentObject
<1>3. pad \in Seq(Octet) /\ Len(pad) = at /\ (Padded(f) => pad[1] = f.pad_length) /\ at \in Nat
      /\ (Padded(f) => at = 1)
  BY <1>2 DEF PadAt
<1>4. p = pad \o x \o d
  BY DEF EncodePayload
<1> HIDE DEF p, at, n, pad, x, d
<1>5. /\ pad \o x \in Seq(Octet) /\ Len(pad \o x) = at + n
      /\ \A i \in 1 .. at : (pad \o x)[i] = pad[i]
      /\ \A i \in 1 .. n : (pad \o x)[at + i] = x[i]
  <2>1. pad \in Seq(Octet) /\ x \in Seq(Octet) /\ Len(pad) = at /\ Len(x) = n
    BY <1>1, <1>3
  <2>2. /\ pad \o x \in Seq(Octet) /\ Len(pad \o x) = Len(pad) + Len(x)
        /\ \A i \in 1 .. Len(pad) : (pad \o x)[i] = pad[i]
        /\ \A i \in 1 .. Len(x) : (pad \o x)[Len(pad) + i] = x[i]
    BY ONLY <2>1, SMTT(20)
  <2>3. QED
    BY <2>1, <2>2
<1>6. /\ p \in Seq(Octet) /\ Len(p) = at + n + Len(d)
      /\ \A i \in 1 .. (at + n) : p[i] = (pad \o x)[i]
      /\ \A i \in 1 .. Len(d) : p[at + n + i] = d[i]
  BY <1>2, <1>4, <1>5, Joined
<1>7. n \in Nat /\ Len(d) \in Nat
  BY <1>1, <1>2
<1>8. \A i \in 1 .. n : p[at + i] = x[i]
  <2>1. \A i \in 1 .. n : at + i \in 1 .. (at + n)
    BY <1>3, <1>7
  <2>2. QED
    BY <1>5, <1>6, <2>1
<1>9. Padded(f) => p[1] = f.pad_length
  <2>1. Padded(f) => 1 \in 1 .. at /\ 1 \in 1 .. (at + n)
    BY <1>3, <1>7
  <2>2. QED
    BY <1>3, <1>5, <1>6, <2>1
<1>10. QED
  BY <1>3, <1>6, <1>7, <1>8, <1>9 DEF p, at, n, x, d

LEMMA JoinedType ==
  ASSUME NEW S, NEW u \in Seq(S), NEW v \in Seq(S)
  PROVE  u \o v \in Seq(S)
OBVIOUS

LEMMA SettingOctetsAre ==
  ASSUME NEW s \in Settings, NEW id \in SettingIds
  PROVE  /\ SettingOctets(s, id) \in Seq(Octet)
         /\ id \notin Listed(s) => SettingOctets(s, id) = <<>>
         /\ id \in Listed(s) =>
              /\ Len(SettingOctets(s, id)) = 6
              /\ SettingOctets(s, id)[1] = 0 /\ SettingOctets(s, id)[2] = id
              /\ \A k \in 1 .. 4 : SettingOctets(s, id)[2 + k] = s[id][k]
<1> DEFINE h == <<0, id>>
           w == s[id]
<1>1. w \in Seq(Octet) /\ Len(w) = 4
  BY WordIsSeq DEF Settings
<1>2. h \in Seq(Octet) /\ Len(h) = 2 /\ h[1] = 0 /\ h[2] = id
  BY DEF SettingIds, Octet
<1>3. SettingOctets(s, id) = IF id \in Listed(s) THEN h \o w ELSE <<>>
  BY DEF SettingOctets
<1> HIDE DEF h, w
<1>4. /\ h \o w \in Seq(Octet) /\ Len(h \o w) = Len(h) + Len(w)
      /\ \A i \in 1 .. Len(h) : (h \o w)[i] = h[i]
      /\ \A i \in 1 .. Len(w) : (h \o w)[Len(h) + i] = w[i]
  <2>1. h \in Seq(Octet) /\ w \in Seq(Octet)
    BY <1>1, <1>2
  <2>2. QED
    BY ONLY <2>1
<1>5. /\ Len(h \o w) = 6 /\ (h \o w)[1] = 0 /\ (h \o w)[2] = id
      /\ \A k \in 1 .. 4 : (h \o w)[2 + k] = w[k]
  BY <1>1, <1>2, <1>4
<1>6. <<>> \in Seq(Octet)
  OBVIOUS
<1>7. CASE id \in Listed(s)
  BY <1>3, <1>4, <1>5, <1>7 DEF w
<1>8. CASE id \notin Listed(s)
  BY <1>3, <1>6, <1>8
<1>9. QED
  BY <1>7, <1>8

LEMMA SettingsOctetsType ==
  ASSUME NEW s \in Settings
  PROVE  SettingsOctets(s) \in Seq(Octet)
<1>1. \A id \in 1 .. 6 : SettingOctets(s, id) \in Seq(Octet)
  BY SettingOctetsAre DEF SettingIds
<1>2. /\ SettingOctets(s, 1) \in Seq(Octet) /\ SettingOctets(s, 2) \in Seq(Octet)
      /\ SettingOctets(s, 3) \in Seq(Octet) /\ SettingOctets(s, 4) \in Seq(Octet)
      /\ SettingOctets(s, 5) \in Seq(Octet) /\ SettingOctets(s, 6) \in Seq(Octet)
  BY <1>1
<1>3. QED
  BY <1>2, JoinedType, Zenon DEF SettingsOctets

LEMMA EncodedType ==
  ASSUME NEW f \in SentObject
  PROVE  EncodePayload(f) \in Seq(Octet) /\ Len(EncodePayload(f)) \in Nat
<1>1. f.class # "SETTINGS" => EncodePayload(f) \in Seq(Octet)
  BY EncodedIs
<1>2. f.class = "SETTINGS" => EncodePayload(f) \in Seq(Octet)
  <2>1. f.settings \in Settings /\ <<>> \in Seq(Octet)
    BY DEF SentObject
  <2>2. QED
    BY <2>1, SettingsOctetsType DEF EncodePayload
<1>3. QED
  BY <1>1, <1>2

\* The object that RecvFrame makes has the class of the frame that was sent, if its
\* type is right.
LEMMA AnnouncedIs ==
  ASSUME NEW f, NEW how \in {"default", "arguments"}, NEW wanted, Shaped(f, how, wanted)
  PROVE  LET g == Announced(WireOf(f).header) IN
         /\ g \in FrameObject
         /\ g.class = IF how = "default" THEN f.class ELSE "SETTINGS"
         /\ g.length = Len(EncodePayload(f)) /\ g.flags = f.flags
         /\ g.stream_id = Widened(Masked(f.stream_id))
         /\ g.data = <<>> /\ g.list = <<>> /\ g.settings = Defaults
<1> DEFINE h == WireOf(f).header
           c == CHOOSE class \in Classes : TypeOf[class] = h.type
           d == Default(c, Zero, Zero)
           g == [d EXCEPT !.length = h.length, !.flags = h.flags,
                          !.stream_id = Widened(h.stream_id)]
<1>1. /\ h.length = Len(EncodePayload(f)) /\ h.type = f.type /\ h.flags = f.flags
      /\ h.stream_id = Masked(f.stream_id)
  BY DEF WireOf
<1>2. /\ f \in SentObject /\ f.class \in Classes /\ f.flags \in SUBSET Flags
      /\ f.stream_id \in Word
      /\ f.type = IF how = "default" THEN TypeOf[f.class] ELSE TypeOf["SETTINGS"]
  BY DEF Shaped, SentObject
<1>3. Announced(h) = g
  BY DEF Announced
<1> DEFINE e == IF how = "default" THEN f.class ELSE "SETTINGS"
<1>4. e \in Classes /\ TypeOf[e] = h.type
  BY <1>1, <1>2, ClassSet
<1> HIDE DEF h, e
<1>5. c \in Classes /\ TypeOf[c] = h.type
  BY <1>4
<1>6. c = e
  BY <1>4, <1>5, TypeTells
<1> HIDE DEF c
<1>7. IsDefault(d, c, Zero, Zero)
  BY <1>5, WordsAre, DefaultIsSent
<1>8. d \in FrameObject /\ d.class = c /\ d.data = <<>> /\ d.list = <<>> /\ d.settings = Defaults
  BY <1>7, SentIsObject DEF IsDefault
<1>9. /\ h.length \in Nat /\ h.flags \in SUBSET Flags /\ Widened(h.stream_id) \in Word
  <2>1. Masked(f.stream_id) \in Word
    BY <1>2, MarkedIs
  <2>2. QED
    BY <1>1, <1>2, <2>1, EncodedType, WidenedType
<1> HIDE DEF d
<1>10. /\ g \in FrameObject /\ g.class = c /\ g.length = h.length /\ g.flags = h.flags
       /\ g.stream_id = Widened(h.stream_id)
       /\ g.data = <<>> /\ g.list = <<>> /\ g.settings = Defaults
  BY <1>8, <1>9 DEF FrameObject
<1> HIDE DEF g
<1>11. QED
  BY <1>1, <1>3, <1>6, <1>10 DEF h, e

-----------------------------------------------------------------------------
(* What the peer makes of it.                                              *)

LEMMA OctetsOf ==
  ASSUME NEW p \in Seq(Octet), NEW i \in 1 .. Len(p)
  PROVE  p[i] \in Octet /\ p[i] \in 0 .. 255
<1>1. p[i] \in Octet
  OBVIOUS
<1>2. QED
  BY <1>1 DEF Octet

LEMMA WordAtIs ==
  ASSUME NEW p \in Seq(Octet), NEW at \in Nat, at + 4 <= Len(p)
  PROVE  /\ WordAt(p, at) \in Word /\ MaskedWordAt(p, at) \in Word
         /\ \A w \in Word : (\A k \in 1 .. 4 : p[at + k] = w[k]) =>
              WordAt(p, at) = Widened(w) /\ MaskedWordAt(p, at) = Widened(Masked(w))
<1> DEFINE u == [k \in 1 .. 4 |-> p[at + k]]
           v == [k \in 1 .. 4 |-> IF k = 1 THEN p[at + 1] % 128 ELSE p[at + k]]
<1>1. \A k \in 1 .. 4 : at + k \in 1 .. Len(p)
  OBVIOUS
<1>2. \A k \in 1 .. 4 : p[at + k] \in Octet
  BY <1>1, OctetsOf
<1>3. p[at + 1] % 128 \in Octet
  <2>1. p[at + 1] \in Octet
    BY <1>2
  <2>2. \A n \in 0 .. 255 : n % 128 \in 0 .. 255
    OBVIOUS
  <2>3. QED
    BY <2>1, <2>2, Zenon DEF Octet
<1>4. u \in Word /\ v \in Word
  BY <1>2, <1>3 DEF Word
<1>5. WordAt(p, at) = Widened(u) /\ MaskedWordAt(p, at) = Widened(v)
  BY DEF WordAt, MaskedWordAt
<1>6. ASSUME NEW w \in Word, \A k \in 1 .. 4 : p[at + k] = w[k]
      PROVE  u = w /\ v = Masked(w)
  <2>1. w = [k \in 1 .. 4 |-> w[k]]
    BY DEF Word
  <2>2. u = w
    BY <1>6, <2>1
  <2>3. Masked(w) \in Word /\ Masked(w)[1] = w[1] % 128 /\ \A k \in 2 .. 4 : Masked(w)[k] = w[k]
    BY MarkedIs
  <2>4. Masked(w) = [k \in 1 .. 4 |-> Masked(w)[k]]
    BY <2>3 DEF Word
  <2>5. \A k \in 1 .. 4 : v[k] = Masked(w)[k]
    BY <1>6, <2>3
  <2>6. v = [k \in 1 .. 4 |-> v[k]]
    OBVIOUS
  <2> HIDE DEF v
  <2>7. v = Masked(w)
    BY <2>4, <2>5, <2>6
  <2>8. QED
    BY <2>2, <2>7
<1> HIDE DEF u, v
<1>7. QED
  BY <1>4, <1>5, <1>6, WidenedType

\* Nothing but the four members of the fixed part changes.
SameButFixed(d, g) ==
  /\ d \in FrameObject
  /\ d.class = g.class /\ d.type = g.type /\ d.length = g.length /\ d.flags = g.flags
  /\ d.stream_id = g.stream_id /\ d.pad_length = g.pad_length /\ d.data = g.data
  /\ d.list = g.list /\ d.settings = g.settings

LEMMA DecodeFixedIs ==
  ASSUME NEW g \in FrameObject, NEW p \in Seq(Octet),
         Len(p) >= PadAt(g) + FixedLength(g)
  PROVE  LET d == DecodeFixed(g, p)
             at == PadAt(g)
         IN /\ SameButFixed(d, g)
            /\ Prioritized(g) => d.word = MaskedWordAt(p, at) /\ d.weight = p[at + 5]
            /\ g.class \in {"PUSH_PROMISE", "WINDOW_UPDATE", "GOAWAY"} =>
                 d.word = MaskedWordAt(p, at)
            /\ g.class = "GOAWAY" => d.code = MaskedWordAt(p, at + 4)
            /\ g.class = "PING" => d.word = WordAt(p, at) /\ d.code = WordAt(p, at + 4)
            /\ g.class = "RST_STREAM" => d.code = WordAt(p, at)
<1> DEFINE at == PadAt(g)
           masked == [g EXCEPT !.bit = p[at + 1] >= 128, !.word = MaskedWordAt(p, at)]
<1> USE DEF SameButFixed
<1>0. at \in Nat
  BY DEF PadAt
<1>1. (p[at + 1] >= 128) \in BOOLEAN
  OBVIOUS
<1>2. at + 4 <= Len(p) => /\ SameButFixed(masked, g) /\ masked.word = MaskedWordAt(p, at)
                          /\ WordAt(p, at) \in Word
  <2>1. at + 4 <= Len(p) => MaskedWordAt(p, at) \in Word /\ WordAt(p, at) \in Word
    BY <1>0, WordAtIs
  <2> DEFINE b == p[at + 1] >= 128
             w == MaskedWordAt(p, at)
  <2>2. b \in BOOLEAN
    OBVIOUS
  <2> HIDE DEF b, w
  <2>3. w \in Word => SameButFixed([g EXCEPT !.bit = b, !.word = w], g)
    BY <2>2 DEF FrameObject
  <2>4. QED
    BY <2>1, <2>3 DEF b, w, FrameObject
<1> HIDE DEF masked
<1>3. CASE Prioritized(g)
  <2>1. FixedLength(g) = 5
    BY <1>3 DEF FixedLength
  <2>2. p[at + 5] \in Octet
    BY <1>0, <2>1, OctetsOf
  <2>3. DecodeFixed(g, p) = [masked EXCEPT !.weight = p[at + 5]]
    BY <1>3 DEF DecodeFixed, Prioritized, masked
  <2>4. SameButFixed(masked, g) /\ masked.word = MaskedWordAt(p, at)
    BY <1>0, <1>2, <2>1
  <2>5. /\ SameButFixed([masked EXCEPT !.weight = p[at + 5]], g)
        /\ [masked EXCEPT !.weight = p[at + 5]].word = masked.word
        /\ [masked EXCEPT !.weight = p[at + 5]].weight = p[at + 5]
    BY <2>2, <2>4 DEF FrameObject
  <2>6. g.class \in {"PRIORITY", "HEADERS"}
    BY <1>3 DEF Prioritized
  <2>7. QED
    BY <2>3, <2>4, <2>5, <2>6
<1>4. CASE g.class \in {"PUSH_PROMISE", "WINDOW_UPDATE"}
  <2>1. FixedLength(g) = 4 /\ ~Prioritized(g)
    BY <1>4 DEF FixedLength, Prioritized
  <2>2. DecodeFixed(g, p) = masked
    BY <1>4, <2>1 DEF DecodeFixed, masked
  <2>3. QED
    BY <1>0, <1>2, <1>4, <2>1, <2>2
<1>5. CASE g.class = "GOAWAY"
  <2>1. FixedLength(g) = 8 /\ ~Prioritized(g)
    BY <1>5 DEF FixedLength, Prioritized
  <2> DEFINE c == MaskedWordAt(p, at + 4)
  <2>2. c \in Word
    BY <1>0, <2>1, WordAtIs
  <2>3. DecodeFixed(g, p) = [masked EXCEPT !.code = c]
    BY <1>5, <2>1 DEF DecodeFixed, masked
  <2> HIDE DEF c
  <2>4. SameButFixed(masked, g) /\ masked.word = MaskedWordAt(p, at)
    BY <1>0, <1>2, <2>1
  <2>5. /\ SameButFixed([masked EXCEPT !.code = c], g)
        /\ [masked EXCEPT !.code = c].word = masked.word /\ [masked EXCEPT !.code = c].code = c
    BY <2>2, <2>4 DEF FrameObject
  <2>6. QED
    BY <1>5, <2>1, <2>3, <2>4, <2>5 DEF c
<1>6. CASE g.class = "PING"
  <2>1. FixedLength(g) = 8 /\ ~Prioritized(g)
    BY <1>6 DEF FixedLength, Prioritized
  <2> DEFINE w == WordAt(p, at)
             c == WordAt(p, at + 4)
  <2>2. w \in Word /\ c \in Word
    BY <1>0, <2>1, WordAtIs
  <2>3. DecodeFixed(g, p) = [g EXCEPT !.word = w, !.code = c]
    BY <1>6, <2>1 DEF DecodeFixed
  <2> HIDE DEF w, c
  <2>4. /\ SameButFixed([g EXCEPT !.word = w, !.code = c], g)
        /\ [g EXCEPT !.word = w, !.code = c].word = w /\ [g EXCEPT !.word = w, !.code = c].code = c
    BY <2>2 DEF FrameObject
  <2>5. QED
    BY <1>6, <2>1, <2>3, <2>4 DEF w, c
<1>7. CASE g.class = "RST_STREAM"
  <2>1. FixedLength(g) = 4 /\ ~Prioritized(g)
    BY <1>7 DEF FixedLength, Prioritized
  <2> DEFINE c == WordAt(p, at)
  <2>2. c \in Word
    BY <1>0, <1>2, <2>1
  <2>3. DecodeFixed(g, p) = [g EXCEPT !.code = c]
    BY <1>7, <2>1 DEF DecodeFixed
  <2> HIDE DEF c
  <2>4. SameButFixed([g EXCEPT !.code = c], g) /\ [g EXCEPT !.code = c].code = c
    BY <2>2 DEF FrameObject
  <2>5. QED
    BY <1>7, <2>1, <2>3, <2>4 DEF c
<1>8. CASE ~Prioritized(g) /\ g.class \notin {"PUSH_PROMISE", "WINDOW_UPDATE", "GOAWAY", "PING",
                                              "RST_STREAM"}
  <2>1. DecodeFixed(g, p) = g
    BY <1>8 DEF DecodeFixed
  <2>2. QED
    BY <1>8, <2>1
<1>9. QED
  BY <1>3, <1>4, <1>5, <1>6, <1>7, <1>8

LEMMA SliceIs ==
  ASSUME NEW p \in Seq(Octet), NEW at \in Nat, NEW n \in Nat
  PROVE  /\ Slice(p, at, n) \in Seq(Octet \union {Stray}) /\ Len(Slice(p, at, n)) = n
         /\ at + n <= Len(p) => /\ Slice(p, at, n) \in Seq(Octet)
                                /\ \A k \in 1 .. n : Slice(p, at, n)[k] = p[at + k]
<1> DEFINE s == Slice(p, at, n)
<1>1. s = [k \in 1 .. n |-> IF at + k <= Len(p) THEN p[at + k] ELSE Stray]
  BY DEF Slice
<1>2. \A k \in 1 .. n : at + k <= Len(p) => p[at + k] \in Octet
  OBVIOUS
<1>3. s \in [1 .. n -> Octet \union {Stray}]
  BY <1>1, <1>2
<1>4. s \in Seq(Octet \union {Stray}) /\ Len(s) = n
  BY <1>3, SeqOfFunction
<1>5. ASSUME at + n <= Len(p)
      PROVE  s \in Seq(Octet) /\ \A k \in 1 .. n : s[k] = p[at + k]
  <2>1. \A k \in 1 .. n : at + k <= Len(p)
    BY <1>5
  <2>2. \A k \in 1 .. n : s[k] = p[at + k] /\ p[at + k] \in Octet
    BY <1>1, <1>2, <2>1
  <2>3. s \in [1 .. n -> Octet]
    BY <1>1, <2>2
  <2>4. QED
    BY <2>2, <2>3, SeqOfFunction
<1>6. QED
  BY <1>4, <1>5

\* How much is taken for data.
Unpadded(f) == Len(f.data) - IF Padded(f) THEN f.pad_length ELSE 0

LEMMA DataLengthIs ==
  ASSUME NEW f \in SentObject, f.class # "SETTINGS",
         NEW g, g.class = f.class, g.flags = f.flags
  PROVE  LET p == EncodePayload(f) IN
         /\ PadAt(g) = PadAt(f) /\ FixedLength(g) = FixedLength(f)
         /\ (Padded(g) <=> Padded(f)) /\ (Prioritized(g) <=> Prioritized(f))
         /\ PadRead(g, p) = IF Padded(f) THEN f.pad_length ELSE 0
         /\ PadRead(g, p) \in Octet /\ PadRead(g, p) \in Nat
         /\ DataLength(g, p) = Unpadded(f) + IF f.class = "PUSH_PROMISE" THEN 4 ELSE 0
         /\ DataLength(g, p) \in Int
<1> DEFINE p == EncodePayload(f)
           r == PadRead(g, p)
<1>1. (Padded(g) <=> Padded(f)) /\ (Prioritized(g) <=> Prioritized(f))
  BY DEF Padded, Prioritized
<1>2. FixedLength(g) = FixedLength(f) /\ PadAt(g) = PadAt(f)
  BY <1>1 DEF FixedLength, PadAt
<1>3. /\ Len(p) = PadAt(f) + FixedLength(f) + Len(f.data)
      /\ PadAt(f) \in Nat /\ FixedLength(f) \in Nat /\ Len(f.data) \in Nat
      /\ Padded(f) => p[1] = f.pad_length
  BY EncodedIs
<1>4. f.pad_length \in Octet /\ 0 \in Octet /\ \A n \in Octet : n \in Nat
  BY DEF SentObject, Octet
<1>5. r = (IF Padded(f) THEN f.pad_length ELSE 0) /\ r \in Octet /\ r \in Nat
  BY <1>1, <1>3, <1>4 DEF PadRead
<1>6. f.class = "PUSH_PROMISE" => FixedLength(f) = 4
  BY DEF FixedLength, Prioritized
<1>7. DataLength(g, p) = Len(p) - r - PadAt(f) - IF f.class = "PUSH_PROMISE" THEN 0 ELSE FixedLength(f)
  BY <1>2 DEF DataLength
<1> HIDE DEF p, r
<1>8. DataLength(g, p) = Unpadded(f) + IF f.class = "PUSH_PROMISE" THEN 4 ELSE 0
  <2> DEFINE n == Len(f.data)
             at == PadAt(f)
             x == FixedLength(f)
             push == f.class = "PUSH_PROMISE"
  <2>1. Unpadded(f) = n - r
    BY <1>5 DEF Unpadded
  <2>2. /\ DataLength(g, p) = Len(p) - r - at - IF push THEN 0 ELSE x
        /\ Len(p) = at + x + n
        /\ push => x = 4
    BY <1>3, <1>6, <1>7
  <2>3. at \in Nat /\ x \in Nat /\ n \in Nat /\ r \in Nat
    BY <1>3, <1>5
  <2> HIDE DEF n, at, x, push
  <2>4. DataLength(g, p) = n - r + IF push THEN 4 ELSE 0
    BY ONLY <2>2, <2>3
  <2>5. QED
    BY <2>1, <2>4 DEF push
<1>9. DataLength(g, p) \in Int
  BY <1>3, <1>5, <1>7
<1>10. QED
  BY <1>1, <1>2, <1>5, <1>8, <1>9 DEF p, r

\* Nothing but the data and the pad length changes.
LEMMA DecodeDataIs ==
  ASSUME NEW g \in FrameObject, NEW p \in Seq(Octet), PadRead(g, p) \in Octet,
         DataLength(g, p) \in Nat
  PROVE  LET d == DecodeData(g, p) IN
         /\ d \in FrameObject
         /\ d.class = g.class /\ d.type = g.type /\ d.length = g.length /\ d.flags = g.flags
         /\ d.stream_id = g.stream_id /\ d.word = g.word /\ d.code = g.code
         /\ d.weight = g.weight /\ d.list = g.list /\ d.settings = g.settings
         /\ d.pad_length = PadRead(g, p)
         /\ d.data = Slice(p, PadAt(g) + FixedLength(g), DataLength(g, p))
<1> DEFINE r == PadRead(g, p)
           s == Slice(p, PadAt(g) + FixedLength(g), DataLength(g, p))
<1>1. PadAt(g) + FixedLength(g) \in Nat
  BY LengthIsNatural DEF PadAt
<1>2. s \in Seq(Octet \union {Stray})
  BY <1>1, SliceIs
<1>3. DecodeData(g, p) = [g EXCEPT !.pad_length = r, !.data = s]
  BY DEF DecodeData
<1>4. r \in Octet
  OBVIOUS
<1> HIDE DEF r, s
<1>5. [g EXCEPT !.pad_length = r, !.data = s] \in FrameObject
  BY <1>2, <1>4 DEF FrameObject
<1>6. QED
  BY <1>3, <1>5 DEF r, s, FrameObject

\* Decoding a header block changes the list and the length only; only a block with a
\* string outside it is read beyond its end, or not at all.
ListDecoded(g, d) ==
  /\ d \in FrameObject
  /\ d.class = g.class /\ d.flags = g.flags /\ d.stream_id = g.stream_id
  /\ d.pad_length = g.pad_length /\ d.word = g.word /\ d.code = g.code
  /\ d.weight = g.weight /\ d.data = g.data /\ d.settings = g.settings
  /\ d.length \in {g.length, LengthOf(g)}

LEMMA ListingIs ==
  ASSUME NEW g \in FrameObject, NEW list \in Lists \union {Garbled, Overread},
         NEW d \in {Listing(g, list), Updated(Listing(g, list))}
  PROVE  ListDecoded(g, d) /\ d.list = list
<1> DEFINE h == Listing(g, list)
<1>1. /\ h \in FrameObject
      /\ h.class = g.class /\ h.flags = g.flags /\ h.stream_id = g.stream_id
      /\ h.pad_length = g.pad_length /\ h.word = g.word /\ h.code = g.code
      /\ h.weight = g.weight /\ h.data = g.data /\ h.settings = g.settings
      /\ h.length = g.length /\ h.list = list
  BY DEF Listing, FrameObject
<1> HIDE DEF h
<1>2. /\ Updated(h) \in FrameObject
      /\ Updated(h).class = h.class /\ Updated(h).flags = h.flags
      /\ Updated(h).stream_id = h.stream_id /\ Updated(h).pad_length = h.pad_length
      /\ Updated(h).word = h.word /\ Updated(h).code = h.code
      /\ Updated(h).weight = h.weight /\ Updated(h).data = h.data
      /\ Updated(h).settings = h.settings /\ Updated(h).list = h.list
      /\ Updated(h).length = LengthOf(h)
  BY <1>1, UpdatedIsObject, UpdatedFields
<1>3. LengthOf(h) = LengthOf(g)
  BY <1>1, SameLength
<1>4. d = h \/ d = Updated(h)
  BY DEF h
<1>5. CASE d = h
  BY <1>1, <1>5 DEF ListDecoded
<1>6. CASE d = Updated(h)
  BY <1>1, <1>2, <1>3, <1>6 DEF ListDecoded
<1>7. QED
  BY <1>4, <1>5, <1>6

LEMMA DecodeListIs ==
  ASSUME NEW g \in FrameObject, NEW d \in DecodeList(g)
  PROVE  \/ d = Aborted /\ Outside(g.data) # {}
         \/ ListDecoded(g, d) /\ (d.list = Overread => Outside(g.data) # {})
<1>1. \/ \E list \in ListsOf(g.data) : d = Updated(Listing(g, list))
      \/ d = Listing(g, Garbled)
      \/ MayOverread(g.data) /\ d \in {Listing(g, Overread), Updated(Listing(g, Overread))}
      \/ MayAbort(g.data) /\ d = Aborted
  BY DEF DecodeList
<1>2. ListsOf(g.data) \subseteq Lists \union {Garbled}
  BY ListTypes DEF ListsOf
<1>3. Overread \notin Lists \union {Garbled}
  BY EncodingsAssumption DEF Overread, Garbled
<1>4. CASE MayAbort(g.data) /\ d = Aborted
  BY <1>4 DEF MayAbort
<1>5. CASE MayOverread(g.data) /\ d \in {Listing(g, Overread), Updated(Listing(g, Overread))}
  <2>1. Outside(g.data) # {}
    BY <1>5 DEF MayOverread
  <2>2. ListDecoded(g, d)
    BY <1>5, ListingIs
  <2>3. QED
    BY <2>1, <2>2
<1>6. CASE d = Listing(g, Garbled) \/ \E list \in ListsOf(g.data) : d = Updated(Listing(g, list))
  <2>1. PICK list \in Lists \union {Garbled} :
          d \in {Listing(g, list), Updated(Listing(g, list))}
    BY <1>2, <1>6
  <2>2. ListDecoded(g, d) /\ d.list = list
    BY <2>1, ListingIs
  <2>3. QED
    BY <1>3, <2>1, <2>2
<1>7. QED
  BY <1>1, <1>4, <1>5, <1>6

\* The octets of the fixed part.
LEMMA FixedOctets ==
  ASSUME NEW f \in SentObject
  PROVE  LET x == FixedPart(f)
             m == Marked(f.word, f.bit)
         IN /\ Prioritized(f) => (\A k \in 1 .. 4 : x[k] = m[k]) /\ x[5] = f.weight
            /\ f.class \in {"PUSH_PROMISE", "WINDOW_UPDATE"} => \A k \in 1 .. 4 : x[k] = m[k]
            /\ f.class = "GOAWAY" => \A k \in 1 .. 4 : x[k] = m[k] /\ x[4 + k] = f.code[k]
            /\ f.class = "PING" => \A k \in 1 .. 4 : x[k] = f.word[k] /\ x[4 + k] = f.code[k]
            /\ f.class = "RST_STREAM" => \A k \in 1 .. 4 : x[k] = f.code[k]
<1> DEFINE x == FixedPart(f)
           m == Marked(f.word, f.bit)
           w == f.word
           c == f.code
<1>1. w \in Word /\ c \in Word /\ f.bit \in BOOLEAN /\ f.weight \in Octet
  BY DEF SentObject
<1>2. m \in Word
  BY <1>1, MarkedIs
<1>3. /\ m \in Seq(Octet) /\ Len(m) = 4 /\ w \in Seq(Octet) /\ Len(w) = 4
      /\ c \in Seq(Octet) /\ Len(c) = 4
  BY <1>1, <1>2, WordIsSeq
<1>4. /\ Prioritized(f) => x = Append(m, f.weight)
      /\ f.class \in {"PUSH_PROMISE", "WINDOW_UPDATE"} => x = m
      /\ f.class = "GOAWAY" => x = m \o c
      /\ f.class = "PING" => x = w \o c
      /\ f.class = "RST_STREAM" => x = c
  BY DEF FixedPart, Prioritized
<1> HIDE DEF x, m, w, c
<1>5. ASSUME NEW u \in Seq(Octet), NEW v \in Seq(Octet), Len(u) = 4, Len(v) = 4
      PROVE  \A k \in 1 .. 4 : (u \o v)[k] = u[k] /\ (u \o v)[4 + k] = v[k]
  <2>1. /\ \A i \in 1 .. Len(u) : (u \o v)[i] = u[i]
        /\ \A i \in 1 .. Len(v) : (u \o v)[Len(u) + i] = v[i]
    OBVIOUS
  <2>2. QED
    BY <1>5, <2>1
<1>6. ASSUME NEW u \in Seq(Octet), NEW e \in Octet, Len(u) = 4
      PROVE  (\A k \in 1 .. 4 : Append(u, e)[k] = u[k]) /\ Append(u, e)[5] = e
  <2>1. /\ \A i \in 1 .. Len(u) : Append(u, e)[i] = u[i]
        /\ Append(u, e)[Len(u) + 1] = e
    OBVIOUS
  <2>2. Len(u) + 1 = 5
    BY <1>6
  <2>3. QED
    BY <1>6, <2>1, <2>2
<1>7. Prioritized(f) => (\A k \in 1 .. 4 : x[k] = m[k]) /\ x[5] = f.weight
  <2>1. (\A k \in 1 .. 4 : Append(m, f.weight)[k] = m[k]) /\ Append(m, f.weight)[5] = f.weight
    BY <1>1, <1>3, <1>6, Zenon
  <2>2. QED
    BY <1>4, <2>1, Zenon
<1>8. f.class = "GOAWAY" => \A k \in 1 .. 4 : x[k] = m[k] /\ x[4 + k] = c[k]
  <2>1. \A k \in 1 .. 4 : (m \o c)[k] = m[k] /\ (m \o c)[4 + k] = c[k]
    BY <1>3, <1>5, Zenon
  <2>2. QED
    BY <1>4, <2>1, Zenon
<1>9. f.class = "PING" => \A k \in 1 .. 4 : x[k] = w[k] /\ x[4 + k] = c[k]
  <2>1. \A k \in 1 .. 4 : (w \o c)[k] = w[k] /\ (w \o c)[4 + k] = c[k]
    BY <1>3, <1>5, Zenon
  <2>2. QED
    BY <1>4, <2>1, Zenon
<1>10. /\ f.class \in {"PUSH_PROMISE", "WINDOW_UPDATE"} => \A k \in 1 .. 4 : x[k] = m[k]
       /\ f.class = "RST_STREAM" => \A k \in 1 .. 4 : x[k] = c[k]
  BY <1>4
<1>11. QED
  BY <1>7, <1>8, <1>9, <1>10 DEF x, m, w, c

LEMMA FixedRead ==
  ASSUME NEW f \in SentObject, f.class # "SETTINGS"
  PROVE  LET p == EncodePayload(f)
             at == PadAt(f)
             marked == Widened(Masked(Marked(f.word, f.bit)))
         IN /\ Prioritized(f) => MaskedWordAt(p, at) = marked /\ p[at + 5] = f.weight
            /\ f.class \in {"PUSH_PROMISE", "WINDOW_UPDATE", "GOAWAY"} =>
                 MaskedWordAt(p, at) = marked
            /\ f.class = "GOAWAY" => MaskedWordAt(p, at + 4) = Widened(Masked(f.code))
            /\ f.class = "PING" => /\ WordAt(p, at) = Widened(f.word)
                                   /\ WordAt(p, at + 4) = Widened(f.code)
            /\ f.class = "RST_STREAM" => WordAt(p, at) = Widened(f.code)
<1> DEFINE p == EncodePayload(f)
           at == PadAt(f)
           x == FixedPart(f)
           m == Marked(f.word, f.bit)
<1>1. /\ p \in Seq(Octet) /\ Len(p) = at + FixedLength(f) + Len(f.data)
      /\ at \in Nat /\ FixedLength(f) \in Nat /\ Len(f.data) \in Nat
      /\ \A i \in 1 .. FixedLength(f) : p[at + i] = x[i]
  BY EncodedIs
<1>2. f.word \in Word /\ f.code \in Word /\ f.bit \in BOOLEAN
  BY DEF SentObject
<1>3. m \in Word
  BY <1>2, MarkedIs
<1>4. /\ Prioritized(f) => (\A k \in 1 .. 4 : x[k] = m[k]) /\ x[5] = f.weight
      /\ f.class \in {"PUSH_PROMISE", "WINDOW_UPDATE"} => \A k \in 1 .. 4 : x[k] = m[k]
      /\ f.class = "GOAWAY" => \A k \in 1 .. 4 : x[k] = m[k] /\ x[4 + k] = f.code[k]
      /\ f.class = "PING" => \A k \in 1 .. 4 : x[k] = f.word[k] /\ x[4 + k] = f.code[k]
      /\ f.class = "RST_STREAM" => \A k \in 1 .. 4 : x[k] = f.code[k]
  BY FixedOctets
<1>5. /\ Prioritized(f) => FixedLength(f) = 5
      /\ f.class \in {"PUSH_PROMISE", "WINDOW_UPDATE", "RST_STREAM"} => FixedLength(f) = 4
      /\ f.class \in {"GOAWAY", "PING"} => FixedLength(f) = 8
  BY DEF FixedLength, Prioritized
<1> HIDE DEF p, at, x, m
<1>6. ASSUME NEW w \in Word, FixedLength(f) >= 4, \A k \in 1 .. 4 : x[k] = w[k]
      PROVE  WordAt(p, at) = Widened(w) /\ MaskedWordAt(p, at) = Widened(Masked(w))
  <2>1. ASSUME NEW k \in 1 .. 4 PROVE p[at + k] = w[k]
    <3>1. k \in 1 .. FixedLength(f)
      BY <1>1, <1>6
    <3>2. p[at + k] = x[k] /\ x[k] = w[k]
      BY <1>1, <1>6, <3>1, Zenon
    <3>3. QED
      BY <3>2
  <2>2. at + 4 <= Len(p)
    BY <1>1, <1>6
  <2>3. QED
    BY <1>1, <2>1, <2>2, WordAtIs
<1>7. ASSUME NEW w \in Word, FixedLength(f) = 8, \A k \in 1 .. 4 : x[4 + k] = w[k]
      PROVE  WordAt(p, at + 4) = Widened(w) /\ MaskedWordAt(p, at + 4) = Widened(Masked(w))
  <2>1. \A k \in 1 .. 4 : p[(at + 4) + k] = w[k]
    <3> SUFFICES ASSUME NEW k \in 1 .. 4 PROVE p[(at + 4) + k] = w[k]
      OBVIOUS
    <3>1. 4 + k \in 1 .. FixedLength(f) /\ (at + 4) + k = at + (4 + k)
      BY <1>1, <1>7
    <3>2. p[at + (4 + k)] = x[4 + k] /\ x[4 + k] = w[k]
      BY <1>1, <1>7, <3>1, Zenon
    <3>3. QED
      BY <3>1, <3>2
  <2>2. (at + 4) + 4 <= Len(p) /\ at + 4 \in Nat
    <3> DEFINE n == Len(f.data)
    <3>1. Len(p) = at + 8 + n /\ at \in Nat /\ n \in Nat
      BY <1>1, <1>7
    <3> HIDE DEF n
    <3>2. (at + 4) + 4 <= at + 8 + n /\ at + 4 \in Nat
      BY <3>1
    <3>3. QED
      BY <3>1, <3>2
  <2>3. QED
    BY <1>1, <2>1, <2>2, WordAtIs
<1>8. Prioritized(f) => p[at + 5] = f.weight
  <2>1. Prioritized(f) => 5 \in 1 .. FixedLength(f)
    BY <1>5
  <2>2. Prioritized(f) => p[at + 5] = x[5]
    BY <1>1, <2>1
  <2>3. QED
    BY <1>4, <2>2
<1>9. Prioritized(f) => MaskedWordAt(p, at) = Widened(Masked(m))
  BY <1>3, <1>4, <1>5, <1>6
<1>10. f.class \in {"PUSH_PROMISE", "WINDOW_UPDATE", "GOAWAY"} =>
         MaskedWordAt(p, at) = Widened(Masked(m))
  BY <1>3, <1>4, <1>5, <1>6
<1>11. f.class = "GOAWAY" => MaskedWordAt(p, at + 4) = Widened(Masked(f.code))
  BY <1>2, <1>4, <1>5, <1>7
<1>12. f.class = "PING" => WordAt(p, at) = Widened(f.word) /\ WordAt(p, at + 4) = Widened(f.code)
  BY <1>2, <1>4, <1>5, <1>6, <1>7
<1>13. f.class = "RST_STREAM" => WordAt(p, at) = Widened(f.code)
  BY <1>2, <1>4, <1>5, <1>6
<1>14. QED
  BY <1>8, <1>9, <1>10, <1>11, <1>12, <1>13 DEF p, at, m

\* What the peer has, r, of a frame f that arrives.
FixedArrives(f, r) ==
  LET marked == Widened(Masked(Marked(f.word, f.bit))) IN
  /\ Prioritized(f) => r.word = marked /\ r.weight = f.weight
  /\ f.class \in {"PUSH_PROMISE", "WINDOW_UPDATE", "GOAWAY"} => r.word = marked
  /\ f.class = "GOAWAY" => r.code = Widened(Masked(f.code))
  /\ f.class = "PING" => r.word = Widened(f.word) /\ r.code = Widened(f.code)
  /\ f.class = "RST_STREAM" => r.code = Widened(f.code)

ArrivesAs(f, r) ==
  /\ r \in FrameObject
  /\ r.class = f.class /\ r.flags = f.flags /\ r.stream_id = Widened(Masked(f.stream_id))
  /\ FixedArrives(f, r)
  /\ r.settings = Defaults
  /\ Padded(f) => r.pad_length = f.pad_length
  /\ f.class # "PUSH_PROMISE" =>
       /\ r.data \in Seq(Octet) /\ Unpadded(f) \in Nat /\ Len(r.data) = Unpadded(f)
       /\ \A k \in 1 .. Unpadded(f) : r.data[k] = f.data[k]
       /\ r.length = Len(EncodePayload(f))
  /\ Len(r.data) <= Len(f.data) + Uncounted(f.class)
  /\ \A k \in DOMAIN r.data : r.data[k] = Stray => k > Len(f.data)
  /\ r.list = Overread => BlockIsCut(f)

LEMMA SameFixed ==
  ASSUME NEW f, NEW d, NEW r, FixedArrives(f, d), r.word = d.word, r.code = d.code,
         r.weight = d.weight
  PROVE  FixedArrives(f, r)
BY DEF FixedArrives

LEMMA DecodeFixedArrives ==
  ASSUME NEW f \in SentObject, f.class # "SETTINGS",
         NEW g \in FrameObject, g.class = f.class, g.flags = f.flags
  PROVE  LET d == DecodeFixed(g, EncodePayload(f)) IN SameButFixed(d, g) /\ FixedArrives(f, d)
<1> DEFINE p == EncodePayload(f)
           d == DecodeFixed(g, p)
           at == PadAt(f)
           marked == Widened(Masked(Marked(f.word, f.bit)))
<1>1. p \in Seq(Octet) /\ Len(p) >= at + FixedLength(f)
  BY EncodedIs
<1>2. /\ PadAt(g) = at /\ FixedLength(g) = FixedLength(f)
      /\ (Prioritized(g) <=> Prioritized(f))
  BY DataLengthIs
<1>3. /\ SameButFixed(d, g)
      /\ Prioritized(g) => d.word = MaskedWordAt(p, PadAt(g)) /\ d.weight = p[PadAt(g) + 5]
      /\ g.class \in {"PUSH_PROMISE", "WINDOW_UPDATE", "GOAWAY"} =>
           d.word = MaskedWordAt(p, PadAt(g))
      /\ g.class = "GOAWAY" => d.code = MaskedWordAt(p, PadAt(g) + 4)
      /\ g.class = "PING" => d.word = WordAt(p, PadAt(g)) /\ d.code = WordAt(p, PadAt(g) + 4)
      /\ g.class = "RST_STREAM" => d.code = WordAt(p, PadAt(g))
  BY <1>1, <1>2, DecodeFixedIs
<1>4. /\ Prioritized(f) => MaskedWordAt(p, at) = marked /\ p[at + 5] = f.weight
      /\ f.class \in {"PUSH_PROMISE", "WINDOW_UPDATE", "GOAWAY"} => MaskedWordAt(p, at) = marked
      /\ f.class = "GOAWAY" => MaskedWordAt(p, at + 4) = Widened(Masked(f.code))
      /\ f.class = "PING" => /\ WordAt(p, at) = Widened(f.word)
                             /\ WordAt(p, at + 4) = Widened(f.code)
      /\ f.class = "RST_STREAM" => WordAt(p, at) = Widened(f.code)
  BY FixedRead
<1> HIDE DEF p, d, at
<1>5. FixedArrives(f, d)
  BY <1>2, <1>3, <1>4 DEF FixedArrives
<1>6. QED
  BY <1>3, <1>5 DEF p, d

\* The classes with data, but for the header list.
LEMMA DataArrives ==
  ASSUME NEW f \in SentObject, f.class \notin {"SETTINGS", "PRIORITY", "RST_STREAM"},
         NEW g \in FrameObject, g.class = f.class, g.flags = f.flags,
         DataLength(g, EncodePayload(f)) >= 0
  PROVE  LET p == EncodePayload(f)
             r == DecodeData(DecodeFixed(g, p), p)
         IN /\ r \in FrameObject
            /\ r.class = f.class /\ r.flags = f.flags /\ r.stream_id = g.stream_id
            /\ r.length = g.length /\ r.list = g.list /\ r.settings = g.settings
            /\ FixedArrives(f, r)
            /\ Padded(f) => r.pad_length = f.pad_length
            /\ f.class # "PUSH_PROMISE" =>
                 /\ r.data \in Seq(Octet) /\ Unpadded(f) \in Nat /\ Len(r.data) = Unpadded(f)
                 /\ \A k \in 1 .. Unpadded(f) : r.data[k] = f.data[k]
                 /\ LengthOf(r) = Len(p)
            /\ Len(r.data) <= Len(f.data) + Uncounted(f.class)
            /\ \A k \in DOMAIN r.data : r.data[k] = Stray => k > Len(f.data)
<1> DEFINE p == EncodePayload(f)
           d == DecodeFixed(g, p)
           r == DecodeData(d, p)
           at == PadAt(f) + FixedLength(f)
           n == DataLength(d, p)
<1>1. SameButFixed(d, g) /\ FixedArrives(f, d)
  BY DecodeFixedArrives
<1>2. /\ p \in Seq(Octet) /\ Len(p) = at + Len(f.data)
      /\ at \in Nat /\ Len(f.data) \in Nat /\ PadAt(f) \in Nat /\ FixedLength(f) \in Nat
      /\ \A i \in 1 .. Len(f.data) : p[at + i] = f.data[i]
  BY EncodedIs
<1>3. d \in FrameObject /\ d.class = f.class /\ d.flags = f.flags /\ f.data \in Seq(Octet)
  BY <1>1 DEF SameButFixed, SentObject
<1> HIDE DEF d
<1>4. /\ PadAt(d) = PadAt(f) /\ FixedLength(d) = FixedLength(f)
      /\ (Padded(d) <=> Padded(f)) /\ (Prioritized(d) <=> Prioritized(f))
      /\ PadRead(d, p) = IF Padded(f) THEN f.pad_length ELSE 0
      /\ PadRead(d, p) \in Octet /\ PadRead(d, p) \in Nat
      /\ n = Unpadded(f) + IF f.class = "PUSH_PROMISE" THEN 4 ELSE 0
      /\ n \in Int
  BY <1>3, DataLengthIs
<1>5. DataLength(g, p) = Unpadded(f) + IF f.class = "PUSH_PROMISE" THEN 4 ELSE 0
  BY DataLengthIs
<1>6. n \in Nat
  <2>1. n >= 0
    BY <1>4, <1>5
  <2>2. QED
    BY <1>4, <2>1
<1>7. /\ r \in FrameObject
      /\ r.class = d.class /\ r.length = d.length /\ r.flags = d.flags
      /\ r.stream_id = d.stream_id /\ r.word = d.word /\ r.code = d.code
      /\ r.weight = d.weight /\ r.list = d.list /\ r.settings = d.settings
      /\ r.pad_length = PadRead(d, p) /\ r.data = Slice(p, PadAt(d) + FixedLength(d), n)
  BY <1>2, <1>3, <1>4, <1>6, DecodeDataIs
<1> HIDE DEF p, r, at, n
<1>8. FixedArrives(f, r)
  BY <1>1, <1>7, SameFixed
<1>9. ASSUME f.class # "PUSH_PROMISE"
      PROVE  /\ r.data \in Seq(Octet) /\ Unpadded(f) \in Nat /\ Len(r.data) = Unpadded(f)
             /\ \A k \in 1 .. Unpadded(f) : r.data[k] = f.data[k]
             /\ LengthOf(r) = Len(p)
  <2>1. Unpadded(f) = n /\ n <= Len(f.data)
        /\ n = Len(f.data) - PadRead(d, p)
    BY <1>2, <1>4, <1>9 DEF Unpadded
  <2>2. at + n <= Len(p)
    BY <1>2, <1>6, <2>1
  <2>3. r.data = Slice(p, at, n)
    BY <1>4, <1>7 DEF at
  <2>4. /\ Len(r.data) = n /\ r.data \in Seq(Octet)
        /\ \A k \in 1 .. n : r.data[k] = p[at + k]
    <3>1. p \in Seq(Octet) /\ at \in Nat /\ n \in Nat
      BY <1>2, <1>6
    <3>2. /\ Len(Slice(p, at, n)) = n
          /\ at + n <= Len(p) => /\ Slice(p, at, n) \in Seq(Octet)
                                 /\ \A k \in 1 .. n : Slice(p, at, n)[k] = p[at + k]
      BY <3>1, SliceIs, Zenon
    <3>3. QED
      BY <2>2, <2>3, <3>2, Zenon
  <2>5. \A k \in 1 .. n : k \in 1 .. Len(f.data)
    BY <1>2, <1>6, <2>1
  <2>6. \A k \in 1 .. n : r.data[k] = f.data[k]
    BY <1>2, <2>4, <2>5
  <2>7. (Padded(r) <=> Padded(f)) /\ (Prioritized(r) <=> Prioritized(f))
    BY <1>3, <1>7 DEF Padded, Prioritized
  <2>8. FixedLength(r) = FixedLength(f)
    BY <1>3, <1>7, <2>7 DEF FixedLength
  <2>9. LengthOf(r) = FixedLength(f) + n + IF Padded(f) THEN PadRead(d, p) + 1 ELSE 0
    BY <1>3, <1>7, <2>4, <2>7, <2>8 DEF LengthOf
  <2>10. PadAt(f) = IF Padded(f) THEN 1 ELSE 0
    BY DEF PadAt
  <2>11. Len(p) = PadAt(f) + FixedLength(f) + Len(f.data)
    BY <1>2 DEF at
  <2>12. LengthOf(r) = Len(p)
    <3>1. /\ FixedLength(f) \in Nat /\ Len(f.data) \in Nat /\ PadRead(d, p) \in Nat
          /\ ~Padded(f) => PadRead(d, p) = 0
      BY <1>2, <1>4
    <3>2. CASE Padded(f)
      BY <2>1, <2>9, <2>10, <2>11, <3>1, <3>2
    <3>3. CASE ~Padded(f)
      BY <2>1, <2>9, <2>10, <2>11, <3>1, <3>3
    <3>4. QED
      BY <3>2, <3>3
  <2>13. QED
    BY <1>6, <2>1, <2>4, <2>6, <2>12
<1>10. Padded(f) => r.pad_length = f.pad_length
  BY <1>4, <1>7
<1>11. /\ r.class = f.class /\ r.flags = f.flags /\ r.stream_id = g.stream_id
       /\ r.length = g.length /\ r.list = g.list /\ r.settings = g.settings
  BY <1>1, <1>3, <1>7 DEF SameButFixed
<1>12. /\ Len(r.data) <= Len(f.data) + Uncounted(f.class)
       /\ \A k \in DOMAIN r.data : r.data[k] = Stray => k > Len(f.data)
  <2>1. r.data = Slice(p, at, n)
    BY <1>4, <1>7 DEF at
  <2>2. r.data = [k \in 1 .. n |-> IF at + k <= Len(p) THEN p[at + k] ELSE Stray]
    BY <2>1 DEF Slice
  <2>3. Len(r.data) = n /\ DOMAIN r.data = 1 .. n
    <3>1. p \in Seq(Octet) /\ at \in Nat /\ n \in Nat
      BY <1>2, <1>6
    <3>2. Len(Slice(p, at, n)) = n
      BY <3>1, SliceIs, Zenon
    <3>3. QED
      BY <2>1, <2>2, <3>2
  <2>4. n <= Len(f.data) + Uncounted(f.class)
    <3>1. Unpadded(f) = Len(f.data) - PadRead(d, p)
      BY <1>2, <1>4 DEF Unpadded
    <3>2. CASE f.class = "PUSH_PROMISE"
      <4>1. n = Unpadded(f) + 4 /\ Uncounted(f.class) = 4
        BY <1>4, <3>2 DEF Uncounted
      <4>2. QED
        BY <1>2, <1>4, <3>1, <4>1
    <3>3. CASE f.class # "PUSH_PROMISE"
      <4>1. n = Unpadded(f) + 0 /\ Uncounted(f.class) = 0
        BY <1>4, <3>3 DEF Uncounted
      <4>2. QED
        BY <1>2, <1>4, <3>1, <4>1
    <3>4. QED
      BY <3>2, <3>3
  <2>5. ASSUME NEW k \in 1 .. n, r.data[k] = Stray PROVE k > Len(f.data)
    <3>1. SUFFICES ASSUME k <= Len(f.data) PROVE FALSE
      BY <1>2, <1>6
    <3>2. at + k <= Len(p) /\ k \in 1 .. Len(f.data)
      BY <1>2, <1>6, <3>1
    <3>3. r.data[k] = p[at + k] /\ p[at + k] = f.data[k]
      BY <1>2, <2>2, <3>2
    <3>4. f.data[k] \in Octet
      BY <1>3, <3>2
    <3>5. Stray \notin Octet
      BY DEF Stray, Octet
    <3>6. QED
      BY <2>5, <3>3, <3>4, <3>5
  <2>6. QED
    BY <2>3, <2>4, <2>5
<1>13. QED
  BY <1>7, <1>8, <1>9, <1>10, <1>11, <1>12 DEF p, r, d

\* A frame whose type is right arrives, unless the peer hangs or its header block is cut.
LEMMA FramesArriveAs ==
  ASSUME NEW f, NEW wanted, Shaped(f, "default", wanted), f.class # "SETTINGS",
         f.class = "HEADERS" => f.data \in Encodings[f.list],
         ~Hangs(Announced(WireOf(f).header), EncodePayload(f)),
         NEW r \in DecodePayload(Announced(WireOf(f).header), EncodePayload(f))
  PROVE  (r = Aborted /\ BlockIsCut(f)) \/ ArrivesAs(f, r)
<1> DEFINE p == EncodePayload(f)
           g == Announced(WireOf(f).header)
           d == DecodeFixed(g, p)
<1>1. /\ f \in SentObject /\ f.class \in Classes /\ f.data \in Seq(Octet) /\ f.list \in Lists
  BY DEF Shaped, SentObject
<1>2. /\ g \in FrameObject /\ g.class = f.class /\ g.length = Len(p) /\ g.flags = f.flags
      /\ g.stream_id = Widened(Masked(f.stream_id))
      /\ g.data = <<>> /\ g.list = <<>> /\ g.settings = Defaults
  BY AnnouncedIs
<1>3. /\ Len(p) = PadAt(f) + FixedLength(f) + Len(f.data) /\ PadAt(f) \in Nat
      /\ FixedLength(f) \in Nat /\ p \in Seq(Octet) /\ Len(f.data) \in Nat
  BY <1>1, EncodedIs
<1>4. /\ FixedLength(g) = FixedLength(f) /\ DataLength(g, p) \in Int
      /\ (Padded(g) <=> Padded(f))
  BY <1>1, <1>2, DataLengthIs
<1>5. DataLength(g, p) >= 0
  BY <1>2, <1>4 DEF Hangs
<1>6. SameButFixed(d, g) /\ FixedArrives(f, d)
  BY <1>1, <1>2, DecodeFixedArrives
<1>0. r \in DecodePayload(g, p)
  OBVIOUS
<1> HIDE DEF g
<1>7. CASE f.class \in {"PRIORITY", "RST_STREAM"}
  <2>1. f.data = <<>> /\ ~Padded(f) /\ PadAt(f) = 0
    BY <1>7 DEF Shaped, Padded, PadAt, PaddedClasses
  <2>2. Len(p) = FixedLength(g)
    BY <1>3, <1>4, <2>1
  <2>3. r = Updated(d)
    BY <1>0, <1>2, <1>7, <2>2 DEF DecodePayload
  <2>4. d \in FrameObject /\ d.class = f.class /\ d.flags = f.flags
    BY <1>2, <1>6 DEF SameButFixed
  <2>5. FixedLength(d) = FixedLength(f) /\ ~Padded(d)
    BY <1>1, <2>1, <2>4, DataLengthIs, <1>7
  <2> HIDE DEF d, p
  <2>6. /\ r \in FrameObject
        /\ r.class = d.class /\ r.flags = d.flags /\ r.stream_id = d.stream_id
        /\ r.word = d.word /\ r.code = d.code /\ r.weight = d.weight /\ r.data = d.data
        /\ r.list = d.list /\ r.settings = d.settings /\ r.length = LengthOf(d)
    BY <2>3, <2>4, UpdatedIsObject, UpdatedFields
  <2>7. LengthOf(d) = FixedLength(f)
    <3>1. d.data = <<>>
      BY <1>2, <1>6 DEF SameButFixed
    <3>2. QED
      BY <1>3, <1>7, <2>4, <2>5, <3>1 DEF LengthOf
  <2>8. FixedArrives(f, r)
    BY <1>6, <2>6, SameFixed
  <2>9. Unpadded(f) = 0 /\ Len(r.data) = 0 /\ r.data \in Seq(Octet) /\ r.list = <<>>
        /\ r.settings = Defaults /\ r.stream_id = Widened(Masked(f.stream_id))
    BY <1>2, <1>6, <2>1, <2>6 DEF SameButFixed, Unpadded
  <2>10. r.length = Len(p)
    BY <1>4, <2>2, <2>6, <2>7
  <2>11. \A k \in 1 .. Unpadded(f) : r.data[k] = f.data[k]
    BY <2>9
  <2>12. /\ Len(r.data) <= Len(f.data) + Uncounted(f.class) /\ r.list # Overread
         /\ \A k \in DOMAIN r.data : r.data[k] = Stray => k > Len(f.data)
    BY <2>1, <2>9, <1>3, ListTypes, EncodingsAssumption DEF Uncounted
  <2>13. ArrivesAs(f, r)
    BY <1>7, <2>1, <2>4, <2>6, <2>8, <2>9, <2>10, <2>11, <2>12 DEF ArrivesAs, p
  <2>14. QED
    BY <2>13
<1>8. CASE f.class \notin {"PRIORITY", "RST_STREAM"}
  <2> DEFINE e == DecodeData(d, p)
  <2>1. /\ e \in FrameObject
        /\ e.class = f.class /\ e.flags = f.flags /\ e.stream_id = g.stream_id
        /\ e.length = g.length /\ e.list = g.list /\ e.settings = g.settings
        /\ FixedArrives(f, e)
        /\ Padded(f) => e.pad_length = f.pad_length
        /\ f.class # "PUSH_PROMISE" =>
             /\ e.data \in Seq(Octet) /\ Unpadded(f) \in Nat /\ Len(e.data) = Unpadded(f)
             /\ \A k \in 1 .. Unpadded(f) : e.data[k] = f.data[k]
             /\ LengthOf(e) = Len(p)
        /\ Len(e.data) <= Len(f.data) + Uncounted(f.class)
        /\ \A k \in DOMAIN e.data : e.data[k] = Stray => k > Len(f.data)
    BY <1>1, <1>2, <1>5, <1>8, DataArrives
  <2>2. r \in IF f.class = "HEADERS" THEN DecodeList(e) ELSE {Updated(e)}
    BY <1>0, <1>2, <1>8, Zenon DEF DecodePayload
  <2> HIDE DEF e, p
  <2>3. CASE f.class = "HEADERS"
    <3>1. Outside(e.data) # {} => BlockIsCut(f)
      <4>1. SUFFICES ASSUME ~BlockIsCut(f) PROVE Outside(e.data) = {}
        OBVIOUS
      <4>2. Unpadded(f) = Len(f.data)
        <5>1. f.pad_length \in Octet /\ f.pad_length \in Nat
          <6>1. f.pad_length \in Octet
            BY <1>1 DEF SentObject
          <6>2. QED
            BY <6>1 DEF Octet
        <5>2. Padded(f) => f.pad_length = 0
          BY <2>3, <4>1, <5>1 DEF BlockIsCut
        <5>3. QED
          BY <1>3, <5>2 DEF Unpadded
      <4>3. /\ e.data \in Seq(Octet) /\ Len(e.data) = Len(f.data)
            /\ \A k \in 1 .. Len(f.data) : e.data[k] = f.data[k]
        BY <2>1, <2>3, <4>2
      <4>4. e.data = f.data
        BY <1>1, <4>3, SeqEqual
      <4>5. QED
        BY <1>1, <2>3, <4>4, EncodingsAssumption
    <3>2. \/ r = Aborted /\ BlockIsCut(f)
          \/ ListDecoded(e, r) /\ (r.list = Overread => BlockIsCut(f))
      BY <2>1, <2>2, <2>3, <3>1, DecodeListIs
    <3>3. CASE ListDecoded(e, r) /\ (r.list = Overread => BlockIsCut(f))
      <4>1. FixedArrives(f, r)
        BY <2>1, <3>3, SameFixed DEF ListDecoded
      <4>2. ArrivesAs(f, r)
        BY <1>2, <2>1, <2>3, <3>3, <4>1 DEF ArrivesAs, ListDecoded, p
      <4>3. QED
        BY <4>2
    <3>4. QED
      BY <3>2, <3>3
  <2>4. CASE f.class # "HEADERS"
    <3>1. /\ r \in FrameObject
          /\ r.class = e.class /\ r.flags = e.flags /\ r.stream_id = e.stream_id
          /\ r.pad_length = e.pad_length /\ r.word = e.word /\ r.code = e.code
          /\ r.weight = e.weight /\ r.data = e.data /\ r.list = e.list
          /\ r.settings = e.settings /\ r.length = LengthOf(e)
      BY <2>1, <2>2, <2>4, UpdatedIsObject, UpdatedFields
    <3>2. FixedArrives(f, r)
      BY <2>1, <3>1, SameFixed
    <3>3. r.list # Overread
      BY <1>2, <2>1, <3>1, ListTypes, EncodingsAssumption
    <3>4. ArrivesAs(f, r)
      BY <1>2, <2>1, <2>4, <3>1, <3>2, <3>3 DEF ArrivesAs, p
    <3>5. QED
      BY <3>4
  <2>5. QED
    BY <2>3, <2>4
<1>9. QED
  BY <1>7, <1>8

-----------------------------------------------------------------------------
(* Settings.                                                               *)

LEMMA SettingsInType ==
  ASSUME NEW p \in Seq(Octet)
  PROVE  SettingsIn(p) \in Settings
<1> DEFINE m == Len(p) \div 6 - 1
           Value(id) == IF SettingsAt(p, id) = {} THEN Defaults[id]
                        ELSE Adopted(id, WordAt(p, 6 * Max(SettingsAt(p, id)) + 2))
<1>1. m \in Int /\ \A i \in 0 .. m : (6 * i + 2) + 4 <= Len(p) /\ 6 * i + 2 \in Nat
  OBVIOUS
<1> HIDE DEF m
<1>2. ASSUME NEW id \in SettingIds
      PROVE  Value(id) \in Word /\ (id = ENABLE_PUSH => Value(id) \in {Zero, One})
  <2>1. CASE SettingsAt(p, id) = {}
    BY <2>1, WordsAre, DefaultsAreSettings DEF Settings
  <2>2. CASE SettingsAt(p, id) # {}
    <3>1. SettingsAt(p, id) \in SUBSET (0 .. m)
      BY DEF SettingsAt, m
    <3>2. Max(SettingsAt(p, id)) \in 0 .. m
      BY <1>1, <2>2, <3>1, MaxIsIn
    <3>3. WordAt(p, 6 * Max(SettingsAt(p, id)) + 2) \in Word
      BY <1>1, <3>2, WordAtIs
    <3>4. QED
      BY <2>2, <3>3, AdoptedType
  <2>3. QED
    BY <2>1, <2>2
<1>3. SettingsIn(p) = [id \in SettingIds |-> Value(id)]
  BY DEF SettingsIn
<1> HIDE DEF Value
<1>4. SettingsIn(p) \in [SettingIds -> Word]
  BY <1>2, <1>3
<1>5. SettingsIn(p)[ENABLE_PUSH] \in {Zero, One}
  BY <1>2, <1>3 DEF SettingIds, ENABLE_PUSH
<1>6. QED
  BY <1>4, <1>5 DEF Settings

SettingsArrive(f, r) ==
  /\ r \in FrameObject
  /\ r.class = "SETTINGS" /\ r.flags = f.flags
  /\ r.stream_id = Widened(Masked(f.stream_id))
  /\ r.data = <<>> /\ r.list = <<>>
  /\ Len(EncodePayload(f)) % 6 = 0 =>
       r.settings = SettingsIn(EncodePayload(f)) /\ r.length = LengthOf(r)

\* The object that is made for a header of type SETTINGS takes any payload.
LEMMA SettingsArriveAs ==
  ASSUME NEW f, NEW how \in {"default", "arguments"}, NEW wanted, Shaped(f, how, wanted),
         how = "arguments" \/ f.class = "SETTINGS"
  PROVE  LET p == EncodePayload(f)
             g == Announced(WireOf(f).header)
         IN /\ ~Hangs(g, p)
            /\ \A r \in DecodePayload(g, p) : SettingsArrive(f, r)
<1> DEFINE p == EncodePayload(f)
           g == Announced(WireOf(f).header)
           r == IF Len(p) % 6 # 0 THEN g ELSE Updated([g EXCEPT !.settings = SettingsIn(p)])
           s == SettingsIn(p)
<1>1. /\ g \in FrameObject /\ g.class = "SETTINGS" /\ g.flags = f.flags
      /\ g.stream_id = Widened(Masked(f.stream_id))
      /\ g.data = <<>> /\ g.list = <<>>
  BY AnnouncedIs
<1>2. p \in Seq(Octet)
  BY EncodedType DEF Shaped
<1>3. s \in Settings
  BY <1>2, SettingsInType
<1>4. /\ DecodePayload(g, p) = {r}
      /\ r = IF Len(p) % 6 # 0 THEN g ELSE Updated([g EXCEPT !.settings = s])
  BY <1>1 DEF DecodePayload
<1>5. ~Hangs(g, p)
  BY <1>1 DEF Hangs
<1> DEFINE h == [g EXCEPT !.settings = s]
<1> HIDE DEF g, p, r, s
<1>6. /\ h \in FrameObject /\ h.class = g.class /\ h.flags = g.flags /\ h.settings = s
      /\ h.stream_id = g.stream_id /\ h.data = g.data /\ h.list = g.list
      /\ h.pad_length = g.pad_length
  BY <1>1, <1>3 DEF FrameObject
<1> HIDE DEF h
<1> DEFINE u == Updated(h)
<1>7. /\ u \in FrameObject /\ u.class = h.class /\ u.flags = h.flags /\ u.settings = h.settings
      /\ u.stream_id = h.stream_id /\ u.data = h.data /\ u.list = h.list
      /\ u.length = LengthOf(h) /\ u.pad_length = h.pad_length
  BY <1>6, UpdatedIsObject, UpdatedFields
<1> HIDE DEF u
<1>8. LengthOf(u) = LengthOf(h)
  BY <1>7, SameLength
<1>9. r = IF Len(p) % 6 # 0 THEN g ELSE u
  BY <1>4 DEF h, u
<1>10. /\ r \in FrameObject
       /\ r.class = "SETTINGS" /\ r.flags = f.flags
       /\ r.stream_id = Widened(Masked(f.stream_id))
       /\ r.data = <<>> /\ r.list = <<>>
       /\ Len(p) % 6 = 0 => r.settings = s /\ r.length = LengthOf(r)
  BY <1>1, <1>6, <1>7, <1>8, <1>9
<1>11. SettingsArrive(f, r)
  BY <1>10 DEF SettingsArrive, p, s
<1>12. QED
  BY <1>4, <1>5, <1>11 DEF g, p

-----------------------------------------------------------------------------
(* Properties.                                                             *)

LEMMA NotAnObject ==
  /\ \A r \in FrameObject : r \notin {None, Hung, Aborted}
  /\ Hung # Aborted /\ None \notin {Hung, Aborted}
<1>1. None.class = "none" /\ Hung.class = "hung" /\ Aborted.class = "aborted"
  BY DEF None, Hung, Aborted
<1>2. "none" \notin Classes /\ "hung" \notin Classes /\ "aborted" \notin Classes
  BY ClassSet
<1>3. ASSUME NEW r \in FrameObject PROVE r \notin {None, Hung, Aborted}
  <2>1. r.class \in Classes
    BY DEF FrameObject
  <2>2. QED
    BY <1>1, <1>2, <2>1
<1>4. QED
  BY <1>1, <1>3

\* What RecvFrame makes of a frame that was sent.
LEMMA OutcomeIs ==
  ASSUME NEW o, Whole(o), NEW r \in Outcome(o.frame)
  PROVE  LET f == o.frame
             returned == r \notin {Hung, Aborted}
         IN /\ returned => r \in FrameObject
            /\ r = Hung <=> /\ o.made = "default" /\ f.class # "SETTINGS"
                            /\ Unpadded(f) + Uncounted(f.class) < 0
            /\ r = Aborted => o.made = "default" /\ BlockIsCut(f)
            /\ returned /\ o.made = "default" /\ f.class # "SETTINGS" => ArrivesAs(f, r)
            /\ o.made = "arguments" \/ f.class = "SETTINGS" => SettingsArrive(f, r)
<1> DEFINE f == o.frame
           g == Announced(WireOf(f).header)
           p == EncodePayload(f)
<1>1. /\ o.made \in {"default", "arguments"} /\ Shaped(f, o.made, o.asked)
      /\ f.class = "HEADERS" => f.data \in Encodings[f.list]
  BY DEF Whole, Proper
<1>2. r \in IF Hangs(g, p) THEN {Hung} ELSE DecodePayload(g, p)
  BY DEF Outcome
<1>3. f \in SentObject
  BY <1>1 DEF Shaped
<1> HIDE DEF f
<1>4. CASE o.made = "default" /\ f.class # "SETTINGS"
  <2>1. g.class = f.class /\ g.flags = f.flags
    BY <1>1, <1>4, AnnouncedIs
  <2>2. DataLength(g, p) = Unpadded(f) + Uncounted(f.class)
    BY <1>3, <1>4, <2>1, DataLengthIs DEF Uncounted
  <2>3. Hangs(g, p) <=> Unpadded(f) + Uncounted(f.class) < 0
    BY <1>4, <2>1, <2>2 DEF Hangs
  <2>4. ~Hangs(g, p) => (r = Aborted /\ BlockIsCut(f)) \/ ArrivesAs(f, r)
    BY <1>1, <1>2, <1>4, FramesArriveAs
  <2>5. Hangs(g, p) => r = Hung
    BY <1>2
  <2> HIDE DEF g, p
  <2>6. ArrivesAs(f, r) => r \in FrameObject /\ r \notin {Hung, Aborted}
    BY NotAnObject DEF ArrivesAs
  <2>7. CASE Hangs(g, p)
    BY <1>4, <2>3, <2>5, <2>7, NotAnObject DEF f
  <2>8. CASE ~Hangs(g, p)
    BY <1>4, <2>3, <2>4, <2>6, <2>8, NotAnObject DEF f
  <2>9. QED
    BY <2>7, <2>8
<1>5. CASE o.made = "arguments" \/ f.class = "SETTINGS"
  <2>1. ~Hangs(g, p) /\ \A x \in DecodePayload(g, p) : SettingsArrive(f, x)
    BY <1>1, <1>5, SettingsArriveAs
  <2>2. SettingsArrive(f, r)
    BY <1>2, <2>1
  <2> HIDE DEF g, p
  <2>3. r \in FrameObject /\ r \notin {Hung, Aborted}
    BY <2>2, NotAnObject DEF SettingsArrive
  <2>4. ~(o.made = "default" /\ f.class # "SETTINGS")
    BY <1>5
  <2>5. QED
    BY <2>2, <2>3, <2>4 DEF f
<1>6. QED
  BY <1>1, <1>4, <1>5

\* Every frame of the application and every one that RecvFrame has returned is an
\* object of its class: types, words, octets, lists and settings are in range,
\* whatever the payload was decoded to.
THEOREM TypeCorrect == Spec => []TypeOK
<1>1. IInv => TypeOK
  <2> SUFFICES ASSUME IInv PROVE TypeOK
    OBVIOUS
  <2>1. /\ made \in {"default", "arguments"} /\ raw \in BOOLEAN /\ asked \in SUBSET Flags
        /\ calls \in 0 .. MaxCalls /\ freed \in BOOLEAN
    BY DEF IInv, Building
  <2>2. frame \in FrameObject \union {None, Crashed}
    BY SentIsObject DEF IInv, Building, Built, Proper, Shaped
  <2>3. wire # None => wire.header.length = Len(wire.payload)
    BY DEF IInv, Sent, WireOf
  <2>4. received \in FrameObject \union {None, Hung, Aborted}
    <3>1. received # None => Whole(original) /\ received \in Outcome(original.frame)
      BY DEF IInv, Sent
    <3>2. QED
      BY <3>1, OutcomeIs
  <2>5. QED
    BY <2>1, <2>2, <2>3, <2>4 DEF TypeOK
<1>2. QED
  BY <1>1, Invariance, PTL

LEMMA Received ==
  ASSUME IInv, received # None
  PROVE  Whole(original) /\ received \in Outcome(original.frame)
BY DEF IInv, Sent

\* Whatever an application has sent, RecvFrame hangs exactly when a frame made by a
\* default constructor is padded by more octets than are taken for its data, for then the
\* length that DecodeFramePayload computes is negative; an exception leaves it only when
\* the header block of a HEADERS frame is cut by padding; it returns otherwise.
THEOREM FramesReturn == Spec => []ReturnsUnlessPadded
<1>1. IInv => ReturnsUnlessPadded
  <2> SUFFICES ASSUME IInv, received # None PROVE ReturnsUnlessPadded
    BY DEF ReturnsUnlessPadded
  <2> DEFINE f == original.frame
             four == Uncounted(f.class)
  <2>1. Whole(original) /\ received \in Outcome(f)
    BY Received
  <2>2. /\ received = Hung <=> /\ original.made = "default" /\ f.class # "SETTINGS"
                               /\ Unpadded(f) + four < 0
        /\ received = Aborted => original.made = "default" /\ BlockIsCut(f)
    BY <2>1, OutcomeIs
  <2>3. f \in SentObject
    BY <2>1 DEF Whole, Proper, Shaped
  <2> HIDE DEF f
  <2>4. f.pad_length \in Nat /\ Len(f.data) \in Nat
    <3>1. f.pad_length \in Octet /\ f.data \in Seq(Octet)
      BY <2>3 DEF SentObject
    <3>2. \A n \in Octet : n \in Nat
      BY DEF Octet
    <3>3. QED
      BY <3>1, <3>2
  <2>5. Padded(f) => f.class # "SETTINGS"
    BY DEF Padded, PaddedClasses
  <2>6. f.class # "SETTINGS" /\ Unpadded(f) + four < 0 <=>
          Padded(f) /\ f.pad_length > Len(f.data) + four
    <3>1. four \in {0, 4}
      BY DEF Uncounted
    <3>2. Unpadded(f) = Len(f.data) - IF Padded(f) THEN f.pad_length ELSE 0
      BY DEF Unpadded
    <3> DEFINE n == Len(f.data)
               m == f.pad_length
               u == Unpadded(f)
    <3> HIDE DEF four, n, m, u
    <3>3. n \in Nat /\ m \in Nat
      BY <2>4 DEF n, m
    <3>4. CASE Padded(f)
      <4>1. u = n - m
        BY <3>2, <3>4 DEF u, n, m
      <4>2. u + four < 0 <=> m > n + four
        BY <3>1, <3>3, <4>1
      <4>3. QED
        BY <2>5, <3>4, <4>2 DEF u, n, m
    <3>5. CASE ~Padded(f)
      <4>1. u = n
        BY <3>2, <3>3, <3>5 DEF u, n, m
      <4>2. ~(u + four < 0)
        BY <3>1, <3>3, <4>1
      <4>3. QED
        BY <3>5, <4>2 DEF u, n, m
    <3>6. QED
      BY <3>4, <3>5
  <2>7. received = Hung <=> /\ original.made = "default" /\ Padded(f)
                            /\ f.pad_length > Len(f.data) + four
    BY <2>2, <2>6
  <2>8. QED
    BY <2>2, <2>7 DEF ReturnsUnlessPadded, f
<1>2. QED
  BY <1>1, Invariance, PTL

\* Of a frame that has arrived, the data are no more octets than were sent as data, and
\* none of them is from behind the payload, but for the last four of PUSH_PROMISE; and
\* the strings of its header list are from its header block, unless padding cuts it.
THEOREM PayloadsRead == Spec => []ReadsThePayload
<1>1. IInv => ReadsThePayload
  <2> SUFFICES ASSUME IInv, Arrived PROVE ReadsThePayload
    BY DEF ReadsThePayload
  <2> DEFINE f == original.frame
  <2>1. Whole(original) /\ received \in Outcome(f) /\ received \notin {Hung, Aborted}
    BY Received DEF Arrived
  <2>2. original.made \in {"default", "arguments"} /\ f.data \in Seq(Octet)
    BY <2>1 DEF Whole, Proper, Shaped, SentObject
  <2>3. CASE original.made = "default" /\ f.class # "SETTINGS"
    <3>1. ArrivesAs(f, received)
      BY <2>1, <2>3, OutcomeIs
    <3>2. QED
      BY <3>1 DEF ArrivesAs, ReadsThePayload
  <2>4. CASE original.made = "arguments" \/ f.class = "SETTINGS"
    <3>1. received.data = <<>> /\ received.list = <<>> /\ received.class = "SETTINGS"
      BY <2>1, <2>4, OutcomeIs DEF SettingsArrive
    <3>2. received.list # Overread
      BY <3>1, ListTypes, EncodingsAssumption
    <3>3. Len(received.data) = 0 /\ DOMAIN received.data = {}
      BY <3>1
    <3>4. Len(f.data) \in Nat /\ Uncounted(received.class) = 0
      BY <2>2, <3>1 DEF Uncounted
    <3>5. QED
      BY <3>2, <3>3, <3>4 DEF ReadsThePayload
  <2>5. QED
    BY <2>2, <2>3, <2>4
<1>2. QED
  BY <1>1, Invariance, PTL

-----------------------------------------------------------------------------
(* The payload of SETTINGS.                                                *)

UpTo(s, k) == Listed(s) \intersect (1 .. k)

\* The i-th six octets of p are a setting of s with an identifier up to k.
Chunk(p, s, k, i) ==
  /\ p[6 * i + 1] = 0 /\ p[6 * i + 2] \in UpTo(s, k)
  /\ \A j \in 1 .. 4 : p[(6 * i + 2) + j] = s[p[6 * i + 2]][j]

\* p is n such settings, and has all of them.
Layout(p, s, k, n) ==
  /\ p \in Seq(Octet) /\ n \in Nat /\ Len(p) = 6 * n
  /\ n = Cardinality(UpTo(s, k))
  /\ \A i \in 0 .. (n - 1) : Chunk(p, s, k, i)
  /\ \A id \in UpTo(s, k) : \E i \in 0 .. (n - 1) : p[6 * i + 2] = id

LEMMA UpToGrows ==
  ASSUME NEW s, NEW k \in Nat
  PROVE  /\ IsFiniteSet(UpTo(s, k))
         /\ UpTo(s, k) \subseteq UpTo(s, k + 1)
         /\ k + 1 \notin Listed(s) => UpTo(s, k + 1) = UpTo(s, k)
         /\ k + 1 \in Listed(s) =>
              /\ UpTo(s, k + 1) = UpTo(s, k) \union {k + 1}
              /\ Cardinality(UpTo(s, k + 1)) = Cardinality(UpTo(s, k)) + 1
<1>1. 1 \in Int /\ k \in Int
  OBVIOUS
<1>2. IsFiniteSet(1 .. k)
  BY <1>1, FS_Interval, Zenon
<1>3. IsFiniteSet(UpTo(s, k))
  BY <1>2, FS_Subset DEF UpTo
<1>4. 1 .. (k + 1) = (1 .. k) \union {k + 1} /\ k + 1 \notin 1 .. k
  OBVIOUS
<1>5. /\ UpTo(s, k) \subseteq UpTo(s, k + 1)
      /\ k + 1 \notin Listed(s) => UpTo(s, k + 1) = UpTo(s, k)
      /\ k + 1 \in Listed(s) => UpTo(s, k + 1) = UpTo(s, k) \union {k + 1}
      /\ k + 1 \notin UpTo(s, k)
  BY <1>4 DEF UpTo
<1>6. Cardinality(UpTo(s, k) \union {k + 1}) = Cardinality(UpTo(s, k)) + 1
  BY <1>3, <1>5, FS_AddElement
<1>7. QED
  BY <1>3, <1>5, <1>6

LEMMA LayoutGrows ==
  ASSUME NEW s \in Settings, NEW k \in Nat, k + 1 \in SettingIds, NEW p, NEW n,
         Layout(p, s, k, n)
  PROVE  \E m : Layout(p \o SettingOctets(s, k + 1), s, k + 1, m)
<1> DEFINE x == SettingOctets(s, k + 1)
           q == p \o x
<1>1. /\ p \in Seq(Octet) /\ n \in Nat /\ Len(p) = 6 * n
      /\ n = Cardinality(UpTo(s, k))
      /\ \A i \in 0 .. (n - 1) : Chunk(p, s, k, i)
      /\ \A id \in UpTo(s, k) : \E i \in 0 .. (n - 1) : p[6 * i + 2] = id
  BY DEF Layout
<1>2. /\ x \in Seq(Octet)
      /\ k + 1 \notin Listed(s) => x = <<>>
      /\ k + 1 \in Listed(s) => /\ Len(x) = 6 /\ x[1] = 0 /\ x[2] = k + 1
                                /\ \A j \in 1 .. 4 : x[2 + j] = s[k + 1][j]
  BY SettingOctetsAre
<1> HIDE DEF x
<1>3. CASE k + 1 \notin Listed(s)
  <2>1. q = p
    BY <1>1, <1>2, <1>3
  <2>2. UpTo(s, k + 1) = UpTo(s, k)
    BY <1>3, UpToGrows
  <2> HIDE DEF q
  <2>3. Layout(q, s, k + 1, n)
    BY <1>1, <2>1, <2>2 DEF Layout, Chunk
  <2>4. QED
    BY <2>3 DEF q, x
<1>4. CASE k + 1 \in Listed(s)
  <2>0. p \in Seq(Octet) /\ x \in Seq(Octet)
    BY <1>1, <1>2
  <2>joined. /\ p \o x \in Seq(Octet) /\ Len(p \o x) = Len(p) + Len(x)
             /\ \A i \in 1 .. Len(p) : (p \o x)[i] = p[i]
             /\ \A i \in 1 .. Len(x) : (p \o x)[Len(p) + i] = x[i]
    BY ONLY <2>0
  <2>1. q \in Seq(Octet) /\ Len(q) = Len(p) + Len(x)
    BY ONLY <2>joined
  <2>2. \A i \in 1 .. Len(p) : q[i] = p[i]
    BY ONLY <2>joined
  <2>3. \A i \in 1 .. Len(x) : q[Len(p) + i] = x[i]
    BY ONLY <2>joined
  <2> HIDE DEF q
  <2>4. Len(q) = 6 * (n + 1) /\ n + 1 \in Nat
    <3>1. Len(p) = 6 * n /\ n \in Nat /\ Len(x) = 6
      BY <1>1, <1>2, <1>4
    <3>2. QED
      BY ONLY <2>1, <3>1
  <2>5. n + 1 = Cardinality(UpTo(s, k + 1)) /\ UpTo(s, k + 1) = UpTo(s, k) \union {k + 1}
    BY <1>1, <1>4, UpToGrows
  <2>6. ASSUME NEW i \in 0 .. (n - 1) PROVE Chunk(q, s, k + 1, i) /\ q[6 * i + 2] = p[6 * i + 2]
    <3>1. Chunk(p, s, k, i)
      BY <1>1
    <3>2. /\ 6 * i + 1 \in 1 .. 6 * n /\ 6 * i + 2 \in 1 .. 6 * n
          /\ \A j \in 1 .. 4 : (6 * i + 2) + j \in 1 .. 6 * n
      BY <1>1
    <3>3. /\ q[6 * i + 1] = p[6 * i + 1] /\ q[6 * i + 2] = p[6 * i + 2]
          /\ \A j \in 1 .. 4 : q[(6 * i + 2) + j] = p[(6 * i + 2) + j]
      BY <1>1, <2>2, <3>2
    <3>4. QED
      BY <2>5, <3>1, <3>3 DEF Chunk
  <2>7. Chunk(q, s, k + 1, n) /\ q[6 * n + 2] = k + 1
    <3>1. \A j \in 1 .. 6 : q[6 * n + j] = x[j]
      BY <1>1, <1>2, <1>4, <2>3
    <3>2. q[6 * n + 1] = 0 /\ q[6 * n + 2] = k + 1
      BY <1>2, <1>4, <3>1
    <3>3. \A j \in 1 .. 4 : q[(6 * n + 2) + j] = s[k + 1][j]
      <4>1. \A j \in 1 .. 4 : 2 + j \in 1 .. 6 /\ (6 * n + 2) + j = 6 * n + (2 + j)
        BY <1>1
      <4>2. \A j \in 1 .. 4 : q[(6 * n + 2) + j] = x[2 + j]
        BY <3>1, <4>1
      <4>3. QED
        BY <1>2, <1>4, <4>2
    <3>4. k + 1 \in UpTo(s, k + 1)
      BY <2>5
    <3>5. QED
      BY <3>2, <3>3, <3>4 DEF Chunk
  <2>8. \A i \in 0 .. ((n + 1) - 1) : Chunk(q, s, k + 1, i)
    <3>1. \A i \in 0 .. ((n + 1) - 1) : i \in 0 .. (n - 1) \/ i = n
      BY <1>1
    <3>2. QED
      BY <2>6, <2>7, <3>1
  <2>9. ASSUME NEW id \in UpTo(s, k + 1)
        PROVE  \E i \in 0 .. ((n + 1) - 1) : q[6 * i + 2] = id
    <3>1. CASE id = k + 1
      <4>1. n \in 0 .. ((n + 1) - 1)
        BY <1>1
      <4>2. QED
        BY <2>7, <3>1, <4>1
    <3>2. CASE id \in UpTo(s, k)
      <4>1. PICK i \in 0 .. (n - 1) : p[6 * i + 2] = id
        BY <1>1, <3>2
      <4>2. i \in 0 .. ((n + 1) - 1) /\ q[6 * i + 2] = id
        BY <1>1, <2>6, <4>1
      <4>3. QED
        BY <4>2
    <3>3. QED
      BY <2>5, <3>1, <3>2
  <2>10. Layout(q, s, k + 1, n + 1)
    BY <2>1, <2>4, <2>5, <2>8, <2>9 DEF Layout
  <2>11. QED
    BY <2>10 DEF q, x
<1>5. QED
  BY <1>3, <1>4

LEMMA SettingsLayout ==
  ASSUME NEW s \in Settings
  PROVE  \E n : Layout(SettingsOctets(s), s, 6, n)
<1> DEFINE p1 == SettingOctets(s, 1)
           p2 == p1 \o SettingOctets(s, 2)
           p3 == p2 \o SettingOctets(s, 3)
           p4 == p3 \o SettingOctets(s, 4)
           p5 == p4 \o SettingOctets(s, 5)
           p6 == p5 \o SettingOctets(s, 6)
<1>1. \E n : Layout(p1, s, 1, n)
  <2>1. UpTo(s, 0) = {}
    BY DEF UpTo
  <2>2. Layout(<<>>, s, 0, 0)
    BY <2>1, FS_EmptySet DEF Layout
  <2>3. \E n : Layout(<<>> \o SettingOctets(s, 0 + 1), s, 0 + 1, n)
    <3>1. 0 \in Nat /\ 0 + 1 \in SettingIds
      BY DEF SettingIds
    <3>2. QED
      BY <2>2, <3>1, LayoutGrows, Zenon
  <2>4. 0 + 1 = 1
    OBVIOUS
  <2>5. p1 \in Seq(Octet)
    BY SettingOctetsAre DEF SettingIds
  <2>6. <<>> \o p1 = p1
    BY <2>5
  <2>7. QED
    BY <2>3, <2>4, <2>6
<1>2. ASSUME NEW k \in Nat, k + 1 \in SettingIds, NEW p, \E n : Layout(p, s, k, n)
      PROVE  \E n : Layout(p \o SettingOctets(s, k + 1), s, k + 1, n)
  BY <1>2, LayoutGrows
<1>3. 1 + 1 = 2 /\ 2 + 1 = 3 /\ 3 + 1 = 4 /\ 4 + 1 = 5 /\ 5 + 1 = 6
  OBVIOUS
<1>4. 2 \in SettingIds /\ 3 \in SettingIds /\ 4 \in SettingIds /\ 5 \in SettingIds /\ 6 \in SettingIds
  BY DEF SettingIds
<1> HIDE DEF p1
<1>5. \E n : Layout(p2, s, 2, n)
  BY <1>1, <1>2, <1>3, <1>4
<1> HIDE DEF p2
<1>6. \E n : Layout(p3, s, 3, n)
  BY <1>5, <1>2, <1>3, <1>4
<1> HIDE DEF p3
<1>7. \E n : Layout(p4, s, 4, n)
  BY <1>6, <1>2, <1>3, <1>4
<1> HIDE DEF p4
<1>8. \E n : Layout(p5, s, 5, n)
  BY <1>7, <1>2, <1>3, <1>4
<1> HIDE DEF p5
<1>9. \E n : Layout(p6, s, 6, n)
  BY <1>8, <1>2, <1>3, <1>4
<1>10. SettingsOctets(s) = p6
  BY DEF SettingsOctets, p1, p2, p3, p4, p5
<1>11. QED
  BY <1>9, <1>10

\* A value that is portable is taken as it is.
LEMMA PortableAdopted ==
  ASSUME NEW s \in Settings, Portable(s), NEW id \in SettingIds
  PROVE  Adopted(id, s[id]) = s[id]
<1> DEFINE w == s[MAX_FRAME_SIZE]
<1>1. s[ENABLE_PUSH] \in {Zero, One}
  BY DEF Settings
<1>2. w \in Word
  BY DEF Settings, MAX_FRAME_SIZE, SettingIds
<1>3. w[1] = 0 /\ (w[2] > 0 \/ w[3] >= 64)
  BY DEF Portable
<1>4. w[2] \in 0 .. 255 /\ w[3] \in 0 .. 255
  BY <1>2 DEF Word, Octet
<1>5. ClampFrameSize(w) = w
  BY <1>3, <1>4 DEF ClampFrameSize
<1>6. Zero # One
  BY DEF Zero, One
<1>7. QED
  BY <1>1, <1>5, <1>6 DEF Adopted

LEMMA SettingsPayload ==
  ASSUME NEW s \in Settings
  PROVE  LET p == SettingsOctets(s) IN
         /\ Len(p) = SettingsLength(s) /\ Len(p) % 6 = 0
         /\ Portable(s) => SettingsIn(p) = s
<1> DEFINE p == SettingsOctets(s)
<1>1. PICK n : Layout(p, s, 6, n)
  BY SettingsLayout
<1> HIDE DEF p
<1>2. UpTo(s, 6) = Listed(s)
  BY DEF UpTo, Listed, SettingIds
<1>3. /\ p \in Seq(Octet) /\ n \in Nat /\ Len(p) = 6 * n /\ n = Cardinality(Listed(s))
      /\ \A i \in 0 .. (n - 1) : Chunk(p, s, 6, i)
      /\ \A id \in Listed(s) : \E i \in 0 .. (n - 1) : p[6 * i + 2] = id
  BY <1>1, <1>2 DEF Layout
<1>4. Len(p) = SettingsLength(s)
  BY <1>3 DEF SettingsLength
<1>5. Len(p) % 6 = 0 /\ Len(p) \div 6 = n
  BY <1>3
<1>6. ASSUME Portable(s) PROVE SettingsIn(p) = s
  <2>1. ASSUME NEW id \in SettingIds PROVE SettingsIn(p)[id] = s[id]
    <3> DEFINE at == SettingsAt(p, id)
    <3>1. at = {i \in 0 .. (n - 1) : p[6 * i + 1] = 0 /\ p[6 * i + 2] = id}
      BY <1>5 DEF SettingsAt
    <3>2. SettingsIn(p)[id] = IF at = {} THEN Defaults[id]
                              ELSE Adopted(id, WordAt(p, 6 * Max(at) + 2))
      BY DEF SettingsIn
    <3> HIDE DEF at
    <3>3. s[id] \in Word
      BY DEF Settings
    <3>4. CASE id \in Listed(s)
      <4>1. at # {}
        BY <1>3, <3>1, <3>4 DEF Chunk
      <4>2. at \in SUBSET (0 .. (n - 1)) /\ n - 1 \in Int
        BY <1>3, <3>1
      <4> DEFINE i == Max(at)
      <4>3. i \in at
        BY <4>1, <4>2, MaxIsIn
      <4> HIDE DEF i
      <4>4. i \in 0 .. (n - 1) /\ p[6 * i + 2] = id
        BY <3>1, <4>3
      <4>5. \A j \in 1 .. 4 : p[(6 * i + 2) + j] = s[id][j]
        BY <1>3, <4>4 DEF Chunk
      <4>6. 6 * i + 2 \in Nat /\ (6 * i + 2) + 4 <= Len(p)
        BY <1>3, <4>4
      <4>7. WordAt(p, 6 * i + 2) = Widened(s[id])
        BY <1>3, <3>3, <4>5, <4>6, WordAtIs
      <4>8. Widened(s[id]) = s[id]
        BY <1>6, <3>3, <3>4, WidenedType DEF Portable
      <4>9. Adopted(id, s[id]) = s[id]
        BY <1>6, <3>3, PortableAdopted
      <4>10. QED
        BY <3>2, <4>1, <4>7, <4>8, <4>9 DEF i
    <3>5. CASE id \notin Listed(s)
      <4>1. at = {}
        BY <1>2, <1>3, <3>1, <3>5 DEF Chunk
      <4>2. s[id] = Defaults[id]
        BY <3>5 DEF Listed
      <4>3. QED
        BY <3>2, <4>1, <4>2
    <3>6. QED
      BY <3>4, <3>5
  <2>2. SettingsIn(p) = [id \in SettingIds |-> SettingsIn(p)[id]]
    BY DEF SettingsIn
  <2>3. s = [id \in SettingIds |-> s[id]]
    BY DEF Settings
  <2>4. QED
    BY <2>1, <2>2, <2>3
<1>7. QED
  BY <1>4, <1>5, <1>6 DEF p

LEMMA EmptySettings ==
  /\ SettingsIn(<<>>) = Defaults /\ SettingsLength(Defaults) = 0
  /\ \A s \in Settings : SettingsLength(s) = 0 => s = Defaults
<1>1. \A id \in SettingIds : SettingsAt(<<>>, id) = {}
  BY DEF SettingsAt
<1>2. SettingsIn(<<>>) = [id \in SettingIds |-> Defaults[id]]
  BY <1>1 DEF SettingsIn
<1>3. Defaults = [id \in SettingIds |-> Defaults[id]]
  BY DEF Defaults
<1>4. SettingsLength(Defaults) = 0
  <2>1. Listed(Defaults) = {}
    BY DEF Listed
  <2>2. QED
    BY <2>1, FS_EmptySet DEF SettingsLength
<1>5. ASSUME NEW s \in Settings, SettingsLength(s) = 0 PROVE s = Defaults
  <2>1. Listed(s) \in SUBSET (1 .. 6)
    BY DEF Listed, SettingIds
  <2>2. IsFiniteSet(Listed(s))
    <3>1. 1 \in Int /\ 6 \in Int
      OBVIOUS
    <3>2. IsFiniteSet(1 .. 6)
      BY <3>1, FS_Interval, Zenon
    <3>3. QED
      BY <2>1, <3>2, FS_Subset
  <2>3. Cardinality(Listed(s)) = 0
    BY <1>5, ListedCount DEF SettingsLength
  <2>4. Listed(s) = {}
    BY <2>2, <2>3, FS_EmptySet
  <2>5. \A id \in SettingIds : s[id] = Defaults[id]
    BY <2>4 DEF Listed
  <2>6. s = [id \in SettingIds |-> s[id]]
    BY DEF Settings
  <2>7. QED
    BY <1>3, <2>5, <2>6
<1>6. QED
  BY <1>2, <1>3, <1>4, <1>5

\* The payload of a SETTINGS frame that was sent.
LEMMA SettingsSent ==
  ASSUME NEW f \in SentObject, f.class = "SETTINGS"
  PROVE  LET p == EncodePayload(f) IN
         /\ Len(p) % 6 = 0
         /\ f.length = LengthOf(f) => f.length = Len(p)
         /\ f.length = LengthOf(f) /\ ACK \notin f.flags /\ Portable(f.settings) =>
              SettingsIn(p) = f.settings
         /\ \A r : /\ r.class = "SETTINGS" /\ r.flags = f.flags /\ r.settings = SettingsIn(p)
                   /\ Portable(f.settings)
                   => LengthOf(r) = Len(p)
<1> DEFINE p == EncodePayload(f)
           s == f.settings
<1>1. s \in Settings
  BY DEF SentObject
<1>2. LengthOf(f) = IF ACK \in f.flags THEN 0 ELSE SettingsLength(s)
  BY DEF LengthOf
<1>3. ASSUME NEW r, r.class = "SETTINGS", r.flags = f.flags
      PROVE  LengthOf(r) = IF ACK \in f.flags THEN 0 ELSE SettingsLength(r.settings)
  BY <1>3 DEF LengthOf
<1>4. p = IF ACK \in f.flags \/ f.length = 0 THEN <<>> ELSE SettingsOctets(s)
  BY DEF EncodePayload
<1>5. /\ Len(SettingsOctets(s)) = SettingsLength(s) /\ Len(SettingsOctets(s)) % 6 = 0
      /\ Portable(s) => SettingsIn(SettingsOctets(s)) = s
  BY <1>1, SettingsPayload
<1>6. Len(<<>>) = 0 /\ 0 % 6 = 0
  OBVIOUS
<1> HIDE DEF p, s
<1>7. CASE ACK \in f.flags \/ f.length = 0
  <2>1. p = <<>>
    BY <1>4, <1>7
  <2>2. SettingsIn(p) = Defaults /\ SettingsLength(SettingsIn(p)) = 0
    BY <2>1, EmptySettings
  <2>3. f.length = LengthOf(f) /\ ACK \notin f.flags => s = Defaults
    BY <1>1, <1>2, <1>7, EmptySettings
  <2>4. f.length = LengthOf(f) => f.length = Len(p)
    BY <1>2, <1>6, <1>7, <2>1
  <2>5. QED
    BY <1>3, <1>6, <2>1, <2>2, <2>3, <2>4 DEF p, s
<1>8. CASE ~(ACK \in f.flags \/ f.length = 0)
  <2>1. p = SettingsOctets(s)
    BY <1>4, <1>8
  <2>2. QED
    BY <1>2, <1>3, <1>5, <1>8, <2>1 DEF p, s
<1>9. QED
  BY <1>7, <1>8

\* length() of a frame that was sent is the length in its header, if it is not padded,
\* its flags were not set behind the back of UpdateLength, and it is not a PRIORITY, PING
\* or WINDOW_UPDATE frame made by a constructor with arguments, which leaves it 0.
\* length() of a frame that has arrived is too, if it was made by a default constructor or
\* is SETTINGS, but for PUSH_PROMISE and for settings that arrive changed.
THEOREM LengthsCorrect == Spec => []LengthsAgree
<1>1. IInv => LengthsAgree
  <2> SUFFICES ASSUME IInv, original # None PROVE LengthsAgree
    BY DEF LengthsAgree
  <2> DEFINE f == original.frame
             length == Len(EncodePayload(f))
  <2>1. Whole(original)
    BY DEF IInv, Sent
  <2>2. f \in SentObject /\ f.data \in Seq(Octet) /\ Proper(f, original.made, original.raw, original.asked)
    BY <2>1 DEF Whole, Proper, Shaped, SentObject
  <2>3. ASSUME original.made = "default" \/ f.class \notin {"PRIORITY", "PING", "WINDOW_UPDATE"},
               ~original.raw, ~Padded(f)
        PROVE  f.length = length
    <3>1. f.length = LengthOf(f)
      <4>1. CASE f.class = "RST_STREAM"
        BY <2>1, <4>1 DEF Whole
      <4>2. CASE f.class # "RST_STREAM"
        BY <2>2, <2>3, <4>2 DEF Proper, Stale
      <4>3. QED
        BY <4>1, <4>2
    <3>2. CASE f.class = "SETTINGS"
      BY <2>2, <3>1, <3>2, SettingsSent
    <3>3. CASE f.class # "SETTINGS"
      <4>1. LengthOf(f) = FixedLength(f) + Len(f.data)
        <5>1. FixedLength(f) \in Nat /\ Len(f.data) \in Nat
          BY <2>2, LengthIsNatural, SentIsObject
        <5>2. QED
          BY <2>3, <3>3, <5>1 DEF LengthOf
      <4>2. /\ length = PadAt(f) + FixedLength(f) + Len(f.data)
            /\ FixedLength(f) \in Nat /\ Len(f.data) \in Nat
        BY <2>2, <3>3, EncodedIs
      <4>3. PadAt(f) = 0
        BY <2>3 DEF PadAt
      <4>4. QED
        BY <3>1, <4>1, <4>2, <4>3
    <3>4. QED
      BY <3>2, <3>3
  <2>4. ASSUME Arrived, original.made = "default" \/ f.class = "SETTINGS",
               f.class # "PUSH_PROMISE", f.class = "SETTINGS" => Portable(f.settings)
        PROVE  received.length = length
    <3>1. received \in Outcome(f) /\ received \notin {Hung, Aborted}
      BY <2>4, Received DEF Arrived
    <3>2. CASE f.class = "SETTINGS"
      <4>1. Len(EncodePayload(f)) % 6 = 0
        BY <2>2, <3>2, SettingsSent
      <4>2. /\ received.class = "SETTINGS" /\ received.flags = f.flags
            /\ received.settings = SettingsIn(EncodePayload(f))
            /\ received.length = LengthOf(received)
        BY <2>1, <3>1, <3>2, <4>1, OutcomeIs DEF SettingsArrive
      <4>3. LengthOf(received) = length
        BY <2>2, <2>4, <3>2, <4>2, SettingsSent
      <4>4. QED
        BY <4>2, <4>3
    <3>3. CASE f.class # "SETTINGS"
      <4>1. ArrivesAs(f, received)
        BY <2>1, <2>4, <3>1, <3>3, OutcomeIs
      <4>2. QED
        BY <2>4, <4>1 DEF ArrivesAs
    <3>4. QED
      BY <3>2, <3>3
  <2>5. QED
    BY <2>3, <2>4 DEF LengthsAgree
<1>2. QED
  BY <1>1, Invariance, PTL

\* Words whose octets are small arrive as they are, but for their highest bit.
LEMMA SmallWords ==
  ASSUME NEW w \in Word, SmallOctets(w)
  PROVE  /\ Widened(w) = w
         /\ Widened(Masked(w)) = Masked(w)
         /\ Widened(Masked(Marked(w, FALSE))) = Masked(w)
         /\ w[1] < 128 => Widened(Masked(w)) = w
<1> DEFINE m == Masked(w)
<1>1. m \in Word /\ m[1] = w[1] % 128 /\ \A k \in 2 .. 4 : m[k] = w[k]
  BY MarkedIs
<1>2. Masked(m) \in Word /\ Masked(m)[1] = m[1] % 128 /\ \A k \in 2 .. 4 : Masked(m)[k] = m[k]
  BY <1>1, MarkedIs
<1>3. Marked(w, FALSE) = m
  BY MarkedIs
<1> HIDE DEF m
<1>4. \A k \in 2 .. 4 : w[k] < 128
  BY DEF SmallOctets
<1>5. w[1] \in 0 .. 255
  BY DEF Word, Octet
<1>6. \A n \in 0 .. 255 : (n % 128) % 128 = n % 128 /\ (n < 128 => n % 128 = n)
  OBVIOUS
<1>7. ASSUME NEW u \in Word, NEW v \in Word, u[1] = v[1], \A k \in 2 .. 4 : u[k] = v[k]
      PROVE  u = v
  <2>1. \A k \in 1 .. 4 : u[k] = v[k]
    BY <1>7
  <2>2. u = [k \in 1 .. 4 |-> u[k]] /\ v = [k \in 1 .. 4 |-> v[k]]
    BY DEF Word
  <2>3. QED
    BY <2>1, <2>2
<1>8. Masked(m) = m
  BY <1>1, <1>2, <1>5, <1>6, <1>7
<1>9. w[1] < 128 => m = w
  BY <1>1, <1>5, <1>6, <1>7
<1>10. Widened(w) = w /\ Widened(m) = m
  BY <1>1, <1>4, WidenedType
<1>11. QED
  BY <1>3, <1>8, <1>9, <1>10 DEF m

LEMMA PrefixIs ==
  ASSUME NEW S, NEW d \in Seq(S), NEW e \in Seq(S), NEW n \in Nat, n <= Len(d), Len(e) = n,
         \A k \in 1 .. n : e[k] = d[k]
  PROVE  e = SubSeq(d, 1, n)
<1>1. /\ SubSeq(d, 1, n) \in Seq(S) /\ Len(SubSeq(d, 1, n)) = n
      /\ \A k \in 1 .. n : SubSeq(d, 1, n)[k] = d[k]
  OBVIOUS
<1>2. QED
  BY <1>1, SeqEqual

\* Whatever an application has called on a frame, and however often it has sent it
\* before (a CONTINUATION frame once), a frame of the kinds that the library can convey
\* has the members and the flags it was given when RecvFrame returns it, and its data but
\* for as many octets as it is padded by.  DATA keeps an END_STREAM that was set, but may
\* have one that was cleared; nothing is said of END_HEADERS there, nor of header lists.
THEOREM FramesArrive == Spec => []FrameArrives
<1>1. IInv => FrameArrives
  <2> SUFFICES ASSUME IInv, Arrived, Conveyable PROVE FrameArrives
    BY DEF FrameArrives
  <2> DEFINE f == original.frame
             p == EncodePayload(f)
             r == received
  <2>1. Whole(original) /\ r \in Outcome(f) /\ r \notin {Hung, Aborted}
    BY Received DEF Arrived
  <2>2. /\ original.made = "default" \/ f.class = "SETTINGS"
        /\ f.class # "PUSH_PROMISE"
        /\ ~f.bit
        /\ SmallOctets(f.stream_id) /\ SmallOctets(f.word) /\ SmallOctets(f.code)
        /\ f.class = "GOAWAY" => f.code[1] < 128
        /\ f.class = "SETTINGS" => Portable(f.settings) /\ ~original.raw
    BY DEF Conveyable
  <2>3. /\ f \in SentObject /\ f.stream_id \in Word /\ f.word \in Word /\ f.code \in Word
        /\ f.bit = FALSE /\ f.data \in Seq(Octet)
        /\ f.class # "SETTINGS" => f.settings = Defaults
        /\ FlagsKept(f.class, f.flags, original.asked)
    <3>1. f \in SentObject
      BY <2>1 DEF Whole, Proper, Shaped
    <3>2. f.bit \in BOOLEAN /\ f.stream_id \in Word /\ f.word \in Word /\ f.code \in Word
          /\ f.data \in Seq(Octet)
      BY <3>1 DEF SentObject
    <3>3. QED
      BY <2>1, <2>2, <3>1, <3>2 DEF Whole, Proper, Shaped
  <2>4. Widened(Masked(f.stream_id)) = Masked(f.stream_id)
    BY <2>2, <2>3, SmallWords
  <2>5. /\ r.class = f.class /\ r.flags = f.flags /\ r.stream_id = Masked(f.stream_id)
        /\ Padded(f) => r.pad_length = f.pad_length
        /\ Prioritized(f) => r.weight = f.weight /\ r.word = Masked(f.word)
        /\ f.class \in {"GOAWAY", "WINDOW_UPDATE"} => r.word = Masked(f.word)
        /\ f.class = "PING" => r.word = f.word
        /\ f.class \in {"PING", "RST_STREAM", "GOAWAY"} => r.code = f.code
        /\ r.data = SubSeq(f.data, 1, Unpadded(f))
        /\ ACK \notin f.flags => r.settings = f.settings
    <3>1. CASE f.class = "SETTINGS"
      <4>1. ~Padded(f) /\ ~Prioritized(f) /\ f.data = <<>>
        BY <2>1, <3>1 DEF Padded, PaddedClasses, Prioritized, Whole, Proper, Shaped
      <4>2. f.length = LengthOf(f)
        BY <2>1, <2>2, <3>1, <4>1 DEF Whole, Proper, Stale
      <4>3. Len(p) % 6 = 0 /\ (ACK \notin f.flags => SettingsIn(p) = f.settings)
        BY <2>2, <2>3, <3>1, <4>2, SettingsSent
      <4>4. /\ r.class = "SETTINGS" /\ r.flags = f.flags
            /\ r.stream_id = Widened(Masked(f.stream_id))
            /\ r.data = <<>>
            /\ r.settings = SettingsIn(p)
        BY <2>1, <3>1, <4>3, OutcomeIs DEF SettingsArrive
      <4>5. Unpadded(f) = 0 /\ SubSeq(f.data, 1, 0) = <<>>
        BY <4>1 DEF Unpadded
      <4>6. QED
        BY <2>3, <2>4, <3>1, <4>1, <4>3, <4>4, <4>5
    <3>2. CASE f.class # "SETTINGS"
      <4>1. ArrivesAs(f, r)
        BY <2>1, <2>2, <3>2, OutcomeIs
      <4>2. /\ r.class = f.class /\ r.flags = f.flags
            /\ r.stream_id = Widened(Masked(f.stream_id)) /\ FixedArrives(f, r)
            /\ r.settings = Defaults
            /\ Padded(f) => r.pad_length = f.pad_length
            /\ r.data \in Seq(Octet) /\ Unpadded(f) \in Nat /\ Len(r.data) = Unpadded(f)
            /\ \A k \in 1 .. Unpadded(f) : r.data[k] = f.data[k]
        BY <2>2, <4>1 DEF ArrivesAs
      <4>3. /\ Widened(Masked(Marked(f.word, f.bit))) = Masked(f.word)
            /\ Widened(f.word) = f.word /\ Widened(f.code) = f.code
            /\ f.class = "GOAWAY" => Widened(Masked(f.code)) = f.code
        BY <2>2, <2>3, SmallWords
      <4>4. /\ Prioritized(f) => r.weight = f.weight /\ r.word = Masked(f.word)
            /\ f.class \in {"GOAWAY", "WINDOW_UPDATE"} => r.word = Masked(f.word)
            /\ f.class = "PING" => r.word = f.word
            /\ f.class \in {"PING", "RST_STREAM", "GOAWAY"} => r.code = f.code
        BY <4>2, <4>3 DEF FixedArrives
      <4>5. Unpadded(f) <= Len(f.data)
        <5>1. f.pad_length \in Nat /\ Len(f.data) \in Nat
          <6>1. f.pad_length \in Octet /\ \A n \in Octet : n \in Nat
            BY <2>3 DEF SentObject, Octet
          <6>2. QED
            BY <2>3, <6>1
        <5>2. QED
          BY <5>1 DEF Unpadded
      <4>6. r.data = SubSeq(f.data, 1, Unpadded(f))
        BY <2>3, <4>2, <4>5, PrefixIs
      <4>7. QED
        BY <2>3, <2>4, <3>2, <4>2, <4>4, <4>6
    <3>3. QED
      BY <3>1, <3>2
  <2>6. Unpadded(f) = Len(f.data) - IF Padded(f) THEN f.pad_length ELSE 0
    BY DEF Unpadded
  <2>7. QED
    BY <2>3, <2>5, <2>6 DEF FrameArrives, FlagsKept
<1>2. QED
  BY <1>1, Invariance, PTL

=============================================================================
