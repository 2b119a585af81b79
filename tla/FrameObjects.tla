---------------------------- MODULE FrameObjects ----------------------------
(***************************************************************************)
(* An application builds a frame with a constructor and setters, sends it, *)
(* goes on setting and sends it again; its peer receives what was sent     *)
(* (src/frame.h, frame.cc).  The stream between them is intact here;       *)
(* module FrameStream has what happens when it is not.                     *)
(***************************************************************************)
EXTENDS FrameCodec

CONSTANTS
  Words,          \* 32-bit values passed to setters
  Octets,         \* pad lengths and weights
  Blocks,         \* octets passed as data
  SettingsGiven,  \* settings passed to set_settings
  FlagChoices,    \* the arguments of the public set_flags and clear_flags
  MaxCalls        \* bound on the calls on a frame before it is sent again

ASSUME FrameObjectsAssumption ==
  /\ Words \subseteq Word
  /\ Octets \subseteq Octet
  /\ Blocks \subseteq Seq(Octet)
  /\ SettingsGiven \subseteq Settings
  /\ FlagChoices \subseteq SUBSET Flags
  /\ MaxCalls \in Nat \ {0}

None == [class |-> "none"]
Hung == [class |-> "hung"]
Crashed == [class |-> "crashed"]

VARIABLES
  frame,     \* the application's frame, None, or Crashed
  freed,     \* the memory of its header block fragment has been freed
  made,      \* how: "default", "arguments"; history
  raw,       \* the public set_flags or clear_flags has been called; history
  asked,     \* the flags that the application has set and not cleared; history
  calls,     \* the calls since it was constructed or sent
  wire,      \* the frame on the stream, [header, payload], or None
  original,  \* what was sent, with made, raw and asked of then; history
  received   \* what RecvFrame has returned of it, None, Hung, or Aborted

vars == <<frame, freed, made, raw, asked, calls, wire, original, received>>

\* The members of each class that its constructor and setters take.
MembersOf ==
  [DATA |-> {"pad_length", "data"}, HEADERS |-> {"pad_length", "bit", "word", "weight", "list"},
   PRIORITY |-> {"bit", "word", "weight"}, RST_STREAM |-> {"code"}, SETTINGS |-> {"settings"},
   PUSH_PROMISE |-> {"pad_length", "bit", "word", "data"}, PING |-> {"word", "code"},
   GOAWAY |-> {"bit", "word", "code", "data"}, WINDOW_UPDATE |-> {"bit", "word"},
   CONTINUATION |-> {"data"}]

ValuesOf(member) ==
  CASE member = "bit"                      -> BOOLEAN
    [] member \in {"word", "code"}         -> Words
    [] member \in {"pad_length", "weight"} -> Octets
    [] member = "data"                     -> Blocks
    [] member = "list"                     -> Lists
    [] member = "settings"                 -> SettingsGiven

\* The flags of each class that have methods of their own.
FlagsOf ==
  [DATA |-> {END_STREAM, PADDED}, HEADERS |-> Flags, PRIORITY |-> {}, RST_STREAM |-> {},
   SETTINGS |-> {ACK}, PUSH_PROMISE |-> {END_HEADERS, PADDED}, PING |-> {ACK},
   GOAWAY |-> {}, WINDOW_UPDATE |-> {}, CONTINUATION |-> {END_HEADERS}]

\* The default constructor; word and code stand for memory as it was found, where
\* a class does not initialize them.
Default(class, word, code) ==
  LET f == [class |-> class, type |-> TypeOf[class], length |-> 0, flags |-> {},
            stream_id |-> Zero, pad_length |-> 0, bit |-> FALSE, word |-> word,
            code |-> code, weight |-> 0, data |-> <<>>, list |-> <<>>, settings |-> Defaults]
  IN [f EXCEPT !.length = FixedLength(f)]

Uninitialized ==
  {<<"PUSH_PROMISE", "word">>, <<"GOAWAY", "word">>, <<"GOAWAY", "code">>,
   <<"WINDOW_UPDATE", "word">>}
Found(class, member) == IF <<class, member>> \in Uninitialized THEN Words ELSE {Zero}

TypeOK ==
  /\ frame \in FrameObject \union {None, Crashed}
  /\ freed \in BOOLEAN
  /\ made \in {"default", "arguments"}
  /\ raw \in BOOLEAN
  /\ asked \in SUBSET Flags
  /\ calls \in 0 .. MaxCalls
  /\ wire # None => wire.header.length = Len(wire.payload)
  /\ received \in FrameObject \union {None, Hung, Aborted}

Init ==
  /\ frame = None /\ freed = FALSE /\ made = "default" /\ raw = FALSE /\ asked = {} /\ calls = 0
  /\ wire = None /\ original = None /\ received = None

-----------------------------------------------------------------------------
(* Building.                                                               *)

\* By this application, or by the next one after it has crashed.
Construct(f, how) ==
  /\ frame \in {None, Crashed} /\ wire = None
  /\ frame' = f
  /\ freed' = FALSE
  /\ made' = how
  /\ asked' = f.flags
  /\ raw' = FALSE
  /\ calls' = 1
  /\ UNCHANGED wire
  /\ original' = None /\ received' = None

New(class) ==
  \E word \in Found(class, "word"), code \in Found(class, "code") :
    Construct(Default(class, word, code), "default")

\* An argument: a value of the member, if the class has it.
Given(class, member) ==
  IF member \in MembersOf[class] THEN ValuesOf(member)
  ELSE {Default(class, Zero, Zero)[member]}

\* A constructor with arguments calls the default one as a statement, which makes
\* and destroys another object: type_ and length_ keep the values of class Frame,
\* and length_ changes only where the constructor updates it.
NewWithArguments(class) ==
  \E pad \in Given(class, "pad_length"), word \in Given(class, "word"),
     code \in Given(class, "code"), weight \in Given(class, "weight"),
     bit \in IF "weight" \in MembersOf[class] THEN BOOLEAN ELSE {FALSE},
     list \in Given(class, "list"), settings \in Given(class, "settings"),
     priority \in IF class = "HEADERS" THEN {{}, {PRIORITY}} ELSE {{}} :
  \E data \in IF class = "HEADERS" THEN Encodings[list] ELSE Given(class, "data") :
    LET f == [Default(class, word, code) EXCEPT
                !.type = TypeOf["SETTINGS"], !.length = 0,
                !.flags = priority \union (IF pad > 0 THEN {PADDED} ELSE {}),
                !.pad_length = pad, !.bit = bit, !.weight = weight,
                !.data = data, !.list = list, !.settings = settings]
    IN Construct(IF class \in {"PRIORITY", "RST_STREAM", "PING", "WINDOW_UPDATE"}
                 THEN f ELSE Updated(f), "arguments")

\* A call on the frame.  The peer shares nothing with it but the stream, so that it
\* may as well have read before.
Built == frame \notin {None, Crashed}
Call ==
  /\ Built /\ wire = None
  /\ calls < MaxCalls
  /\ calls' = calls + 1
  /\ original' = None /\ received' = None
  /\ UNCHANGED <<freed, made, wire>>

\* The setters of members: those of data, of a header list and of settings update
\* length_.
SetMember(member, value) ==
  /\ Call
  /\ ~freed
  /\ member \in MembersOf[frame.class]
  /\ LET f == [frame EXCEPT ![member] = value] IN
       IF member = "list"
       THEN \E block \in Encodings[value] : frame' = Updated([f EXCEPT !.data = block])
       ELSE frame' = IF member \in {"data", "settings"} THEN Updated(f) ELSE f
  /\ UNCHANGED <<raw, asked>>

SetStreamId(id) ==
  /\ Call
  /\ frame' = [frame EXCEPT !.stream_id = id]
  /\ UNCHANGED <<raw, asked>>

\* set_..._flag and clear_..._flag; those that may change the length update it.
FlagOnly(f, flag) == f
Flagged(f, flag) ==
  IF flag \in {PADDED, PRIORITY} \/ f.class = "SETTINGS" THEN Updated(f) ELSE f

SetFlag(flag) ==
  /\ Call
  /\ flag \in FlagsOf[frame.class]
  /\ frame' = Flagged([frame EXCEPT !.flags = @ \union {flag}], flag)
  /\ asked' = asked \union {flag}
  /\ UNCHANGED raw

\* DataFrame::clear_end_stream_flag clears another flag.
FlagCleared(class, flag) ==
  IF class = "DATA" /\ flag = END_STREAM THEN END_HEADERS ELSE flag

ClearFlag(flag) ==
  /\ Call
  /\ flag \in FlagsOf[frame.class]
  /\ frame' = Flagged([frame EXCEPT !.flags = @ \ {FlagCleared(frame.class, flag)}], flag)
  /\ asked' = asked \ {flag}
  /\ UNCHANGED raw

\* The public members of class Frame; length_ stays as it is.
SetFlags(flags) ==
  /\ Call
  /\ frame' = [frame EXCEPT !.flags = @ \union flags]
  /\ asked' = asked \union flags
  /\ raw' = TRUE

ClearFlags(flags) ==
  /\ Call
  /\ frame' = [frame EXCEPT !.flags = @ \ flags]
  /\ asked' = asked \ flags
  /\ raw' = TRUE

-----------------------------------------------------------------------------
(* Sending and receiving.                                                  *)

\* What EncodeFramePayload makes of the object: a header list is encoded again,
\* with the table as it now is.
Refreshed(f) ==
  IF f.class = "HEADERS" THEN {Updated([f EXCEPT !.data = block]) : block \in Encodings[f.list]}
  ELSE IF f.class = "RST_STREAM" THEN {Updated(f)}
  ELSE {f}

Masked(word) == [word EXCEPT ![1] = @ % 128]

\* EncodeFramePayload of a CONTINUATION frame returns a copy that shares the memory of
\* its fragment, and EncodeFrame deletes the copy (module Buffers).
SendFrame ==
  /\ Built /\ ~freed
  /\ wire = None
  /\ \E f \in Refreshed(frame) :
       /\ wire' = [header |-> [length |-> Len(EncodePayload(f)), type |-> f.type,
                               flags |-> f.flags, stream_id |-> Masked(f.stream_id)],
                   payload |-> EncodePayload(f)]
       /\ frame' = f
       /\ original' = [frame |-> f, made |-> made, raw |-> raw, asked |-> asked]
  /\ freed' = (frame.class = "CONTINUATION")
  /\ received' = None
  /\ calls' = 0
  /\ UNCHANGED <<made, raw, asked>>

Gone ==
  /\ wire = None
  /\ freed' = FALSE /\ made' = "default" /\ raw' = FALSE /\ asked' = {} /\ calls' = 0
  /\ original' = None /\ received' = None
  /\ UNCHANGED wire

\* The destructor.
Delete ==
  /\ Built /\ ~freed
  /\ frame' = None
  /\ Gone

\* Sending a CONTINUATION frame again, set_header_block_fragment and the destructor free
\* or reallocate the memory once more.  What that does is not defined; the program ends.
UseFreed ==
  /\ Built /\ freed
  /\ frame' = Crashed
  /\ Gone

\* The object that RecvFrame makes for a header.
Announced(header) ==
  [Default(CHOOSE class \in Classes : TypeOf[class] = header.type, Zero, Zero) EXCEPT
     !.length = header.length, !.flags = header.flags,
     !.stream_id = Widened(header.stream_id)]

RecvFrame ==
  /\ wire # None
  /\ LET f == Announced(wire.header) IN
       received' \in IF Hangs(f, wire.payload) THEN {Hung} ELSE DecodePayload(f, wire.payload)
  /\ wire' = None
  /\ UNCHANGED <<frame, freed, made, raw, asked, calls, original>>

Next ==
  \/ \E class \in Classes : New(class) \/ NewWithArguments(class)
  \/ \E member \in {"pad_length", "bit", "word", "code", "weight", "data", "list", "settings"} :
       \E value \in ValuesOf(member) : SetMember(member, value)
  \/ \E id \in Words : SetStreamId(id)
  \/ \E flag \in Flags : SetFlag(flag) \/ ClearFlag(flag)
  \/ \E flags \in FlagChoices : SetFlags(flags) \/ ClearFlags(flags)
  \/ SendFrame
  \/ RecvFrame
  \/ Delete
  \/ UseFreed

Spec == Init /\ [][Next]_vars

-----------------------------------------------------------------------------

\* RecvFrame has returned a frame, made of the octets of the last one sent.
Arrived == received \notin {None, Hung, Aborted}

SmallOctets(word) == \A k \in 2 .. 4 : word[k] < 128

\* The frames that the library can convey: of a default constructor (or of
\* settings), no PUSH_PROMISE, E and R not set, no octet above 127 inside a word,
\* error codes of GOAWAY below 2^31, portable settings whose length is up to date.
Conveyable ==
  LET f == original.frame IN
    /\ original.made = "default" \/ f.class = "SETTINGS"
    /\ f.class # "PUSH_PROMISE"
    /\ ~f.bit
    /\ \A word \in {f.stream_id, f.word, f.code} : SmallOctets(word)
    /\ f.class = "GOAWAY" => f.code[1] < 128
    /\ f.class = "SETTINGS" => Portable(f.settings) /\ ~original.raw

\* clear_end_stream_flag of a DATA frame clears another flag than it was asked to.
Muddled(class) == IF class = "DATA" THEN {END_STREAM, END_HEADERS} ELSE {}

\* Whatever an application has called on a frame, and however often it has sent it
\* before (a CONTINUATION frame once), a conveyable frame that RecvFrame returns has the
\* members and the flags that were asked for, with these exceptions.  A DATA frame may
\* have END_STREAM although it was cleared, never the reverse, and nothing is said of its
\* END_HEADERS.  A padded frame lacks as many octets of its data as it is padded by, for
\* the padding is never written.  The header list is left to module HpackSession: it
\* depends on the tables.
FrameArrives ==
  Arrived /\ Conveyable =>
    LET f == original.frame
        unpadded == Len(f.data) - IF Padded(f) THEN f.pad_length ELSE 0
    IN /\ received.class = f.class
       /\ received.flags \ Muddled(f.class) = original.asked \ Muddled(f.class)
       /\ END_STREAM \in original.asked => END_STREAM \in received.flags
       /\ received.stream_id = Masked(f.stream_id)
       /\ Padded(f) => received.pad_length = f.pad_length
       /\ Prioritized(f) => received.weight = f.weight /\ received.word = Masked(f.word)
       /\ f.class \in {"GOAWAY", "WINDOW_UPDATE"} => received.word = Masked(f.word)
       /\ f.class = "PING" => received.word = f.word
       /\ f.class \in {"PING", "RST_STREAM", "GOAWAY"} => received.code = f.code
       /\ received.data = SubSeq(f.data, 1, unpadded)
       /\ ACK \notin f.flags => received.settings = f.settings

\* DecodeFramePayload takes the octets of PUSH_PROMISE that it has read for data too.
Uncounted(class) == IF class = "PUSH_PROMISE" THEN 4 ELSE 0

\* The padding of the frame is taken from its header block.
BlockIsCut(f) == f.class = "HEADERS" /\ Padded(f) /\ f.pad_length > 0

\* RecvFrame returns whatever was sent but for padding: it hangs exactly if a frame (made
\* by a default constructor: the others are taken for SETTINGS) is padded by more octets
\* than are taken for its data, and it throws only for a HEADERS frame whose block is cut.
ReturnsUnlessPadded ==
  received # None =>
    LET f == original.frame IN
      /\ received = Hung <=> /\ original.made = "default" /\ Padded(f)
                             /\ f.pad_length > Len(f.data) + Uncounted(f.class)
      /\ received = Aborted => original.made = "default" /\ BlockIsCut(f)

\* Decoding reads no memory behind the payload for data, but for PUSH_PROMISE, and there
\* at most four octets, at the end; and none behind the header block for its strings,
\* unless the block is cut.
ReadsThePayload ==
  Arrived =>
    LET f == original.frame IN
      /\ Len(received.data) <= Len(f.data) + Uncounted(received.class)
      /\ \A k \in DOMAIN received.data : received.data[k] = Stray => k > Len(f.data)
      /\ received.list = Overread => BlockIsCut(f)

\* length() of a frame that was sent is what its header says, if it is not padded, its
\* flags were set by the methods that update it, and it is not a PRIORITY, PING or
\* WINDOW_UPDATE frame made by a constructor with arguments.  length() of a frame that
\* was received always is, if it was made by a default constructor or is SETTINGS, but
\* for PUSH_PROMISE and for settings that arrive changed.
LengthsAgree ==
  original # None =>
    LET f == original.frame
        default == original.made = "default"
        length == Len(EncodePayload(f))
    IN /\ /\ default \/ f.class \notin {"PRIORITY", "PING", "WINDOW_UPDATE"}
          /\ ~original.raw /\ ~Padded(f)
          => f.length = length
       /\ /\ Arrived
          /\ default \/ f.class = "SETTINGS"
          /\ f.class # "PUSH_PROMISE"
          /\ f.class = "SETTINGS" => Portable(f.settings)
          => received.length = length

=============================================================================
