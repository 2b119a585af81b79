# lhttp2 in TLA+

TLA+ modules, TLC configurations and TLAPS proofs about lhttp2, a small C++ implementation of
HTTP/2 frames, connections and HPACK header compression. The code is in `src/` of the repository;
every definition here is translated from it, and `PROJECT.json` says from which lines.

The library is unfinished: it has no tests, some declared members have no definition
(`Server::Listen`, the members of `HeaderField`), and `hpack.cc:288` names the member function
`Name` without calling it. The modules read such places as what they plainly mean.

## 1. The system

| Part | State | Operations | Talks to |
|---|---|---|---|
| `hpack::Table` (`hpack/hpack.cc`, `hpack.h`) | `dynamic_table_`, `dynamic_table_size_max_` | `Encode`, `Decode`, `Update`, `UpdateSize`, `Find` | the peer's `Table`, through header blocks; `Huffman`; `Buffer` |
| HPACK integers (`hpack.cc:78-120`) | loop variables | `EncodeInteger`, `DecodeInteger` | `Buffer` |
| `Huffman` (`hpack/huffman.cc`) | the tree, built once | `Encode`, `Decode` | `Table` |
| `Buffer` (`buffer/buffer.cc`) | octets, length, capacity | `Append`, `Set`, `Get`, `Resize`, ... | everything |
| `Frame` and ten frame classes (`frame.cc`, `frame.h`) | header fields and payload of each | `SendFrame`, `RecvFrame`, `EncodeFramePayload`, `DecodeFramePayload`, setters | a socket; a `Table`; `Buffer` |
| `Settings` (`settings.h`, `settings.cc`) | six values | getters, setters | `SettingsFrame`, `Connection` |
| `Connection` (`connection.cc`, `connection.h`) | descriptor, settings, one `Table`, streams | two constructors (client, server), `SendFrame`, `RecvFrame`, `SetSettings`, `AllocateStream` | a socket; `Frame`; `Table` |
| `Stream` (`stream.cc`) | a status | getter, setter | `Connection` |
| `error.h` | - | an enumeration nothing uses | - |

There are no threads and no callbacks. What runs concurrently is the two endpoints, each a single
thread that blocks in `read`; what fails is the stream between them (short reads, an end that
closes) and the calls an application makes in an unexpected order. The hard behaviours are

- **two tables that must move in step**: the encoder's table is not advanced by `Encode`; the
  application advances it with `Update`, while frames are in flight and the peer decodes earlier
  ones. An index found before a list is sent is used by the peer in the middle of that list.
- **a stream read in two unrepeated reads**: `RecvFrame` never asks again for what a read did not
  return, so everything depends on where the stream is cut.
- **constructors that block**: the server's constructor performs the handshake, and nobody can
  tell from outside how it ended.
- **octets that are signed**: lengths, integers and settings are put together from `char`s.

What makes each part correct:

| Part | Properties |
|---|---|
| integers | an integer read back is the one written, wherever it lies in a block; the decoder stops where the encoder did; a block cut inside an integer does not yield another integer |
| table | bounded by its size in every state; index `STATIC_TABLE_SIZE + k` denotes the insertion `k` before the last one; list and table agree when a block is given up |
| header lists | a field is decoded as it was sent; the receiver's table is always one the sender's has been; lists arrive once and in order |
| frames | up to the first `nullptr`, frames are returned as sent and in order; `nullptr` only at the end of the stream; every frame is returned in the end |
| settings | the server has what the client was constructed with |
| frame objects | a frame that can be conveyed arrives as it was set; `RecvFrame` returns unless padding prevents it; a payload and a header block are read within their octets; header and payload agree on the length |
| Huffman | decoding inverts the code and loses no bit; encoding returns, within the length of the code |
| buffers | every object is a string of octets of its own; no memory is lost; none is freed twice or read after it was freed, as long as the compiler makes no copies |
| connection | a good client is accepted; the acknowledgement means adopted settings; the server's constructor ends; a frame passed to `SendFrame` enters the stream (it does not) |

## 2. The modules

```
HpackFormat --- HpackInteger                      octets of integers
     |
  HpackOps ---- HpackTable                        one Table
     |
     \--------- HpackSession --- HeaderChannel    two endpoints, HEADERS frames between them
     Peers -------/
       \
      Socket --- FrameStream --- Connection       octet stream, frames, handshake
                                 /
                    SettingsCodec --- FrameCodec --- FrameObjects    payloads, frame classes
                                     /
     HpackFormat --- HeaderBlock ---/             octets of header blocks

 OctetStrings --- Buffers                         memory under all of it

 Huffman                                          tree, Encode, Decode
```

A line downwards or to the right is EXTENDS, except that HeaderChannel and OctetStrings are
instantiated, as the abstract specifications that HpackSession and Buffers implement. `MC...`
modules give the constants their values for TLC. The theorems about a module `X` are in `XProofs`,
which extends it: HpackIntegerProofs, HpackTableProofs, HpackSessionProofs, FrameStreamProofs,
ConnectionProofs, FrameObjectsProofs, BuffersProofs and HuffmanProofs.

**HpackInteger** runs `EncodeInteger` and then `DecodeInteger`, an iteration of a loop per step, on
a block with other octets before the integer. `Resize` exposes octets nobody wrote (`StaleOctets`);
`CutBlock` ends the block early, as a header block split over HEADERS and CONTINUATION does. Its
result is the operator `Carried` of **HpackFormat**, which the other modules use for what becomes
of an index: the run checks that `Carried` is what the two routines compute.

**HeaderBlock** is how `Table::Decode` walks through the octets of a block: `IntegerAt` is `DecodeInteger`
as one operator (the run `hpack_integer` checks it against the loop), `FieldAt` an iteration with the strings
it takes from the block, `Outside` those of them that are not in the block. A string of which nothing
is left is built of `nullptr`, and `std::string` throws (`MayAbort`); one that is cut is read from
the memory behind (`MayOverread`). The strings of a block that is not cut are inside it. Whether
an index is in the dynamic table is not known here (`unsure`), so that `Decode` may also have given up before.

**HpackOps** has the members of `hpack::Table` as operators: `Find` (an empty value is a wildcard),
`Encode` (all of a list with the table as it was before it; an `indexed` field that nothing matches
is encoded as an incremental literal), the iteration of `Decode` (`Undecodable`, `DecodedEntry`,
`TableAfter`, `MaxAfter`) and of `Update` (`UpdatedTable`). A dynamic table is a sequence of
entries; it is bounded by their number, as in the code. Names and values are atoms; `""` is the
empty string. `StringSent` is what Huffman coding makes of a string: `Encode` passes the *length*
of the string to `Huffman::Encode`, so nothing is left of it.

**HpackTable** is one `Table` under a peer that may send any block. `dynamic_table_size_max_` starts
with an arbitrary value because no constructor sets it. `DecodeFail` returns from the middle of a
block without undoing anything, as the code does.

**HpackSession** is two endpoints and the HEADERS frames between them. `SendHeaders` is
`Frame::SendFrame`, `UpdateField`/`UpdateReturn` the loop of `Update`, `RecvHeaders`,
`DecodeField`, `DecodeFail`, `DecodeReturn` those of `RecvFrame` and `Decode`; the result of
`Decode` is ignored, as in `frame.cc:128`. How the tables are used is up to the application, so
the rules it keeps to are the constant `Discipline`; a run or a theorem says which it needs.
**HeaderChannel** is the abstract specification: header lists arrive once, in order, as sent.
`DeliversLists` states that HpackSession implements it. The rules:

- *separate*: an application keeps one `Table` for sending and another for receiving. The code gives
  a `Connection` only one, `hpack_table_`; without the rule that is what is modelled;
- *turns*: a list is sent only when nothing is in flight and the peer is not sending, which is what one `Table` for both
  directions takes;
- *update*: `Update` follows each `Encode`; *agree*: table sizes change on both sides at once, while
  nothing is in flight; *plain*: no Huffman coding; *valued*: an indexed field has a value; *known*:
  an indexed field is in a table; *fixed*: a list that inserts does not also use the dynamic table.

**Socket** is the operating system's stream (external). The octets of a stream are known by their
position; `CutSets` says at which offsets inside a message a piece may end, `{}` meaning that
messages arrive whole; a read returns at most `MaxRead` octets, as `::read` on Linux does. **FrameStream** is `SendFrame` and the two reads of `RecvFrame`, a step each.

**SettingsCodec** has the settings and the SETTINGS payload, with a value as its four octets because
decoding treats them differently (`Widened`). **Connection** composes FrameStream and SettingsCodec:
the two constructors step by step, then every member that changes state, called at any time: the
application cannot tell whether the constructor has closed the descriptor. `ChangeSettings` is the
application's use of the reference that `Settings()` returns. `ConnectionSendFrame` looks the stream
up in `streams_`, which no statement of the repository fills, and drops the frame: `PriorityIsSent` is violated.

**FrameCodec** has the ten frame classes as one kind of record (members that differ only in name
share a field) and `EncodePayload`, `DecodePayload` and `UpdateLength` as operators; the octets of a
word are kept apart because decoding widens the signed ones (`Widened`). The header blocks that
`Table::Encode` may make of a list, with any table and any use of Huffman coding, are the parameter
`Encodings`; lists may share blocks. What `Table::Decode` makes of a block is a set: any list that has
the block, some other list (`Garbled`), one with memory behind the block in it (`Overread`), or no return at
all (`Aborted`), as HeaderBlock says for the octets at hand. **FrameObjects** is an application that builds
a frame with either constructor, calls setters, flag members and the public `set_flags`/`clear_flags`,
sends it, goes on setting, sends it again, and deletes it, and a peer that receives it. What a class does not
initialize (`Uninitialized`) is an arbitrary word. A constructor with arguments calls the default one as a
statement: `type_` and the fixed length stay those of `Frame`. Padding is announced and never written, as in
the code. A CONTINUATION frame that was sent still exists but its fragment has been `freed`; what
touches the fragment then, sending or destroying it included, ends the program (`UseFreed`), for nothing is defined.

**Buffers** is `struct Buffer`: objects with a pointer, a length and a capacity, and blocks of memory,
each of its constructors and members an action. An object is also copied by the compiler, member by
member (`CopyConstruct`: parameters of type `Buffer`, results by value); the objects that may share
memory since are `mates`. `huge` records that a call asked for a capacity beyond half of 32 bits,
where doubling ends at 0 (`Grown`: the loop does not end); `fault` that memory was read or freed that
the object does not own, after which nothing is defined. **OctetStrings** is what a `Buffer`
promises: strings of octets, each changed by its own calls only. `StringsOfTheirOwn` states that
Buffers implements it.

**Huffman** has the tree as the paths of its nodes, as the constructor inserts them, for a code that is
prefix-free and whose EOS begins with an octet of ones (`CodeAssumption`; in `huffman.cc:77` EOS is 30
ones): padding never completes a character. It has calls of
`Encode` and `Decode`, an iteration of the inner loop per step. `Decode` walks the tree bit by bit.
`Encode` is modelled as it stands: it shifts the wrong value, subtracts what it has just set to 0 and
drops the last octet, so it is not an inverse of `Decode`, and no property says so; the code's own
length for a negative character is whatever precedes the array (`StrayLen`).

Each definition with a name like `AppendAtBack` or `OpeningBare` that stands before a definition it
resembles is a slip that the code could have had; it is used to see that a property notices it
(`PROJECT.json`, `mutants`), and by nothing else.

## 3. The runs

| Run | Checks | Distinct states |
|---|---|---|
| `hpack_integer` | `CarriedInteger`, `NothingLeftOver`, `RoomSuffices`, `ReadAsReferred` | 165 k |
| `hpack_table` | `TypeOK`, `SizeBounded`, `NewestFirst`, `ListAndTableAgree` | 556 k |
| `session_mirror` | `TypeOK`, `DecodesAsSent`, `TablesInStep`, `DeliversLists` | 456 k |
| `session_adrift` | `OnlyDynamicFieldsSuffer` | 1.4 M |
| `session_turns` | `TablesAgreeWhenQuiet`, `DeliversLists` | 65 k |
| `frame_stream` | `InOrderUntilFailure`, `FailsOnlyAtEnd`, `EveryFrameReturned` | 91 k |
| `stream_long` | `LengthsAreRead`, violated | - |
| `handshake` | `TypeOK`, `ClientIsAccepted`, `AckMeansAdopted`, `AdoptsWhatTheClientHas`, `HandshakeCompletes`, `ConstructorEnds` | 278 k |
| `priority_dropped` | `PriorityIsSent`, violated | - |
| `frames` | `FrameArrives`, `ReturnsUnlessPadded`, `ReadsThePayload`, `LengthsAgree` | 384 k |
| `buffers` | `TypeOK`, `OwnBlock`, `NothingLeaks`, `SafeUnlessCopiedOrHuge`, `StringsOfTheirOwn` | 33 k |
| `huffman` | `DecodesTheText`, `ReadsEveryBit`, `RefusesNothing`, `EncodedFits`, `Returns` | 51 k |

What they show, and why their bounds are enough:

- `hpack_integer`: every prefix, the integers around each limit (the prefix, one and two continuation
  octets, where `Resize` reserves more than is written), positions before and across octet 128, where
  the decoder's `offset & 127` wraps. An integer is carried up to the prefix plus 127; one with two
  continuation octets loses 128. In that range the decoder stops exactly where the encoder did. Everywhere
  the loop agrees with `IntegerAt`, except for sums that come out negative.
- `hpack_table`: blocks of up to two representations out of every kind, with indices into both tables,
  between them and beyond; sizes 0, 1, 2; four insertions, so that entries are evicted while others
  shift. `Update` and `UpdateSize` come between blocks, also after a failed one.
- `session_mirror`: all rules but "turns" kept; two frames in flight and a list of two fields in the
  making, so that `Update` and the peer's `Decode` interleave inside lists; tables of 1 and 2 entries,
  so that entries in use are evicted. One direction, since with separate tables the other cannot
  interfere.
- `session_adrift`: sizes change on one side only and unknown `indexed` fields are sent: blocks fail,
  tables part, and still no field suffers but those encoded with an index of the dynamic table. This
  is also what becomes of a `Connection` whose server adopts a HEADER_TABLE_SIZE that its table is
  not told.
- `session_turns`: one `Table` for both directions, as in `Connection`, and applications that take
  turns; both insert and both use what the other inserted, tables of 1 and 2 entries. Lists arrive, and
  whenever nothing is in flight the two tables are equal.
- `frame_stream`: two frames out of four (the shortest, one of 3 octets, one of 127 octets, one of a
  type that the code does not know) and four calls of `RecvFrame`, so that calls go on after a failure;
  the stream is whole, or cut inside the header, behind it and inside the payload. What nine octets
  that are no header may be read as is `Garbage`: a short frame, one longer than the stream, one of an
  unknown type. Either side may close at any time.
- `handshake`: settings at their defaults (an empty payload), several off them at once, and not
  portable; the opening of another protocol and one with another first frame; messages whole, or cut
  inside the preface, between header and payload and inside it; one call of `SendFrame` for stream 0 or
  1, and any of the other members between any two steps. `priority_dropped` has the same Connections, two
  of this library on a stream that delivers messages whole, and the idle stream 3.
- `frames`: three calls before a frame is sent, and again before it is sent once more: a constructor
  and two calls, or three calls on what was sent before. Words with and without a high bit and with
  a negative character inside; padding 0 and 1; data of one octet and of two, one of them negative; two
  lists that are encoded literally or by one and the same index, so that padding of one octet leaves a
  literal whose value is at the end of the block, a literal whose value is cut, or nothing of an index;
  settings that are portable and that are not; the raw flags ACK and PADDED.
- `buffers`: three objects (interchangeable) and four blocks of memory, so that an object is copied, a
  copy reallocated and a third one built from it; capacities that double from 2 up to a limit of 8
  in place of 8 and 2^32; strings, sizes and offsets below, at and beyond a capacity; five calls, which
  is what a double release takes with an object to spare.
- `huffman`: octets of 3 bits and a complete prefix-free code with lengths 2 to 6, so that codes are
  shorter and longer than an octet and end at each of its bits; every text and block of up to 3 octets.

Deadlock is checked in the runs of tables, sessions and frame objects. The integer and Huffman runs
end by themselves; a `Buffer` has no further call after a fault or at the bound; in the runs of the
frame stream and the connection the bounds on messages and calls are reached and both sides rest.

Bounds are constants and appear in guards: `MaxInput`, `MaxKept`, `MaxInserted`, `MaxInFlight`,
`MaxSent`, `MaxReturned`, `MaxRequests`, `MaxCalls`.

### Where code and documentation part

`stream_long` shows that the 24-bit length of a frame (`frame.h:37`) is not read as such: it is put
together from signed chars, and a frame with a payload of 128 octets is never returned.

`priority_dropped` shows that PRIORITY cannot "be sent in any stream state, including idle or closed
streams" (`frame.h:222`): `Connection::SendFrame` (`connection.cc:54`) drops it, and every other frame,
because `streams_` is empty for ever.

The modules say the same of three more statements, in definitions and preconditions rather than in runs
of their own:

- an index is not carried for any integer (`hpack_binary_format.txt:56`): `DecodeInteger` adds whole
  octets, so only integers up to the prefix plus 127 are, and only while `offset & 127` is the offset
  (`CarriedInteger`, `Carried`);
- a string with Huffman coding arrives empty (`hpack_binary_format.txt:32`): `Encode` passes the length
  of the string for the string (`StringSent`, rule "plain");
- a client that starts with the 24 octets of the preface (`connection.cc:9`) is turned away when they
  arrive in two pieces (`ClientIsAccepted` presumes a stream delivered whole).

The preconditions of the passing properties are named: frames of known types with short lengths
(`OrdinaryFrames`), settings without octets above 127 (`Portable`), frames whose members the code can
convey (`Conveyable`: of a default constructor or settings, no PUSH_PROMISE, the bits E and R not set, no
octet above 127 in a word behind its first, portable settings without raw flags), and objects that are
neither compiler copies nor larger than half of 32 bits (`SafeUnlessCopiedOrHuge`). The other limits of the frame
objects are in the formulas:

- `FrameArrives`: `clear_end_stream_flag` of DataFrame clears END_HEADERS (`frame.cc:234-236`), so of DATA
  only a lost END_STREAM would be a violation; a padded frame lacks as many octets of its data as it is
  padded by; header lists are not compared, since what a block means depends on the tables; a CONTINUATION
  frame is sent once.
- `ReturnsUnlessPadded`: `RecvFrame` hangs for more padding than data, and exactly then; it throws only for
  HEADERS whose block is cut by padding (`hpack.cc:299`, `311`).
- `ReadsThePayload`: a PUSH_PROMISE takes up to four octets from behind the payload (`frame.cc:847`), and a cut
  header block strings from behind it.
- `LengthsAgree`: of a frame that was sent, not padded, without raw flags, and not a PRIORITY, PING or
  WINDOW_UPDATE frame made with arguments, whose `length_` stays 0 (`frame.cc:486-491`); of a frame that arrived,
  made by a default constructor or SETTINGS, portable, and no PUSH_PROMISE.

## 4. Fairness

- `Huffman`: weak fairness of the steps of a routine that was called, which is sequential code.
- `FrameStream`: the network delivers what was written, a call of `RecvFrame` runs on when its read can
  return, and applications keep calling `RecvFrame`. Sending and closing are never forced.
- `Connection`: the network delivers and constructors run on. Nothing is assumed of applications.

No strong fairness is needed: none of these steps, once possible, is made impossible by others for long.

## 5. The proofs

TLAPS proves these for every value of the constants: every static table, any names and values, any
header lists and sizes, any number of frames in flight; any cuts, frames and calls; any settings and
words; any objects, strings, capacities and limit; any prefix-free code. Every invariant and every
action property that a passing run checks is a theorem here, and so are the two refinements; the one
exception is `ReadAsReferred`, which compares two ways of reading an integer.

| Module | Theorem | Says |
|---|---|---|
| `HpackIntegerProofs` | `TypeCorrect` | `Spec => []TypeOK` |
| | `RoomIsEnough` | `Spec => []RoomSuffices`: what `Resize` reserves holds every integer |
| | `IntegersCarried` | `Spec => []CarriedInteger`: below the prefix plus 256, in the first 128 octets of a block, `Carried` is what the two loops compute |
| | `BothStopTogether` | `Spec => []NothingLeftOver` |
| `HpackTableProofs` | `TypeCorrect` | `Spec => []TypeOK` |
| | `SizeIsBounded` | `Spec => []SizeBounded`: whatever a peer sends, the table has at most as many entries as its size |
| | `TableIsNewestFirst` | `Spec => []NewestFirst`: the table is the newest part of the insertions |
| | `ListFollowsTable` | `Spec => []ListAndTableAgree`: also of a block given up half-way, list and table have the same part |
| `HpackSessionProofs` | `TypeCorrect` | `Spec => []TypeOK`, under any rules |
| | `TablesKeepStep` | `Careful` implies `Spec => []TablesInStep` |
| | `FieldsArrive` | `Careful` implies `Spec => []DecodesAsSent` |
| | `QuietTablesAgree` | `Careful` implies `Spec => []QuiescentTablesAgree` |
| | `TurnsAgree` | `TakingTurns` implies `Spec => []TablesAgreeWhenQuiet` |
| | `DriftIsConfined` | "plain" and "valued" alone imply `Spec => []OnlyDynamicFieldsSuffer` |
| | `ChannelImplemented` | `Careful` implies `Spec => DeliversLists`: the sessions implement `HeaderChannel` |
| | `ChannelByTurns` | so does `TakingTurns`, with one `Table` per endpoint |
| | `ChannelWithoutUpdate` | and so does `WithoutUpdate`, with tables that differ |
| `FrameStreamProofs` | `FramesInOrder` | `FramesSpec => []InOrderUntilFailure`: any frames, any cuts of the stream, any number of calls |
| | `FailuresAtEnd` | `FramesSpec => []FailsOnlyAtEnd` |
| `ConnectionProofs` | `SettingsRoundTrip` | portable settings survive their payload, for all six values |
| | `TypeCorrect` | `Spec => []TypeOK` |
| | `AckIsHonest` | `Spec => []AckMeansAdopted` |
| | `GoodClientAccepted` | `Spec => []ClientIsAccepted` |
| | `SettingsAdopted` | `Spec => AdoptsWhatTheClientHas`, a property of steps |
| `FrameObjectsProofs` | `TypeCorrect` | `Spec => []TypeOK`, of all ten classes |
| | `FramesReturn` | `Spec => []ReturnsUnlessPadded`: when exactly it hangs, and when only it may throw |
| | `PayloadsRead` | `Spec => []ReadsThePayload` |
| | `LengthsCorrect` | `Spec => []LengthsAgree` |
| | `FramesArrive` | `Spec => []FrameArrives` |
| `BuffersProofs` | `TypeCorrect` | `Spec => []TypeOK` |
| | `BlocksAreOwned` | `Spec => []OwnBlock`: an object that was not copied has a block to itself, of the capacity it believes in |
| | `NothingIsLost` | `Spec => []NothingLeaks`: every block is some object's |
| | `CallsAreSafe` | `Spec => []SafeUnlessCopiedOrHuge` |
| | `StringsImplemented` | `Spec => StringsOfTheirOwn`: Buffers implements `OctetStrings` |
| `HuffmanProofs` | `TypeCorrect` | `Spec => []TypeOK` |
| | `NothingIsRefused` | `Spec => []RefusesNothing` |
| | `EveryBitIsRead` | `Spec => []ReadsEveryBit` |
| | `TextsAreDecoded` | `Spec => []DecodesTheText` |
| | `EncodingFits` | `Spec => []EncodedFits` |

**Assumptions.** Most say what types the constants have: `StaticTableAssumption`,
`EmptyStringAssumption`, `TableAssumption`, `SessionAssumption`, `InputsAssumption` (with the 2^21 up
to which the model's loops are bounded), `CutSetsAssumption`, `FrameStreamAssumption`,
`ConnectionAssumption`, `FrameObjectsAssumption`, `BuffersAssumption`, `NoneAssumption` and
`InputAssumption`. Those that say more are

- `PayloadsAssumption`: the payloads of the instance include those of the handshake, and list settings
  by known identifiers;
- `EncodingsAssumption`: every list can be encoded, the empty one as the empty block; and the strings of a block
  are inside it, which is what `Table::Encode` writes as long as no name or value has a NUL and the lengths of
  strings are carried (`IntegersCarried`);
- `GrownAssumption`: doubling from the smallest capacity yields a capacity for every length up to
  half of the limit;
- `CodeAssumption`: the code is prefix-free and its EOS begins with an octet of ones.

TLC evaluates each on its instance. The session theorems have hypotheses besides, on the rules that
the applications keep to, and all but one are satisfied by the run named:

- `Careful` (`session_mirror`): all rules but "turns", and the static table and a dynamic one together have
  less than 143 entries (`Roomy`): from 127 + 2^4 on, an index under the 4-bit prefix is not carried.
  With the 61 entries of `hpack.cc` a dynamic table may have 81;
- `TakingTurns` (`session_turns`): "turns" instead of "separate", the rest as above;
- `WithoutUpdate`: "separate", "plain", "valued", and no `Update`; sizes are free. It has no run, for its sender's
  tables stay empty: `session_adrift` without "update" satisfies it;
- `DriftIsConfined` (`session_adrift`): "plain", "valued" and `Roomy`, nothing else.

The session theorems are stated with `Carried`; where an integer lies in its block is abstracted there.
`IntegersCarried` says what `Carried` is worth within the first 128 octets of a block, so together they
speak of header blocks of up to 128 octets.

**How induction is done.** An invariant of a loop is an invariant of the module, since an iteration is a
step: the integers, `Decode` and `Encode` need no other induction. What is recursive by nature (the
concatenation of codes) is a recursive function of the community modules, and a fact about it is proved
by its least counterexample: `LeastNatural` takes the one element of a set of naturals that no other is
below, from the well-foundedness of `<` in the library. The library's induction theorems with an operator as
parameter are not used.

**One integer.** `RoomSuffices` is inductive with the types once `RoomLeft` says that the octets reserved
cover the septets still to be written. `Exact` has a conjunct for each part of the way: `Encoding`
counts the octets by what is left to write, `Block` says what the block holds then, octet by octet (one,
two or three of them: below the prefix plus 256 there are no more), and `Decoding` what the accumulator is
after each of them. `Carried` then follows by arithmetic, 128 lost where there are two continuations.

**One table.** `SizeBounded` and `NewestFirst` are inductive together with types; each insertion,
eviction and size change takes a prefix of the insertions to another one (`AppendShifts`, `FitPrefix`).
`ListAndTableAgree` is inductive as it stands; the steps that matter are those that push a field and insert
an entry, where both sides grow by the same one.

**Two tables.** `DecodesAsSent` is far from inductive: that the receiver's table gives an index the
meaning the sender's had depends on every frame between them. The strengthening is `TablesInStep`,
which TLC checks too. A frame carries, as history, the sender's tables before and after each iteration
of `Update`; `SenderInStep` says that the sender is at the last of them, `WireInStep` that each frame
starts with the table at which the one before it ended, `ReceiverInStep` that the receiver, `n` fields
into a frame, has the table the sender had after `n` fields. Each action affects one direction (`SendStep`
to `DecodeReturnStep`) and leaves the other alone (`Unaffected`). The two places where the argument meets
the code's rules are `FieldRoundTrips`, which takes one field through `Encode` and `Decode`, and the last
conjunct of `FrameInStep`: tables of a frame differ only behind an incremental field, where the rule
"fixed" permits no dynamic index. Decoding cannot fail, so `DecodeFail` is impossible.

**One table each, in turns.** With a shared `Table` a direction is in step only while the other rests.
`InTurn` says that one endpoint is `Active`: its direction is in step as above, and the other has nothing in
the making, in flight or being decoded. The lemmas on a step of one direction are the same; `TurnPasses` is the new one: when
nothing is in flight either endpoint may be taken for the active one.

**Tables adrift.** Nothing relates the two tables here. What remains is `Sound(n)`, that a frame is what
`Encode` made of its list with a table of at most `n` entries, whatever has become of that table since,
and `Short`, that no table is longer than `Roomy` allows. `StaticFieldArrives` shows from it that a
field which was sent literally, or with an index that the static table covers, means the same with any
table. Without `Update` (`Bare`) the sender's table is always empty, `Sound(0)` holds, and every field
is such a field.

**The channel.** `Flights` maps the frames in flight to their lists. `UpdateReturn` maps to `Send`,
`DecodeReturn` to `Deliver`, everything else stutters. What `Deliver` needs is `Faithful`: decoding
does not fail, and the list it has put together is the one at the head. Each of the three sets of
rules implies it in its own way, and `ChannelFollows` takes all three from there.

**The stream of frames.** Both properties are about what was sent, and the code knows only how many
octets it read. The inductive invariant is `IInv`. `Laid` says how messages lie in a stream: `LaidOut`, one
directly behind the other, and `Whole`, which lets a piece end inside a message only if this
behaviour may cut it. `InStep` says what a reader that has not failed yet knows: what it has returned is
the beginning of what was sent, and it has consumed exactly the octets of that, and of the header
if it is between its two reads. The induction then has one lemma per action. That the nine octets of a
header, when a read returns all of them, are those of the next frame follows from `LaidOut`; that a
read returns them all unless the stream ends takes `Whole` too, and is what `FailsOnlyAtEnd` rests on.
`MaxLength` and `MaxRead` are the numbers of the code and of the system.

**The handshake.** The layout of a whole stream is not needed, only that of the first two messages of a
client and the one of a server. `ClientStream` says where they lie and that nothing but the opening is
sent, `ServerStream` that there is at most the acknowledgement and only of a server that is ready.
`ServerReads` and `ClientReads` say what the constructors have made of the other stream so far, for
as long as it matters, and `Good` what is known in addition of a client of this library whose messages
arrive whole. Every member that an application may call in between is a case of the induction. The
property of steps takes one more argument, `SettingsRoundTrip`, which is by values: a setting that has its
default is not in the payload, and a portable one is put together again from its four octets.

**Frame objects.** The calls of an application are collected in `Building`: whatever setters were called,
a frame is an object of its class (`Proper`), with the length that `UpdateLength` gives it if its flags were
never set raw. `Sent` says that what is on the wire is the encoding of the frame as it was when it was
sent and what was received is an `Outcome` of decoding that. The theorems are then facts about
`EncodePayload` and `DecodePayload`, class by class and flag by flag, of any words. What padding leaves of a header block is
all of it unless it is announced (`BlockIsCut`), and of a whole block no string is outside, so that `Decode`
neither throws nor reads too far. Only the payload of
SETTINGS has no fixed layout: `Layout` and `LayoutGrows` say where each setting is found, counting those
with smaller identifiers.

**Memory.** `OwnBlock` is inductive together with types and `WithinCapacity` (no object, not even a copy,
is longer than the capacity it believes in): `Intact`. A call stores into the block of one object, or moves it
to a new block; the lemmas on `StoreInPlace` and `StoreReallocated` say so once and each member
follows. `NothingLeaks` is kept because a block is released with the last step that gives its object another
(`LeakStep`). For `SafeUnlessCopiedOrHuge` the proof shows of each member that doubling ends
(`SmallCallsEnd`) and that what it reads and frees is its own (`Harmless`). The refinement takes the octets of
an object's block up to its length for the string it is; `Intact` gives that a store changes the
string of its object as `OctetStrings` says and, the blocks being owned, no other string. Calls on objects
whose memory is shared, or after a fault, are free in the abstract specification too.

**Huffman coding.** `Place` says where both routines are: a node inside the tree that is no
character's, a position inside the input. `ReadsEveryBit` and `RefusesNothing` are inductive with it.
`DecodesTheText` takes `Following`: the target is the beginning of the text and the node lies on the
path of the next character, or, behind the last one, on that of the ones; the lemma `NextBit` finds the
next bit of the octets in the concatenation of codes, and prefix-freedom that no other character ends there.
`EncodedFits` takes `Written`: `append_remain` is never less than an octet, so that each octet appended takes a whole one's
bits from the codes so far.

### Only model-checked

Liveness (`EveryFrameReturned`, `HandshakeCompletes`, `ConstructorEnds`, `Returns`): TLAPS
1.4 does not reason about fairness. That `IntegerAt` is the loop of `DecodeInteger` (`ReadAsReferred`): both are
functions of the same octets, and TLC compares them at every limit. That `LengthsAreRead` and `PriorityIsSent` fail
are findings of runs; there is nothing to prove about them.

## 6. What is not modelled

- What destroys the Huffman tree: the destructor's loop never removes from its queue, so the process does
  not end well after it; `Decode` before the first `GetInstance`, when `root_` is not set. The real table
  of 257 codes is prefix-free and complete (the sum of 2^-length is 1) and EOS is 30 ones, so what the
  module assumes of `Code` is true of it; the instance has a smaller code of the same kind.
- The members of `Buffer` that only read (`Get`, `GetValue`): where a value is put together from octets,
  FrameCodec, SettingsCodec and HpackInteger do so.
- NUL characters inside names and values, which `c_str()` cuts off: strings are atoms.
- `Stream::window_size_`, `Connection::use_huffman_`, `error.h`: nothing reads them.
- `Server`, `Client` and `HeaderField` members that are declared without a definition; the example and
  the build files.
- Debug output, and descriptors below 0.
- A composition of Connection with HpackSession: a `Connection` never sends a frame (`priority_dropped`), so no
  header list reaches the other side through one; what its single table and its table size would do
  are `session_turns` and `session_adrift`.

## 7. Plan

Every invariant, action property and refinement that a passing run checks is proved, but for `ReadAsReferred`. What is left:

1. Proofs whose leaves are larger than their idea, most of all in FrameObjectsProofs and
   HuffmanProofs, broken into lemmas with names.
2. The types of FrameStream as a theorem of its own; its invariant has them as conjuncts.
3. A decoder that lags or fails: how far two tables may differ after a block was given up in the
   middle, stated in general rather than through the fields that do not suffer.
