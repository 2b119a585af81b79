---------------------------- MODULE HeaderBlock ----------------------------
(***************************************************************************)
(* How Table::Decode (src/hpack/hpack.cc) walks through the octets of a    *)
(* header block: where each representation begins and which octets it      *)
(* takes for strings.  What the fields then are depends on the table, and  *)
(* is in module HpackSession; whether the strings lie in the block does    *)
(* not.                                                                    *)
(***************************************************************************)
EXTENDS HpackFormat, SequencesExt

STATIC_TABLE_SIZE == 62

\* buff.Get(at)
Get(block, at) == IF at < Len(block) THEN block[at + 1] ELSE 0

\* uint32_t arithmetic; TLC has no number above 2^31 - 1.
Unsigned(n) == IF n \in 0 .. 2147483647 THEN n ELSE n % 2^32

\* DecodeInteger: the integer at an offset, and the offset behind it.  It is 0 if the
\* block ends before it does.  Continuation octets are read at offset & 127 (module
\* HpackInteger).
IntegerAt(block, at, prefix) ==
  LET max == PrefixMax[prefix]
      first == Get(block, at) % (max + 1)
      lasts == {k \in (at + 1) .. (Len(block) - 1) : block[k + 1] < 128}
      last == Min(lasts)
      sum[k \in at .. last] ==
        IF k = at THEN max
        ELSE sum[k - 1] + SignedChar(Get(block, k % 128)) * 128 ^ (k - at - 1)
  IN CASE first < max                -> [value |-> first, next |-> at + 1]
       [] first = max /\ lasts = {}  -> [value |-> 0, next |-> Len(block)]
       [] first = max /\ lasts # {}  -> [value |-> Unsigned(sum[last]), next |-> last + 1]

\* A string: its length is an integer before it.
StringAt(block, at) ==
  LET length == IntegerAt(block, at, 7)
  IN [at |-> length.next, end |-> length.next + length.value]

\* An iteration of the loop: the strings it makes of the block, and where the next one
\* begins.  Index 0 ends the loop; an index beyond the static table may, depending on
\* the dynamic one.
FieldAt(block, at) ==
  LET first == Get(block, at)
      sized == first \in 32 .. 63
      literal == first < 128 /\ ~sized
      prefix == IF first >= 128 THEN IndexPrefix.indexed
                ELSE IF first >= 64 THEN IndexPrefix.incremental
                ELSE IF sized THEN 5
                ELSE IndexPrefix.without
      index == IntegerAt(block, at, prefix)
      name == StringAt(block, index.next)
      value == StringAt(block, IF index.value = 0 THEN name.end ELSE index.next)
  IN [strings |-> CASE ~literal                     -> {}
                    [] literal /\ index.value = 0   -> {name, value}
                    [] literal /\ index.value # 0   -> {value},
      next    |-> IF literal THEN value.end
                  ELSE IF index.value = 0 /\ ~sized THEN Len(block)
                  ELSE index.next,
      unsure  |-> index.value >= STATIC_TABLE_SIZE /\ ~sized]

\* The iterations; each takes an octet at least.
FieldsOf(block) ==
  LET starts[n \in 0 .. Len(block)] ==
        IF n = 0 THEN 0
        ELSE IF starts[n - 1] < Len(block) THEN FieldAt(block, starts[n - 1]).next
        ELSE starts[n - 1]
  IN {FieldAt(block, starts[n]) : n \in {m \in 0 .. Len(block) : starts[m] < Len(block)}}

\* The strings that are not in the block.  Nothing is read after one: its end is
\* beyond the block.
Outside(block) ==
  {s \in UNION {field.strings : field \in FieldsOf(block)} : s.at < s.end /\ s.end > Len(block)}

\* buff.Address is nullptr at the end of the block: std::string throws, and so does a
\* Huffman code fail to be copied.  Before the end, memory behind the block is read.
MayAbort(block) == Outside(block) # {}
MayOverread(block) == \E s \in Outside(block) : s.at < Len(block)

\* The walk may end normally: no string is outside the block, or an index is not in the
\* table, so that Decode gives up before.
MayReturn(block) == Outside(block) = {} \/ \E field \in FieldsOf(block) : field.unsure

=============================================================================
