------------------------------ MODULE HpackOps ------------------------------
(***************************************************************************)
(* What the members of hpack::Table (src/hpack/hpack.cc) compute from a    *)
(* dynamic table, as operators without state.  Modules HpackTable and      *)
(* HpackSession make the state machines of them.                           *)
(*                                                                         *)
(* A dynamic table is a sequence of entries, the most recent one first:    *)
(* dynamic_table_[k] is element k + 1.  A header field that an application *)
(* sends is a record [type, name, value, nameHuff, valueHuff]; a           *)
(* representation on the wire is a record [kind, idx, name, value], where  *)
(* idx = 0 announces a literal name, and where kind "size" is a size       *)
(* update to idx.  Octets are abstracted (module HpackInteger has them);   *)
(* an index is Carried, because that is what the octets do to it.          *)
(***************************************************************************)
EXTENDS HpackFormat, Sequences

CONSTANTS
  StaticTable,  \* static_table[1..STATIC_TABLE_SIZE - 1]
  Names,        \* header names and
  Values        \* values; "" is the empty string

Entry == [name : Names, value : Values]

ASSUME StaticTableAssumption == StaticTable \in Seq(Entry)

ASSUME EmptyStringAssumption == "" \in Names /\ "" \in Values

Types == {"indexed", "incremental", "without", "never"}
LiteralTypes == Types \ {"indexed"}

HeaderField ==
  [type : Types, name : Names, value : Values,
   nameHuff : BOOLEAN, valueHuff : BOOLEAN]

Representation ==
  [kind : Types \union {"size"}, idx : Nat, name : Names, value : Values]

EntryOf(h) == [name |-> h.name, value |-> h.value]

STATIC_TABLE_SIZE == Len(StaticTable) + 1

\* The indices that denote an entry, and the entry each denotes.
Indices(t) == 1 .. (STATIC_TABLE_SIZE + Len(t) - 1)

EntryAt(t, i) ==
  IF i < STATIC_TABLE_SIZE THEN StaticTable[i] ELSE t[i - STATIC_TABLE_SIZE + 1]

-----------------------------------------------------------------------------

\* The first entries of t, as many as fit: what the pop_back loops leave.
Fit(t, max) == SubSeq(t, 1, IF Len(t) <= max THEN Len(t) ELSE max)

\* The table is bounded by its number of entries.
AppendUnbounded(t, max, entry) == <<entry>> \o t
AppendAtBack(t, max, entry) == Fit(Append(t, entry), max)
AppendToTable(t, max, entry) == Fit(<<entry>> \o t, max)

\* An empty value matches every value.
Matches(t, i, name, value) ==
  /\ EntryAt(t, i).name = name
  /\ value = "" \/ EntryAt(t, i).value = value

FirstMatch(t, i, name, value) ==
  /\ i \in Indices(t)
  /\ Matches(t, i, name, value)
  /\ \A j \in 1 .. (i - 1) : ~Matches(t, j, name, value)

\* The lowest index that matches, 0 if there is none.
Find(t, name, value) ==
  IF \E i \in Indices(t) : FirstMatch(t, i, name, value)
  THEN CHOOSE i \in Indices(t) : FirstMatch(t, i, name, value)
  ELSE 0

-----------------------------------------------------------------------------
(* Encode, for one field of the header list.                               *)

\* Huffman::Encode is handed the length of the string, which converts to an
\* empty Buffer of that capacity: a string sent with Huffman coding is empty.
StringSent(huff, s) == IF huff THEN "" ELSE s

\* A field of type "indexed" that no entry matches is encoded again as a
\* literal with incremental indexing.
EncodedKindForgetful(t, f) ==
  IF f.type = "indexed" /\ Find(t, f.name, f.value) = 0 THEN "incremental"
  ELSE IF f.type = "never" THEN "without"
  ELSE f.type
EncodedKind(t, f) ==
  IF f.type = "indexed" /\ Find(t, f.name, f.value) = 0 THEN "incremental"
  ELSE f.type

EncodeIndexed(t, f) ==
  [kind |-> "indexed",
   idx |-> Carried(Find(t, f.name, f.value), IndexPrefix.indexed),
   name |-> "", value |-> ""]

EncodeLiteral(t, f) ==
  LET kind == EncodedKind(t, f)
      idx == Find(t, f.name, "")
  IN [kind |-> kind,
      idx |-> Carried(idx, IndexPrefix[kind]),
      name |-> IF idx = 0 THEN StringSent(f.nameHuff, f.name) ELSE "",
      value |-> StringSent(f.valueHuff, f.value)]

EncodeField(t, f) ==
  IF EncodedKind(t, f) = "indexed" THEN EncodeIndexed(t, f)
  ELSE EncodeLiteral(t, f)

\* The whole list is encoded with the table as it was before the first field:
\* encoding inserts nothing, whatever update_table says.
Encode(t, list) == [k \in 1 .. Len(list) |-> EncodeField(t, list[k])]

-----------------------------------------------------------------------------
(* Decode, for one representation: an iteration of its loop.               *)

\* return false: index 0, or an index beyond the table.
Undecodable(t, r) ==
  \/ r.kind = "indexed" /\ r.idx \notin Indices(t)
  \/ r.kind \in LiteralTypes /\ r.idx # 0 /\ r.idx \notin Indices(t)

DecodedEntry(t, r) ==
  IF r.kind = "indexed" THEN EntryAt(t, r.idx)
  ELSE [name |-> IF r.idx = 0 THEN r.name ELSE EntryAt(t, r.idx).name,
        value |-> r.value]

TableAfter(t, max, r) ==
  IF r.kind = "incremental" THEN AppendToTable(t, max, DecodedEntry(t, r))
  ELSE IF r.kind = "size" THEN Fit(t, r.idx)
  ELSE t

MaxAfterExclusive(max, r) == IF r.kind = "size" THEN r.idx - 1 ELSE max
MaxAfter(max, r) == IF r.kind = "size" THEN r.idx ELSE max

-----------------------------------------------------------------------------
(* Update, for one field of the list: an iteration of its loop.  An         *)
(* application mirrors with it the insertions that its peer makes, into the *)
(* table it encodes with.  Only a field of type incremental counts, so what *)
(* Encode made incremental itself is not mirrored.                          *)

UpdatedTableByLiterals(t, max, f) ==
  IF f.type \in LiteralTypes THEN AppendToTable(t, max, EntryOf(f)) ELSE t
UpdatedTable(t, max, f) ==
  IF f.type = "incremental" THEN AppendToTable(t, max, EntryOf(f)) ELSE t

=============================================================================
