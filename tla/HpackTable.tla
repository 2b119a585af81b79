----------------------------- MODULE HpackTable -----------------------------
(***************************************************************************)
(* One object of class hpack::Table (src/hpack/hpack.h, hpack.cc) under an *)
(* application that calls Update and UpdateSize and under a peer that may  *)
(* send any header block.  Decode is a loop over the block and Update one  *)
(* over the header list; an iteration is a step, and no other member runs  *)
(* before the loop ends: the object belongs to one thread.  Encode is      *)
(* absent because it leaves the object as it is; module HpackSession       *)
(* composes it with the peer's Decode.                                     *)
(***************************************************************************)
EXTENDS HpackOps, FiniteSets

CONSTANTS
  Blocks,       \* the header blocks a peer may send
  Lists,        \* the header lists the application may pass to Update
  Sizes,        \* the sizes passed to UpdateSize
  MaxInserted   \* bound on the insertions of a behavior

ASSUME TableAssumption ==
  /\ Blocks \subseteq Seq(Representation)
  /\ Lists \subseteq Seq(HeaderField)
  /\ Sizes \subseteq Nat
  /\ MaxInserted \in Nat

VARIABLES
  table,        \* dynamic_table_
  max,          \* dynamic_table_size_max_, which no constructor initializes
  rest,         \* Decode: the representations from offset on
  header_list,  \* Decode: what it has pushed so far
  fields,       \* Update: the fields from its iterator on
  status,       \* "idle", "decoding", "updating", or "failed": Decode has
                \* returned false
  inserted,     \* history: every entry ever inserted, oldest first
  base          \* history: how many there were when Decode was entered

vars == <<table, max, rest, header_list, fields, status, inserted, base>>

busy == {"decoding", "updating"}

Field == [type : Types, entry : Entry]

TypeOK ==
  /\ table \in Seq(Entry)
  /\ max \in Nat
  /\ rest \in Seq(Representation)
  /\ header_list \in Seq(Field)
  /\ fields \in Seq(HeaderField)
  /\ status \in {"idle", "decoding", "updating", "failed"}
  /\ inserted \in Seq(Entry)
  /\ base \in Nat

\* The initial size is whatever the memory held.
Init ==
  /\ table = <<>>
  /\ max \in Sizes
  /\ rest = <<>>
  /\ header_list = <<>>
  /\ fields = <<>>
  /\ status = "idle"
  /\ inserted = <<>>
  /\ base = 0

\* DecodeFramePayload of a HEADERS frame calls Decode with an empty header list.
Receive(block) ==
  /\ status \notin busy
  /\ Len(inserted) + Len(block) <= MaxInserted
  /\ status' = "decoding"
  /\ rest' = block
  /\ header_list' = <<>>
  /\ base' = Len(inserted)
  /\ UNCHANGED <<table, max, fields, inserted>>

\* A representation that denotes a field: pushed, and inserted if its kind says so.
DecodeField ==
  /\ status = "decoding"
  /\ rest # <<>>
  /\ LET r == Head(rest) IN
       /\ r.kind # "size"
       /\ ~Undecodable(table, r)
       /\ header_list' = Append(header_list, [type |-> r.kind, entry |-> DecodedEntry(table, r)])
       /\ table' = TableAfter(table, max, r)
       /\ inserted' = IF r.kind = "incremental" THEN Append(inserted, DecodedEntry(table, r))
                      ELSE inserted
  /\ rest' = Tail(rest)
  /\ UNCHANGED <<max, fields, status, base>>

\* A size update from the peer is obeyed whatever the size.
DecodeSize ==
  /\ status = "decoding"
  /\ rest # <<>>
  /\ Head(rest).kind = "size"
  /\ table' = TableAfter(table, max, Head(rest))
  /\ max' = MaxAfter(max, Head(rest))
  /\ rest' = Tail(rest)
  /\ UNCHANGED <<header_list, fields, status, inserted, base>>

DecodeFailClearing ==
  /\ status = "decoding"
  /\ rest # <<>>
  /\ Undecodable(table, Head(rest))
  /\ status' = "failed"
  /\ rest' = <<>>
  /\ header_list' = <<>>
  /\ UNCHANGED <<table, max, fields, inserted, base>>

\* return false, from the middle of the block: nothing is undone.
DecodeFail ==
  /\ status = "decoding"
  /\ rest # <<>>
  /\ Undecodable(table, Head(rest))
  /\ status' = "failed"
  /\ rest' = <<>>
  /\ UNCHANGED <<table, max, header_list, fields, inserted, base>>

\* The block is exhausted: return true.
DecodeReturn ==
  /\ status = "decoding"
  /\ rest = <<>>
  /\ status' = "idle"
  /\ UNCHANGED <<table, max, rest, header_list, fields, inserted, base>>

\* Table::Update(header_list)
CallUpdate(list) ==
  /\ status \notin busy
  /\ Len(inserted) + Len(list) <= MaxInserted
  /\ status' = "updating"
  /\ fields' = list
  /\ UNCHANGED <<table, max, rest, header_list, inserted, base>>

UpdateField ==
  /\ status = "updating"
  /\ fields # <<>>
  /\ table' = UpdatedTable(table, max, Head(fields))
  /\ inserted' = IF Head(fields).type = "incremental"
                 THEN Append(inserted, EntryOf(Head(fields)))
                 ELSE inserted
  /\ fields' = Tail(fields)
  /\ UNCHANGED <<max, rest, header_list, status, base>>

UpdateReturn ==
  /\ status = "updating"
  /\ fields = <<>>
  /\ status' = "idle"
  /\ UNCHANGED <<table, max, rest, header_list, fields, inserted, base>>

\* Table::UpdateSize(size)
UpdateSize(size) ==
  /\ status \notin busy
  /\ max' = size
  /\ table' = Fit(table, size)
  /\ status' = "idle"
  /\ UNCHANGED <<rest, header_list, fields, inserted, base>>

Next ==
  \/ \E block \in Blocks : Receive(block)
  \/ DecodeField
  \/ DecodeSize
  \/ DecodeFail
  \/ DecodeReturn
  \/ \E list \in Lists : CallUpdate(list)
  \/ UpdateField
  \/ UpdateReturn
  \/ \E size \in Sizes : UpdateSize(size)

Spec == Init /\ [][Next]_vars

-----------------------------------------------------------------------------

\* Whatever the peer sends and whatever size is set in between, the table holds
\* at most as many entries as the size in force allows.
SizeBounded == Len(table) <= max

\* The table is the newest part of the insertions, newest first: after any mix
\* of evictions, size changes and failed blocks, index STATIC_TABLE_SIZE + k
\* denotes the insertion k before the last one.
NewestFirst ==
  /\ Len(table) <= Len(inserted)
  /\ \A k \in 1 .. Len(table) : table[k] = inserted[Len(inserted) + 1 - k]

\* The fields of the header list that were sent to be inserted.
Inserting == {k \in DOMAIN header_list : header_list[k].type = "incremental"}

\* While a block is decoded, and when Decode gives it up in the middle, the
\* header list and the table have received the same fields: the insertions
\* since Decode was entered are the incremental fields of header_list, in their
\* order.
ListAndTableAgree ==
  status \in {"decoding", "failed"} =>
    /\ Len(inserted) = base + Cardinality(Inserting)
    /\ \A k \in Inserting :
         inserted[base + Cardinality({j \in Inserting : j <= k})] = header_list[k].entry

=============================================================================
