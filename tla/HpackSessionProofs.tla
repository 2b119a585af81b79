------------------------- MODULE HpackSessionProofs -------------------------
(***************************************************************************)
(* What the two endpoints make of a header list, by the rules that their   *)
(* applications keep to, with tables small enough that every index is      *)
(* carried: for every static table, all header lists, any number of frames *)
(* in flight.  With a Table for each direction the two tables of each stay *)
(* in step; with one Table for both they do if the endpoints take turns;   *)
(* without Update only the static table is in use; and when the tables are *)
(* out of step, only what is sent with an index of the dynamic table       *)
(* suffers.  Like Carried, this is about header blocks of up to 128 octets.*)
(***************************************************************************)
EXTENDS HpackSession, TLAPS

-----------------------------------------------------------------------------
(* What the operators of HpackOps return, for every static table and every *)
(* set of names and values.                                                *)

\* The pop_back loops leave a prefix of the table, no longer than the size.
LEMMA FitPrefix ==
  ASSUME NEW t \in Seq(Entry), NEW m \in Nat
  PROVE  /\ Fit(t, m) \in Seq(Entry)
         /\ Len(Fit(t, m)) <= m
         /\ Len(Fit(t, m)) <= Len(t)
         /\ \A k \in 1 .. Len(Fit(t, m)) : Fit(t, m)[k] = t[k]
  BY DEF Fit

\* AppendToTable puts the new entry first and moves the others up by one.
LEMMA AppendShifts ==
  ASSUME NEW t \in Seq(Entry), NEW m \in Nat, NEW entry \in Entry
  PROVE  /\ AppendToTable(t, m, entry) \in Seq(Entry)
         /\ Len(AppendToTable(t, m, entry)) <= m
         /\ Len(AppendToTable(t, m, entry)) <= Len(t) + 1
         /\ Len(AppendToTable(t, m, entry)) >= 1 => AppendToTable(t, m, entry)[1] = entry
         /\ \A k \in 2 .. Len(AppendToTable(t, m, entry)) :
              AppendToTable(t, m, entry)[k] = t[k - 1]
<1> DEFINE longer == <<entry>> \o t
<1>1. /\ longer \in Seq(Entry)
      /\ Len(longer) = Len(t) + 1
      /\ longer[1] = entry
      /\ \A k \in 2 .. Len(longer) : longer[k] = t[k - 1]
  OBVIOUS
<1>2. AppendToTable(t, m, entry) = Fit(longer, m)
  BY DEF AppendToTable
<1> HIDE DEF longer
<1>3. QED
  BY <1>1, <1>2, FitPrefix

\* An index that Decode accepts denotes an entry.
LEMMA EntryAtType ==
  ASSUME NEW t \in Seq(Entry), NEW i \in Indices(t)
  PROVE  EntryAt(t, i) \in Entry
  BY StaticTableAssumption DEF Indices, EntryAt, STATIC_TABLE_SIZE

\* A representation that Decode accepts stands for a name and a value.
LEMMA DecodedEntryType ==
  ASSUME NEW t \in Seq(Entry), NEW r \in Representation,
         r.kind # "size", ~Undecodable(t, r)
  PROVE  DecodedEntry(t, r) \in Entry
<1>1. r.kind \in Types /\ r.idx \in Nat /\ r.name \in Names /\ r.value \in Values
  BY DEF Representation
<1>2. CASE r.kind = "indexed"
  BY <1>2, EntryAtType DEF Undecodable, DecodedEntry
<1>3. CASE r.kind # "indexed"
  <2>1. r.idx # 0 => EntryAt(t, r.idx) \in Entry
    BY <1>1, <1>3, EntryAtType DEF Undecodable, LiteralTypes
  <2>2. (IF r.idx = 0 THEN r.name ELSE EntryAt(t, r.idx).name) \in Names
    BY <1>1, <2>1 DEF Entry
  <2>3. QED
    BY <1>1, <1>3, <2>2 DEF DecodedEntry, Entry
<1>4. QED
  BY <1>2, <1>3

\* An index that Find returns denotes an entry with the name, and with the value
\* unless that is empty.
LEMMA FindSound ==
  ASSUME NEW t \in Seq(Entry), NEW name \in Names, NEW value \in Values
  PROVE  /\ Find(t, name, value) \in Nat
         /\ Find(t, name, value) # 0 =>
              /\ Find(t, name, value) \in Indices(t)
              /\ Matches(t, Find(t, name, value), name, value)
<1>1. CASE \E i \in Indices(t) : FirstMatch(t, i, name, value)
  <2>1. /\ Find(t, name, value) \in Indices(t)
        /\ FirstMatch(t, Find(t, name, value), name, value)
    BY <1>1 DEF Find
  <2>2. Indices(t) \subseteq Nat
    BY StaticTableAssumption DEF Indices, STATIC_TABLE_SIZE
  <2>3. QED
    BY <2>1, <2>2 DEF FirstMatch
<1>2. CASE ~ \E i \in Indices(t) : FirstMatch(t, i, name, value)
  BY <1>2 DEF Find
<1>3. QED
  BY <1>1, <1>2

\* The octets carry every index of tables of fewer than 143 entries in all, under
\* each of the three prefixes.
LEMMA IndexCarried ==
  ASSUME NEW i \in Nat, i < 143, NEW kind \in Types
  PROVE  Carried(i, IndexPrefix[kind]) = i
<1>1. IndexPrefix[kind] \in {4, 6, 7}
  BY DEF IndexPrefix, Types
<1>2. i < PrefixMax[IndexPrefix[kind]] + 128
  <2>1. PrefixMax[4] = 15 /\ PrefixMax[6] = 63 /\ PrefixMax[7] = 127
    BY DEF PrefixMax
  <2>2. QED
    BY <1>1, <2>1
<1>3. QED
  BY <1>2 DEF Carried

\* Room for the indices: with the 61 entries of the static table of hpack.cc, up to
\* 81 entries in a dynamic table.
Roomy == \A size \in Sizes : Len(StaticTable) + size < 143

\* The rules that keep one direction in step while nothing else uses its tables.
Mirroring ==
  /\ {"update", "agree", "plain", "valued", "known", "fixed"} \subseteq Discipline
  /\ Roomy

\* Both directions are kept in step by a Table for each, or by taking turns.
Careful == Mirroring /\ "separate" \in Discipline

TakingTurns == Mirroring /\ "turns" \in Discipline /\ "separate" \notin Discipline

-----------------------------------------------------------------------------
(* Type correctness, whatever rules the application keeps to.              *)

LEMMA PeerFacts ==
  /\ \A e \in Endpoints : Peer(e) \in Endpoints /\ Peer(e) # e /\ Peer(Peer(e)) = e
  /\ \A e, f \in Endpoints : f = e \/ f = Peer(e)
  /\ \A e \in Endpoints : Out(e) \in Tables /\ In(e) \in Tables
  BY DEF Endpoints, Peer, Tables

LEMMA CarriedType ==
  ASSUME NEW i \in Nat, NEW kind \in Types
  PROVE  Carried(i, IndexPrefix[kind]) \in Nat
<1>1. IndexPrefix[kind] \in {4, 6, 7}
  BY DEF IndexPrefix, Types
<1>2. PrefixMax[IndexPrefix[kind]] \in Nat
  BY <1>1 DEF PrefixMax
<1>3. QED
  BY <1>2 DEF Carried

LEMMA EncodeFieldType ==
  ASSUME NEW t \in Seq(Entry), NEW f \in HeaderField
  PROVE  EncodeField(t, f) \in FieldRepresentation
<1>1. /\ f.type \in Types /\ f.name \in Names /\ f.value \in Values
      /\ "" \in Names /\ "" \in Values
  BY EmptyStringAssumption DEF HeaderField
<1>2. EncodedKind(t, f) \in Types
  BY <1>1 DEF EncodedKind, Types
<1>3. CASE EncodedKind(t, f) = "indexed"
  <2>1. Carried(Find(t, f.name, f.value), IndexPrefix["indexed"]) \in Nat
    BY <1>1, FindSound, CarriedType DEF Types
  <2>2. QED
    BY <1>1, <1>3, <2>1
       DEF EncodeField, EncodeIndexed, FieldRepresentation, Representation, Types
<1>4. CASE EncodedKind(t, f) # "indexed"
  <2> DEFINE kind == EncodedKind(t, f)
             i == Find(t, f.name, "")
             idx == Carried(i, IndexPrefix[kind])
             name == IF i = 0 THEN StringSent(f.nameHuff, f.name) ELSE ""
             value == StringSent(f.valueHuff, f.value)
  <2>1. idx \in Nat
    BY <1>1, <1>2, FindSound, CarriedType
  <2>2. name \in Names /\ value \in Values
    BY <1>1 DEF StringSent
  <2>3. kind \in Types /\ kind # "size"
    BY <1>2 DEF Types
  <2>4. EncodeField(t, f) = [kind |-> kind, idx |-> idx, name |-> name, value |-> value]
    BY <1>4 DEF EncodeField, EncodeLiteral
  <2> HIDE DEF idx, kind, name, value
  <2>5. QED
    BY <2>1, <2>2, <2>3, <2>4 DEF FieldRepresentation, Representation
<1>5. QED
  BY <1>3, <1>4

LEMMA EncodeType ==
  ASSUME NEW t \in Seq(Entry), NEW list \in Seq(HeaderField)
  PROVE  Encode(t, list) \in Seq(FieldRepresentation) /\ Len(Encode(t, list)) = Len(list)
  BY EncodeFieldType DEF Encode

LEMMA EncodeLength ==
  ASSUME NEW t, NEW list \in Seq(HeaderField)
  PROVE  Len(Encode(t, list)) = Len(list)
  BY DEF Encode

\* Decode runs only on a frame that is there.
DecodingAFrame == \A e \in Endpoints : status[e] = "decoding" => wire[Peer(e)] # <<>>

LEMMA UpdatedTableType ==
  ASSUME NEW t \in Seq(Entry), NEW m \in Nat, NEW f \in HeaderField
  PROVE  UpdatedTable(t, m, f) \in Seq(Entry)
<1>1. EntryOf(f) \in Entry
  BY DEF EntryOf, Entry, HeaderField
<1>2. QED
  BY <1>1, AppendShifts DEF UpdatedTable

LEMMA DecodeTypes ==
  ASSUME NEW t \in Seq(Entry), NEW m \in Nat, NEW r \in FieldRepresentation,
         ~Undecodable(t, r)
  PROVE  Decoded(t, r) \in Header /\ TableAfter(t, m, r) \in Seq(Entry)
<1>1. r \in Representation /\ r.kind # "size"
  BY DEF FieldRepresentation
<1>2. DecodedEntry(t, r) \in Entry
  BY <1>1, DecodedEntryType
<1>3. Decoded(t, r) \in Header
  BY <1>2 DEF Decoded, Header, Entry
<1>4. TableAfter(t, m, r) \in Seq(Entry)
  BY <1>1, <1>2, AppendShifts DEF TableAfter
<1>5. QED
  BY <1>3, <1>4

\* The frame that e is decoding, and its next representation.
LEMMA IncomingType ==
  ASSUME TypeOK, DecodingAFrame, NEW e \in Endpoints, status[e] = "decoding"
  PROVE  /\ Incoming(e) \in Frame
         /\ Tail(wire[Peer(e)]) \in Seq(Frame)
         /\ Reading(e) => NextField(e) \in FieldRepresentation
<1>1. wire[Peer(e)] \in Seq(Frame) /\ wire[Peer(e)] # <<>> /\ pos[e] \in Nat
  BY PeerFacts DEF TypeOK, DecodingAFrame
<1>2. Incoming(e) \in Frame /\ Tail(wire[Peer(e)]) \in Seq(Frame)
  BY <1>1 DEF Incoming
<1>3. Incoming(e).block \in Seq(FieldRepresentation)
  BY <1>2 DEF Frame
<1>4. QED
  BY <1>1, <1>2, <1>3 DEF Reading, NextField

LEMMA DeliverType ==
  ASSUME TypeOK, DecodingAFrame, NEW e \in Endpoints, status[e] = "decoding", Deliver(e)
  PROVE  TypeOK' /\ DecodingAFrame'
<1>1. Tail(wire[Peer(e)]) \in Seq(Frame)
  BY IncomingType
<1>2. TypeOK'
  <2>1. wire' \in [Endpoints -> Seq(Frame)]
    BY <1>1, PeerFacts DEF Deliver, TypeOK
  <2>2. /\ header_list' \in [Endpoints -> Seq(Header)]
        /\ delivered' \in [Endpoints -> Seq(Header)]
    BY DEF Deliver, TypeOK
  <2>3. status' \in [Endpoints -> {"idle", "updating", "decoding"}]
    BY DEF Deliver, TypeOK
  <2>4. QED
    BY <2>1, <2>2, <2>3 DEF Deliver, TypeOK
<1>3. ASSUME NEW f \in Endpoints, status'[f] = "decoding" PROVE wire'[Peer(f)] # <<>>
  <2>1. f # e
    BY <1>3 DEF Deliver, TypeOK
  <2>2. Peer(f) # Peer(e)
    BY <2>1, PeerFacts
  <2>3. wire'[Peer(f)] = wire[Peer(f)] /\ status'[f] = status[f]
    BY <2>1, <2>2, PeerFacts DEF Deliver, TypeOK
  <2>4. QED
    BY <1>3, <2>3 DEF DecodingAFrame
<1>4. QED
  BY <1>2, <1>3 DEF DecodingAFrame

LEMMA TypeStep ==
  ASSUME TypeOK, DecodingAFrame, [Next]_vars
  PROVE  TypeOK' /\ DecodingAFrame'
<1>1. ASSUME NEW e \in Endpoints, NEW list \in Lists[e], SendHeaders(e, list)
      PROVE  TypeOK' /\ DecodingAFrame'
  <2>1. list \in Seq(HeaderField)
    BY SessionAssumption
  <2>2. table[Out(e)] \in Seq(Entry)
    BY PeerFacts DEF TypeOK
  <2> DEFINE frame == [block |-> Encode(table[Out(e)], list), list |-> list,
                       tables |-> <<table[Out(e)]>>]
  <2>3. frame \in Frame
    BY <2>1, <2>2, EncodeType DEF Frame
  <2>4. outgoing' = [outgoing EXCEPT ![e] = frame]
    BY <1>1 DEF SendHeaders
  <2> HIDE DEF frame
  <2>5. QED
    BY <1>1, <2>3, <2>4 DEF SendHeaders, TypeOK, DecodingAFrame
<1>2. ASSUME NEW e \in Endpoints, UpdateField(e)
      PROVE  TypeOK' /\ DecodingAFrame'
  <2>1. outgoing[e] \in Frame /\ outgoing[e].list \in Seq(HeaderField) /\ pos[e] \in Nat
    BY DEF TypeOK, Frame
  <2>2. outgoing[e].list[pos[e] + 1] \in HeaderField
    BY <1>2, <2>1 DEF UpdateField
  <2>3. table[Out(e)] \in Seq(Entry) /\ max[Out(e)] \in Nat
    BY PeerFacts DEF TypeOK
  <2>4. PICK t \in Seq(Entry) :
          /\ table' = [table EXCEPT ![Out(e)] = t]
          /\ outgoing' = [outgoing EXCEPT ![e].tables = Append(@, t)]
    BY <1>2, <2>2, <2>3, UpdatedTableType DEF UpdateField
  <2>5. [outgoing[e] EXCEPT !.tables = Append(@, t)] \in Frame
    <3>1. outgoing[e].tables \in Seq(Seq(Entry))
      BY <2>1 DEF Frame
    <3>2. Append(outgoing[e].tables, t) \in Seq(Seq(Entry))
      BY <3>1
    <3>3. QED
      BY <2>1, <3>2 DEF Frame
  <2>6. outgoing' \in [Endpoints -> Frame]
    BY <2>4, <2>5 DEF TypeOK
  <2>7. table' \in [Tables -> Seq(Entry)]
    BY <2>4 DEF TypeOK
  <2>8. pos' \in [Endpoints -> Nat]
    BY <1>2 DEF UpdateField, TypeOK
  <2>9. TypeOK'
    BY <1>2, <2>6, <2>7, <2>8 DEF UpdateField, TypeOK
  <2>10. QED
    BY <1>2, <2>9 DEF UpdateField, DecodingAFrame
<1>3. ASSUME NEW e \in Endpoints, UpdateReturn(e)
      PROVE  TypeOK' /\ DecodingAFrame'
  <2>1. NoFrame \in Frame
    BY DEF NoFrame, Frame
  <2>2. TypeOK'
    BY <1>3, <2>1 DEF UpdateReturn, TypeOK
  <2>3. ASSUME NEW f \in Endpoints, status'[f] = "decoding" PROVE wire'[Peer(f)] # <<>>
    <3>1. status[f] = "decoding" /\ Peer(f) \in Endpoints
      BY <1>3, <2>3, PeerFacts DEF UpdateReturn, TypeOK
    <3>2. wire'[Peer(f)] = wire[Peer(f)] \/ wire'[Peer(f)] = Append(wire[Peer(f)], outgoing[e])
      BY <1>3, <3>1 DEF UpdateReturn, TypeOK
    <3>3. wire[Peer(f)] \in Seq(Frame) /\ wire[Peer(f)] # <<>> /\ outgoing[e] \in Frame
      BY <3>1 DEF TypeOK, DecodingAFrame
    <3>4. QED
      BY <3>2, <3>3
  <2>4. QED
    BY <2>2, <2>3 DEF DecodingAFrame
<1>4. ASSUME NEW e \in Endpoints, RecvHeaders(e)
      PROVE  TypeOK' /\ DecodingAFrame'
  BY <1>4 DEF RecvHeaders, TypeOK, DecodingAFrame
<1>5. ASSUME NEW e \in Endpoints, DecodeField(e)
      PROVE  TypeOK' /\ DecodingAFrame'
  <2>1. NextField(e) \in FieldRepresentation
    BY <1>5, IncomingType DEF DecodeField, Reading
  <2>2. table[In(e)] \in Seq(Entry) /\ max[In(e)] \in Nat
    BY PeerFacts DEF TypeOK
  <2>3. /\ Decoded(table[In(e)], NextField(e)) \in Header
        /\ TableAfter(table[In(e)], max[In(e)], NextField(e)) \in Seq(Entry)
    BY <1>5, <2>1, <2>2, DecodeTypes DEF DecodeField
  <2>4. table' \in [Tables -> Seq(Entry)]
    BY <1>5, <2>3 DEF DecodeField, TypeOK
  <2>5. header_list' \in [Endpoints -> Seq(Header)]
    <3>1. Append(header_list[e], Decoded(table[In(e)], NextField(e))) \in Seq(Header)
      BY <2>3 DEF TypeOK
    <3>2. QED
      BY <1>5, <3>1 DEF DecodeField, TypeOK
  <2>6. pos' \in [Endpoints -> Nat]
    BY <1>5 DEF DecodeField, TypeOK
  <2>7. TypeOK'
    BY <1>5, <2>4, <2>5, <2>6 DEF DecodeField, TypeOK
  <2>8. QED
    BY <1>5, <2>7 DEF DecodeField, DecodingAFrame
<1>6. ASSUME NEW e \in Endpoints, DecodeFail(e)
      PROVE  TypeOK' /\ DecodingAFrame'
  BY <1>6, DeliverType DEF DecodeFail, Reading
<1>7. ASSUME NEW e \in Endpoints, DecodeReturn(e)
      PROVE  TypeOK' /\ DecodingAFrame'
  BY <1>7, DeliverType DEF DecodeReturn
<1>8. ASSUME NEW e \in Endpoints, NEW t \in Tables, NEW size \in Sizes, UpdateSize(e, t, size)
      PROVE  TypeOK' /\ DecodingAFrame'
  <2>1. size \in Nat /\ table[t] \in Seq(Entry)
    BY SessionAssumption DEF TypeOK
  <2>2. Fit(table[t], size) \in Seq(Entry)
    BY <2>1, FitPrefix
  <2>3. QED
    BY <1>8, <2>1, <2>2 DEF UpdateSize, TypeOK, DecodingAFrame
<1>9. CASE UNCHANGED vars
  BY <1>9 DEF vars, TypeOK, DecodingAFrame
<1>10. QED
  BY <1>1, <1>2, <1>3, <1>4, <1>5, <1>6, <1>7, <1>8, <1>9 DEF Next

LEMMA TypeInit == Init => TypeOK /\ DecodingAFrame
<1> SUFFICES ASSUME Init PROVE TypeOK /\ DecodingAFrame
  OBVIOUS
<1>1. NoFrame \in Frame
  BY DEF NoFrame, Frame
<1>2. max \in [Tables -> Nat]
  BY SessionAssumption DEF Init
<1>3. QED
  BY <1>1, <1>2 DEF Init, TypeOK, DecodingAFrame

\* Everything the two endpoints hold has its type in every state.
THEOREM TypeCorrect == Spec => []TypeOK
<1>1. QED
  BY TypeInit, TypeStep, PTL DEF Spec

-----------------------------------------------------------------------------
(* One field.                                                              *)

\* The two tables of a direction are different ones.
LEMMA TablesApart ==
  ASSUME NEW e \in Endpoints
  PROVE  Out(e) # In(Peer(e)) /\ In(e) # Out(Peer(e))
<1>1. Peer(e) # e
  BY DEF Endpoints, Peer
<1>2. QED
  BY <1>1 DEF Out, In

\* An endpoint with two Tables, and one with a single Table.
LEMMA OwnTables ==
  ASSUME NEW e \in Endpoints
  PROVE  /\ "separate" \in Discipline =>
              Out(e) # In(e) /\ Out(e) # Out(Peer(e)) /\ In(e) # In(Peer(e))
         /\ "separate" \notin Discipline => Out(e) = In(e)
<1>1. Peer(e) # e
  BY DEF Endpoints, Peer
<1>2. QED
  BY <1>1 DEF Out, In

\* An index that matches in the sender's table matches in the receiver's.
LEMMA SameMeaning ==
  ASSUME NEW t \in Seq(Entry), NEW u \in Seq(Entry), NEW i \in Indices(t),
         NEW name, NEW value, Matches(t, i, name, value),
         u = t \/ i < STATIC_TABLE_SIZE
  PROVE  i \in Indices(u) /\ Matches(u, i, name, value)
<1>1. i \in Indices(u)
  BY StaticTableAssumption DEF Indices, STATIC_TABLE_SIZE
<1>2. EntryAt(u, i) = EntryAt(t, i)
  BY DEF EntryAt
<1>3. QED
  BY <1>1, <1>2 DEF Matches

LEMMA IndexSmall ==
  ASSUME NEW t \in Seq(Entry), NEW name \in Names, NEW value \in Values,
         Len(StaticTable) + Len(t) < 143
  PROVE  Find(t, name, value) \in Nat /\ Find(t, name, value) < 143
  BY FindSound, StaticTableAssumption DEF Indices, STATIC_TABLE_SIZE

\* A field that is encoded with table t is decoded as it was sent with any table
\* that agrees with t on the index used, and both sides insert the same entry.
LEMMA FieldRoundTrips ==
  ASSUME {"plain", "valued"} \subseteq Discipline,
         NEW t \in Seq(Entry), NEW u \in Seq(Entry), NEW f \in HeaderField,
         Len(StaticTable) + Len(t) < 143,
         FieldPermitted(t, f),
         u = t \/ IndexUsed(t, f) < STATIC_TABLE_SIZE
  PROVE  /\ ~Undecodable(u, EncodeField(t, f))
         /\ EncodeField(t, f).kind = EncodedKind(t, f)
         /\ EncodeField(t, f).idx = IndexUsed(t, f)
         /\ DecodedEntry(u, EncodeField(t, f)) = EntryOf(f)
         /\ Decoded(u, EncodeField(t, f)) = Meaning(f)
<1> DEFINE r == EncodeField(t, f)
<1> DEFINE kind == EncodedKind(t, f)
<1>1. /\ f.name \in Names /\ f.value \in Values
      /\ f.nameHuff = FALSE /\ f.valueHuff = FALSE
      /\ kind \in Types
      /\ kind = "never" <=> f.type = "never"
      /\ kind = "indexed" => f.type = "indexed" /\ f.value # ""
  BY DEF HeaderField, FieldPermitted, EncodedKind, Types
<1>2. CASE kind = "indexed"
  <2> DEFINE i == Find(t, f.name, f.value)
  <2>1. i # 0 /\ i \in Nat /\ i < 143
    BY <1>1, <1>2, IndexSmall DEF EncodedKind
  <2>2. r = [kind |-> "indexed", idx |-> i, name |-> "", value |-> ""]
    BY <1>1, <1>2, <2>1, IndexCarried DEF EncodeField, EncodeIndexed, Types, IndexPrefix
  <2>3. u = t \/ i < STATIC_TABLE_SIZE
    BY <1>1, <1>2 DEF IndexUsed
  <2>4. i \in Indices(t) /\ Matches(t, i, f.name, f.value)
    BY <1>1, <2>1, FindSound
  <2> HIDE DEF i, r
  <2>5. i \in Indices(u) /\ Matches(u, i, f.name, f.value)
    BY <2>3, <2>4, SameMeaning
  <2>6. EntryAt(u, i) = EntryOf(f)
    BY <1>1, <1>2, <2>5, EntryAtType DEF Matches, Entry, EntryOf
  <2>7. /\ r.kind = "indexed" /\ r.idx = i
    BY <2>2
  <2>8. ~Undecodable(u, r)
    BY <2>5, <2>7 DEF Undecodable, LiteralTypes
  <2>9. DecodedEntry(u, r) = EntryOf(f)
    BY <2>6, <2>7 DEF DecodedEntry
  <2>10. Decoded(u, r) = Meaning(f)
    <3>1. (r.kind = "never") = (f.type = "never")
      BY <1>1, <1>2, <2>7
    <3>2. QED
      BY <2>9, <3>1 DEF Decoded, Meaning, EntryOf
  <2>11. QED
    BY <1>2, <2>7, <2>8, <2>9, <2>10 DEF r, i, IndexUsed
<1>3. CASE kind # "indexed"
  <2> DEFINE i == Find(t, f.name, "")
  <2>1. i \in Nat /\ i < 143
    BY <1>1, IndexSmall, EmptyStringAssumption
  <2>2. r = [kind |-> kind, idx |-> i,
             name |-> IF i = 0 THEN f.name ELSE "", value |-> f.value]
    BY <1>1, <1>3, <2>1, IndexCarried DEF EncodeField, EncodeLiteral, StringSent
  <2>3. u = t \/ i < STATIC_TABLE_SIZE
    BY <1>1, <1>3 DEF IndexUsed
  <2>4. i # 0 => i \in Indices(t) /\ Matches(t, i, f.name, "")
    BY <1>1, FindSound, EmptyStringAssumption
  <2> HIDE DEF i, r
  <2>5. ASSUME i # 0 PROVE i \in Indices(u) /\ EntryAt(u, i).name = f.name
    <3>1. i \in Indices(u) /\ Matches(u, i, f.name, "")
      BY <2>3, <2>4, <2>5, SameMeaning
    <3>2. QED
      BY <3>1 DEF Matches
  <2>6. /\ r.kind = kind /\ r.idx = i /\ r.value = f.value
        /\ i = 0 => r.name = f.name
    BY <2>2
  <2>7. DecodedEntry(u, r) = [name |-> f.name, value |-> f.value]
    BY <1>3, <2>5, <2>6 DEF DecodedEntry
  <2>8. ~Undecodable(u, r)
    BY <1>3, <2>5, <2>6 DEF Undecodable
  <2>9. Decoded(u, r) = Meaning(f)
    <3>1. (r.kind = "never") = (f.type = "never")
      BY <1>1, <2>6
    <3>2. QED
      BY <2>7, <3>1 DEF Decoded, Meaning
  <2>10. QED
    BY <1>3, <2>6, <2>7, <2>8, <2>9 DEF EntryOf, r, i, IndexUsed
<1>4. QED
  BY <1>2, <1>3

-----------------------------------------------------------------------------
(* The two tables of a direction.                                          *)

\* What TablesInStep says of the direction from e to its peer.
InStep(e) == SenderInStep(e) /\ WireInStep(e) /\ ReceiverInStep(e)

LEMMA UpdatedTableBound ==
  ASSUME NEW t \in Seq(Entry), NEW m \in Nat, NEW f \in HeaderField, Len(t) <= m
  PROVE  Len(UpdatedTable(t, m, f)) <= m
<1>1. EntryOf(f) \in Entry
  BY DEF EntryOf, Entry, HeaderField
<1>2. QED
  BY <1>1, AppendShifts DEF UpdatedTable

\* A direction is not affected by a step that leaves alone its tables, its frames
\* and how far its two ends are with them.
LEMMA Unaffected ==
  ASSUME NEW e \in Endpoints, InStep(e), max' = max,
         table'[Out(e)] = table[Out(e)], table'[In(Peer(e))] = table[In(Peer(e))],
         outgoing'[e] = outgoing[e], wire'[e] = wire[e],
         status'[e] = "updating" <=> status[e] = "updating",
         status[e] = "updating" => pos'[e] = pos[e],
         status'[Peer(e)] = "decoding" <=> status[Peer(e)] = "decoding",
         status[Peer(e)] = "decoding" =>
           pos'[Peer(e)] = pos[Peer(e)] /\ header_list'[Peer(e)] = header_list[Peer(e)]
  PROVE  InStep(e)'
<1>1. Settled(e)' = Settled(e)
  BY DEF Settled
<1>2. SenderInStep(e)'
  BY DEF InStep, SenderInStep, FrameInStep
<1>3. WireInStep(e)'
  <2>1. \A k \in 1 .. Len(wire'[e]) : FrameInStep(e, wire'[e][k], Len(wire'[e][k].list))
    BY DEF InStep, WireInStep
  <2>2. \A k \in 1 .. Len(wire'[e]) : FrameInStep(e, wire[e][k], Len(wire[e][k].list))'
    BY <2>1 DEF FrameInStep
  <2>3. QED
    BY <1>1, <2>2 DEF InStep, WireInStep, After
<1>4. ReceiverInStep(e)'
  BY <1>1 DEF InStep, ReceiverInStep
<1>5. QED
  BY <1>2, <1>3, <1>4 DEF InStep

\* The field that e is decoding: FieldRoundTrips applies to it.
LEMMA FieldArrives ==
  ASSUME Mirroring, TypeOK, DecodingAFrame, NEW e \in Endpoints, InStep(Peer(e)), Reading(e)
  PROVE  /\ pos[e] < Len(Incoming(e).list)
         /\ Incoming(e).list[pos[e] + 1] \in HeaderField
         /\ ~Undecodable(table[In(e)], NextField(e))
         /\ Decoded(table[In(e)], NextField(e)) = Meaning(Incoming(e).list[pos[e] + 1])
         /\ \A m \in Nat : TableAfter(table[In(e)], m, NextField(e))
                             = UpdatedTable(table[In(e)], m, Incoming(e).list[pos[e] + 1])
<1> DEFINE q == Peer(e)
           frame == wire[q][1]
           t == frame.tables[1]
           u == table[In(e)]
           k == pos[e] + 1
           f == frame.list[k]
<1>1. /\ q \in Endpoints /\ Peer(q) = e /\ In(e) \in Tables /\ Out(q) \in Tables
      /\ status[e] = "decoding" /\ pos[e] \in Nat
      /\ wire[q] \in Seq(Frame) /\ wire[q] # <<>>
  BY PeerFacts DEF TypeOK, DecodingAFrame, Reading
<1>2. Incoming(e) = frame /\ frame \in Frame /\ 1 \in 1 .. Len(wire[q])
  BY <1>1 DEF Incoming
<1>3. /\ FrameInStep(q, frame, Len(frame.list))
      /\ u = frame.tables[k]
      /\ max[Out(q)] \in Sizes
  BY <1>1, <1>2 DEF InStep, SenderInStep, WireInStep, ReceiverInStep
<1>4. frame.list \in Seq(HeaderField) /\ frame.tables \in Seq(Seq(Entry))
  BY <1>2 DEF Frame
<1>5. /\ frame.block = Encode(t, frame.list)
      /\ Len(frame.tables) = Len(frame.list) + 1
      /\ Permitted(t, frame.list)
      /\ Len(t) <= max[Out(q)]
      /\ u = t \/ \E i \in 1 .. (k - 1) : frame.list[i].type = "incremental"
  <2>1. pos[e] <= Len(frame.list)
    BY <1>1, <1>2 DEF InStep, ReceiverInStep
  <2>2. k \in 1 .. (Len(frame.list) + 1) /\ 1 \in 1 .. (Len(frame.list) + 1)
    <3>1. pos[e] \in Nat /\ Len(frame.list) \in Nat
      BY <1>1, <1>4
    <3> HIDE DEF frame, t, u, f
    <3>2. QED
      BY <2>1, <3>1
  <2>3. QED
    BY <1>3, <2>2 DEF FrameInStep
<1>6. /\ Len(frame.block) = Len(frame.list)
      /\ k \in 1 .. Len(frame.list)
      /\ NextField(e) = EncodeField(t, f)
  <2>1. Len(frame.block) = Len(frame.list)
    BY <1>4, <1>5 DEF Encode
  <2>2. k \in 1 .. Len(frame.list)
    BY <1>1, <1>2, <1>4, <2>1 DEF Reading
  <2>3. QED
    BY <1>2, <1>4, <1>5, <2>1, <2>2 DEF Encode, NextField
<1>7. /\ t \in Seq(Entry) /\ u \in Seq(Entry) /\ f \in HeaderField
      /\ Len(StaticTable) + Len(t) < 143
  <2>1. t \in Seq(Entry) /\ u \in Seq(Entry) /\ f \in HeaderField
    <3>1. u \in Seq(Entry)
      BY <1>1 DEF TypeOK
    <3>2. f \in HeaderField
      BY <1>4, <1>6
    <3>3. 1 \in 1 .. Len(frame.tables)
      BY <1>4, <1>5
    <3>4. QED
      BY <1>4, <3>1, <3>2, <3>3
  <2>2. Len(StaticTable) + max[Out(q)] < 143 /\ max[Out(q)] \in Nat
    BY <1>3, SessionAssumption DEF Mirroring, Roomy
  <2>3. QED
    BY <1>5, <2>1, <2>2, StaticTableAssumption
<1>8. /\ FieldPermitted(t, f)
      /\ u = t \/ IndexUsed(t, f) < STATIC_TABLE_SIZE
  BY <1>5, <1>6 DEF Permitted, Mirroring
<1> HIDE DEF f, t, u, k, frame
<1>9. /\ ~Undecodable(u, EncodeField(t, f))
      /\ EncodeField(t, f).kind = f.type
      /\ DecodedEntry(u, EncodeField(t, f)) = EntryOf(f)
      /\ Decoded(u, EncodeField(t, f)) = Meaning(f)
  <2>1. EncodedKind(t, f) = f.type
    BY <1>8 DEF EncodedKind, FieldPermitted, Mirroring
  <2>2. QED
    BY <1>7, <1>8, <2>1, FieldRoundTrips DEF Mirroring
<1>10. ASSUME NEW m \in Nat
       PROVE  TableAfter(u, m, EncodeField(t, f)) = UpdatedTable(u, m, f)
  <2>1. f.type # "size"
    BY <1>7 DEF HeaderField, Types
  <2>2. QED
    BY <1>9, <2>1 DEF TableAfter, UpdatedTable
<1>11. pos[e] < Len(frame.list) /\ Incoming(e).list[pos[e] + 1] = f /\ Incoming(e).list = frame.list
  BY <1>1, <1>2, <1>4, <1>6 DEF f, k
<1>12. QED
  BY <1>6, <1>7, <1>9, <1>10, <1>11 DEF u

\* Encoding a list puts the sender into Update with the table it encoded with.
LEMMA SendStep ==
  ASSUME Mirroring, TypeOK, NEW a \in Endpoints, InStep(a),
         NEW list \in Lists[a], SendHeaders(a, list)
  PROVE  InStep(a)'
<1> DEFINE t == table[Out(a)]
           frame == [block |-> Encode(t, list), list |-> list, tables |-> <<t>>]
<1>1. /\ status[a] = "idle" /\ status' = [status EXCEPT ![a] = "updating"]
      /\ pos' = [pos EXCEPT ![a] = 0] /\ outgoing' = [outgoing EXCEPT ![a] = frame]
      /\ Permitted(t, list)
      /\ UNCHANGED <<table, max, wire, header_list>>
  BY DEF SendHeaders
<1>2. /\ Peer(a) \in Endpoints /\ Peer(a) # a /\ list \in Seq(HeaderField)
      /\ Out(a) \in Tables /\ t \in Seq(Entry)
  BY PeerFacts, SessionAssumption DEF TypeOK
<1>3. /\ status'[a] = "updating" /\ pos'[a] = 0 /\ outgoing'[a] = frame
      /\ status'[Peer(a)] = status[Peer(a)] /\ pos'[Peer(a)] = pos[Peer(a)]
  BY <1>1, <1>2 DEF TypeOK
<1>4. SenderInStep(a) /\ WireInStep(a) /\ ReceiverInStep(a)
  BY DEF InStep
<1>5. /\ frame.tables = <<t>> /\ frame.list = list /\ frame.block = Encode(t, list)
  OBVIOUS
<1> HIDE DEF frame
<1>6. FrameInStep(a, frame, 0)
  BY <1>1, <1>2, <1>4, <1>5 DEF FrameInStep, SenderInStep
<1>7. SenderInStep(a)'
  <2>1. (FrameInStep(a, outgoing[a], pos[a]))'
    BY <1>1, <1>3, <1>6 DEF FrameInStep
  <2>2. table'[Out(a)] = outgoing'[a].tables[pos'[a] + 1]
    BY <1>1, <1>3, <1>5
  <2>3. QED
    BY <1>1, <1>4, <2>1, <2>2 DEF SenderInStep
<1>8. Settled(a)' = Settled(a)
  BY <1>1, <1>3, <1>5 DEF Settled
<1>9. WireInStep(a)'
  BY <1>1, <1>4, <1>8 DEF WireInStep, FrameInStep, After
<1>10. ReceiverInStep(a)'
  BY <1>1, <1>3, <1>4, <1>8 DEF ReceiverInStep
<1>11. QED
  BY <1>7, <1>9, <1>10 DEF InStep

\* An iteration of Update takes the sender one table further.
LEMMA UpdateFieldStep ==
  ASSUME Mirroring, TypeOK, NEW a \in Endpoints, InStep(a), UpdateField(a)
  PROVE  InStep(a)'
<1> DEFINE n == pos[a]
           frame == outgoing[a]
           f == frame.list[n + 1]
           t == UpdatedTable(table[Out(a)], max[Out(a)], f)
           next == [frame EXCEPT !.tables = Append(@, t)]
<1>1. /\ status[a] = "updating" /\ n < Len(frame.list)
      /\ table' = [table EXCEPT ![Out(a)] = t]
      /\ outgoing' = [outgoing EXCEPT ![a].tables = Append(@, t)]
      /\ pos' = [pos EXCEPT ![a] = n + 1]
      /\ UNCHANGED <<max, status, wire, header_list>>
  BY DEF UpdateField, Mirroring
<1>2. /\ Peer(a) \in Endpoints /\ Peer(a) # a /\ n \in Nat
      /\ Out(a) \in Tables /\ In(Peer(a)) \in Tables /\ In(Peer(a)) # Out(a)
      /\ table[Out(a)] \in Seq(Entry) /\ max[Out(a)] \in Nat
      /\ frame \in Frame
  BY PeerFacts, TablesApart DEF TypeOK
<1>3. frame.list \in Seq(HeaderField) /\ frame.tables \in Seq(Seq(Entry)) /\ f \in HeaderField
  <2>1. frame.list \in Seq(HeaderField) /\ frame.tables \in Seq(Seq(Entry))
    BY <1>2 DEF Frame
  <2>2. QED
    BY <1>1, <1>2, <2>1
<1>4. /\ outgoing'[a] = next /\ pos'[a] = n + 1 /\ pos'[Peer(a)] = pos[Peer(a)]
      /\ table'[Out(a)] = t /\ table'[In(Peer(a))] = table[In(Peer(a))]
  BY <1>1, <1>2 DEF TypeOK
<1>5. SenderInStep(a) /\ WireInStep(a) /\ ReceiverInStep(a)
  BY DEF InStep
<1>6. FrameInStep(a, frame, n) /\ table[Out(a)] = frame.tables[n + 1]
      /\ Len(table[Out(a)]) <= max[Out(a)]
  BY <1>1, <1>5 DEF SenderInStep
<1>7. /\ next.list = frame.list /\ next.block = frame.block
      /\ next.tables = Append(frame.tables, t)
  BY <1>2 DEF Frame
<1>8. Len(t) <= max[Out(a)]
  BY <1>2, <1>3, <1>6, UpdatedTableBound
<1> HIDE DEF next
<1>9. /\ Len(next.tables) = n + 2
      /\ \A j \in 1 .. (n + 1) : next.tables[j] = frame.tables[j]
      /\ next.tables[n + 2] = t
      /\ next.tables[1] = frame.tables[1]
  <2>1. t \in Seq(Entry) /\ Len(frame.tables) = n + 1
    BY <1>2, <1>3, <1>6, UpdatedTableType DEF FrameInStep
  <2> HIDE DEF t, n, frame
  <2>2. QED
    BY <1>2, <1>3, <1>7, <2>1
<1>10. FrameInStep(a, next, n + 1)
  <2>1. /\ n + 1 <= Len(next.list) /\ Len(next.tables) = n + 1 + 1
        /\ next.tables[1] = frame.tables[1]
        /\ next.block = Encode(next.tables[1], next.list)
        /\ Permitted(next.tables[1], next.list)
    <3>1. /\ frame.block = Encode(frame.tables[1], frame.list)
          /\ Permitted(frame.tables[1], frame.list)
      BY <1>6 DEF FrameInStep
    <3>2. n + 1 <= Len(next.list) /\ Len(next.tables) = n + 1 + 1
      <4>1. n \in Nat /\ Len(frame.list) \in Nat /\ n < Len(frame.list)
        BY <1>1, <1>2, <1>3
      <4> HIDE DEF n, frame
      <4>2. QED
        BY <1>7, <1>9, <4>1
    <3>3. QED
      BY <1>7, <1>9, <3>1, <3>2
  <2>2. ASSUME NEW j \in 1 .. (n + 1 + 1) PROVE Len(next.tables[j]) <= max[Out(a)]
    <3>1. CASE j = n + 2
      BY <1>8, <1>9, <3>1
    <3>2. CASE j # n + 2
      <4>1. j \in 1 .. (n + 1)
        BY <1>2, <3>2
      <4>2. QED
        BY <1>6, <1>9, <4>1 DEF FrameInStep
    <3>3. QED
      BY <3>1, <3>2
  <2>3. ASSUME NEW j \in 1 .. (n + 1)
        PROVE  next.tables[j + 1] = UpdatedTable(next.tables[j], max[Out(a)], next.list[j])
    <3>1. CASE j = n + 1
      <4>1. next.tables[j + 1] = t /\ next.tables[j] = frame.tables[n + 1]
        <5>1. n \in Nat
          BY <1>2
        <5> HIDE DEF n, t, frame
        <5>2. j + 1 = n + 2 /\ j \in 1 .. (n + 1)
          BY <3>1, <5>1
        <5>3. QED
          BY <1>9, <3>1, <5>2
      <4>2. QED
        BY <1>6, <1>7, <3>1, <4>1
    <3>2. CASE j # n + 1
      <4>1. j \in 1 .. n /\ j + 1 \in 1 .. (n + 1)
        BY <1>2, <3>2
      <4>2. QED
        BY <1>6, <1>7, <1>9, <4>1 DEF FrameInStep
    <3>3. QED
      BY <3>1, <3>2
  <2>4. ASSUME NEW j \in 1 .. (n + 1 + 1)
        PROVE  \/ next.tables[j] = next.tables[1]
               \/ \E i \in 1 .. (j - 1) : next.list[i].type = "incremental"
    <3>1. CASE j = n + 2
      <4>1. CASE f.type = "incremental"
        <5>1. n + 1 \in 1 .. (j - 1) /\ next.list[n + 1].type = "incremental"
          BY <1>2, <1>7, <3>1, <4>1
        <5>2. QED
          BY <5>1
      <4>2. CASE f.type # "incremental"
        <5>1. next.tables[j] = frame.tables[n + 1]
          BY <1>6, <1>9, <3>1, <4>2 DEF UpdatedTable
        <5>2. n \in Nat /\ n + 1 \in 1 .. (n + 1)
          BY <1>2
        <5>3. \/ frame.tables[n + 1] = frame.tables[1]
              \/ \E i \in 1 .. (n + 1 - 1) : frame.list[i].type = "incremental"
          <6>1. \A l \in 1 .. (n + 1) :
                  \/ frame.tables[l] = frame.tables[1]
                  \/ \E i \in 1 .. (l - 1) : frame.list[i].type = "incremental"
            BY <1>6 DEF FrameInStep
          <6> HIDE DEF n, frame
          <6>2. QED
            BY <5>2, <6>1
        <5>4. CASE frame.tables[n + 1] = frame.tables[1]
          BY <2>1, <5>1, <5>4
        <5>5. CASE \E i \in 1 .. (n + 1 - 1) : frame.list[i].type = "incremental"
          <6>1. PICK i \in 1 .. (n + 1 - 1) : frame.list[i].type = "incremental"
            BY <5>5
          <6>2. i \in 1 .. (j - 1) /\ next.list[i].type = "incremental"
            BY <1>2, <1>7, <3>1, <6>1
          <6>3. QED
            BY <6>2
        <5>6. QED
          BY <5>3, <5>4, <5>5
      <4>3. QED
        BY <4>1, <4>2
    <3>2. CASE j # n + 2
      <4>1. j \in 1 .. (n + 1)
        BY <1>2, <3>2
      <4>2. QED
        BY <1>6, <1>7, <1>9, <2>1, <4>1 DEF FrameInStep
    <3>3. QED
      BY <3>1, <3>2
  <2>5. QED
    BY <2>1, <2>2, <2>3, <2>4 DEF FrameInStep
<1>11. SenderInStep(a)'
  <2>1. (FrameInStep(a, outgoing[a], pos[a]))'
    BY <1>1, <1>4, <1>10 DEF FrameInStep
  <2>2. table'[Out(a)] = outgoing'[a].tables[pos'[a] + 1]
    <3>1. n + 1 + 1 = n + 2
      BY <1>2
    <3>2. QED
      BY <1>4, <1>9, <3>1
  <2>3. Len(table'[Out(a)]) <= max'[Out(a)]
    BY <1>1, <1>4, <1>8
  <2>4. QED
    BY <1>1, <1>5, <2>1, <2>2, <2>3 DEF SenderInStep
<1>12. Settled(a)' = Settled(a)
  BY <1>1, <1>4, <1>9 DEF Settled
<1>13. WireInStep(a)'
  BY <1>1, <1>5, <1>12 DEF WireInStep, FrameInStep, After
<1>14. ReceiverInStep(a)'
  BY <1>1, <1>4, <1>5, <1>12 DEF ReceiverInStep
<1>15. QED
  BY <1>11, <1>13, <1>14 DEF InStep

\* The frame that Update is done with joins those in flight.
LEMMA UpdateReturnStep ==
  ASSUME Mirroring, TypeOK, NEW a \in Endpoints, InStep(a), UpdateReturn(a)
  PROVE  InStep(a)'
<1> DEFINE frame == outgoing[a]
           n == Len(wire[a])
<1>1. /\ status[a] = "updating" /\ pos[a] = Len(frame.list)
      /\ wire' = [wire EXCEPT ![a] = Append(@, frame)]
      /\ status' = [status EXCEPT ![a] = "idle"]
      /\ UNCHANGED <<table, max, pos, header_list>>
  BY DEF UpdateReturn
<1>2. /\ Peer(a) \in Endpoints /\ Peer(a) # a
      /\ frame \in Frame /\ wire[a] \in Seq(Frame) /\ n \in Nat
      /\ frame.list \in Seq(HeaderField) /\ frame.tables \in Seq(Seq(Entry))
  <2>1. frame \in Frame /\ wire[a] \in Seq(Frame)
    BY DEF TypeOK
  <2>2. QED
    BY <2>1, PeerFacts DEF Frame
<1>3. /\ wire'[a] = Append(wire[a], frame) /\ status'[a] = "idle"
      /\ status'[Peer(a)] = status[Peer(a)]
  BY <1>1, <1>2 DEF TypeOK
<1>4. SenderInStep(a) /\ WireInStep(a) /\ ReceiverInStep(a)
  BY DEF InStep
<1>5. /\ FrameInStep(a, frame, Len(frame.list))
      /\ After(frame) = table[Out(a)]
  BY <1>1, <1>2, <1>4 DEF SenderInStep, FrameInStep, After
<1>6. Settled(a) = frame.tables[1] /\ Settled(a)' = table[Out(a)]
  BY <1>1, <1>3 DEF Settled
<1> HIDE DEF frame
<1>7. /\ Len(wire'[a]) = n + 1 /\ wire'[a][n + 1] = frame
      /\ \A k \in 1 .. n : wire'[a][k] = wire[a][k]
  BY <1>2, <1>3
<1>8. SenderInStep(a)'
  BY <1>1, <1>3, <1>4 DEF SenderInStep
<1>9. WireInStep(a)'
  <2>1. ASSUME NEW k \in 1 .. Len(wire'[a])
        PROVE  FrameInStep(a, wire'[a][k], Len(wire'[a][k].list))
    <3>1. k = n + 1 \/ k \in 1 .. n
      BY <1>2, <1>7
    <3>2. QED
      BY <1>4, <1>5, <1>7, <3>1 DEF WireInStep
  <2>2. ASSUME NEW k \in 1 .. (Len(wire'[a]) - 1)
        PROVE  After(wire'[a][k]) = wire'[a][k + 1].tables[1]
    <3>1. k \in 1 .. n /\ (k = n \/ k \in 1 .. (n - 1))
      BY <1>2, <1>7
    <3>2. CASE k = n
      <4>1. wire[a] # <<>>
        BY <1>2, <3>1, <3>2
      <4>2. After(wire[a][n]) = frame.tables[1]
        BY <1>4, <1>6, <4>1 DEF WireInStep
      <4>3. QED
        BY <1>7, <3>1, <3>2, <4>2
    <3>3. CASE k \in 1 .. (n - 1)
      <4>1. k + 1 \in 1 .. n
        BY <1>2, <3>3
      <4>2. QED
        BY <1>4, <1>7, <3>1, <3>3, <4>1 DEF WireInStep
    <3>4. QED
      BY <3>1, <3>2, <3>3
  <2>3. After(wire'[a][Len(wire'[a])]) = Settled(a)'
    BY <1>5, <1>6, <1>7
  <2>4. \A k \in 1 .. Len(wire'[a]) : FrameInStep(a, wire[a][k], Len(wire[a][k].list))'
    <3>1. max' = max
      BY <1>1
    <3>2. QED
      BY <2>1, <3>1 DEF FrameInStep
  <2>5. QED
    BY <2>2, <2>3, <2>4 DEF WireInStep, After
<1>10. ReceiverInStep(a)'
  <2>1. wire'[a] # <<>>
    BY <1>2, <1>7
  <2>2. CASE wire[a] = <<>>
    <3>1. n = 0 /\ wire'[a][1] = frame
      BY <1>7, <2>2
    <3>2. status[Peer(a)] # "decoding" /\ table[In(Peer(a))] = frame.tables[1]
      BY <1>4, <1>6, <2>2 DEF ReceiverInStep
    <3>3. QED
      BY <1>1, <1>3, <2>1, <3>1, <3>2 DEF ReceiverInStep
  <2>3. CASE wire[a] # <<>>
    <3>1. wire'[a][1] = wire[a][1]
      BY <1>2, <1>7, <2>3
    <3>2. QED
      BY <1>1, <1>3, <1>4, <2>1, <2>3, <3>1 DEF ReceiverInStep
  <2>4. QED
    BY <2>2, <2>3
<1>11. QED
  BY <1>8, <1>9, <1>10 DEF InStep

\* The receiver turns to the first frame in flight.
LEMMA RecvStep ==
  ASSUME Mirroring, TypeOK, NEW a \in Endpoints, InStep(Peer(a)), RecvHeaders(a)
  PROVE  InStep(Peer(a))'
<1> DEFINE q == Peer(a)
<1>1. /\ status[a] = "idle" /\ wire[q] # <<>>
      /\ status' = [status EXCEPT ![a] = "decoding"]
      /\ pos' = [pos EXCEPT ![a] = 0]
      /\ header_list' = [header_list EXCEPT ![a] = <<>>]
      /\ UNCHANGED <<table, max, outgoing, wire>>
  BY DEF RecvHeaders
<1>2. q \in Endpoints /\ q # a /\ Peer(q) = a /\ wire[q] \in Seq(Frame)
  BY PeerFacts DEF TypeOK
<1>3. /\ status'[a] = "decoding" /\ pos'[a] = 0 /\ header_list'[a] = <<>>
      /\ status'[q] = status[q] /\ pos'[q] = pos[q]
  BY <1>1, <1>2 DEF TypeOK
<1>4. SenderInStep(q) /\ WireInStep(q) /\ ReceiverInStep(q)
  BY <1>2 DEF InStep
<1>5. Settled(q)' = Settled(q)
  BY <1>1, <1>3 DEF Settled
<1>6. SenderInStep(q)'
  BY <1>1, <1>3, <1>4 DEF SenderInStep, FrameInStep
<1>7. WireInStep(q)'
  BY <1>1, <1>4, <1>5 DEF WireInStep, FrameInStep, After
<1>8. ReceiverInStep(q)'
  <2>1. wire[q][1] \in Frame
    BY <1>1, <1>2
  <2>2. Len(wire[q][1].list) \in Nat
    BY <2>1 DEF Frame
  <2>3. table[In(a)] = wire[q][1].tables[1]
    BY <1>1, <1>2, <1>4 DEF ReceiverInStep
  <2>4. QED
    BY <1>1, <1>2, <1>3, <2>2, <2>3 DEF ReceiverInStep
<1>9. QED
  BY <1>6, <1>7, <1>8 DEF InStep

\* An iteration of Decode takes the receiver one table further.
LEMMA DecodeFieldStep ==
  ASSUME Mirroring, TypeOK, DecodingAFrame, NEW a \in Endpoints, InStep(Peer(a)), DecodeField(a)
  PROVE  InStep(Peer(a))'
<1> DEFINE q == Peer(a)
           frame == wire[q][1]
           n == pos[a]
           f == frame.list[n + 1]
           t == TableAfter(table[In(a)], max[In(a)], NextField(a))
<1>1. /\ Reading(a)
      /\ header_list' = [header_list EXCEPT ![a] = Append(@, Decoded(table[In(a)], NextField(a)))]
      /\ table' = [table EXCEPT ![In(a)] = t]
      /\ pos' = [pos EXCEPT ![a] = n + 1]
      /\ UNCHANGED <<max, status, outgoing, wire>>
  BY DEF DecodeField
<1>2. /\ q \in Endpoints /\ q # a /\ Peer(q) = a /\ n \in Nat
      /\ In(a) \in Tables /\ Out(q) \in Tables /\ In(a) # Out(q)
      /\ status[a] = "decoding" /\ max[In(a)] \in Nat
      /\ wire[q] \in Seq(Frame) /\ wire[q] # <<>> /\ Incoming(a) = frame
  BY <1>1, PeerFacts, TablesApart DEF TypeOK, DecodingAFrame, Reading, Incoming
<1>3. SenderInStep(q) /\ WireInStep(q) /\ ReceiverInStep(q)
  BY <1>2 DEF InStep
<1>4. /\ n < Len(frame.list)
      /\ Decoded(table[In(a)], NextField(a)) = Meaning(f)
      /\ t = UpdatedTable(table[In(a)], max[In(a)], f)
  BY <1>1, <1>2, <1>3, FieldArrives DEF InStep
<1>5. /\ header_list'[a] = Append(header_list[a], Meaning(f)) /\ header_list[a] \in Seq(Header)
      /\ table'[In(a)] = t /\ table'[Out(q)] = table[Out(q)]
      /\ pos'[a] = n + 1 /\ pos'[q] = pos[q]
  BY <1>1, <1>2, <1>4 DEF TypeOK
<1>6. frame.list \in Seq(HeaderField)
  <2>1. frame \in Frame
    BY <1>2
  <2>2. QED
    BY <2>1 DEF Frame
<1>7. /\ Len(header_list[a]) = n
      /\ \A k \in 1 .. n : header_list[a][k] = Meaning(frame.list[k])
      /\ table[In(a)] = frame.tables[n + 1]
      /\ max[In(a)] = max[Out(q)]
  BY <1>2, <1>3 DEF ReceiverInStep, SenderInStep
<1>8. t = frame.tables[n + 1 + 1]
  <2>1. n + 1 \in 1 .. Len(frame.list) /\ 1 \in 1 .. Len(wire[q])
    BY <1>2, <1>4, <1>6
  <2>2. FrameInStep(q, frame, Len(frame.list))
    BY <1>3, <2>1 DEF WireInStep
  <2>3. QED
    BY <1>4, <1>7, <2>1, <2>2 DEF FrameInStep
<1>9. Settled(q)' = Settled(q)
  BY <1>1, <1>5 DEF Settled
<1>10. SenderInStep(q)'
  BY <1>1, <1>2, <1>3, <1>5 DEF SenderInStep, FrameInStep
<1>11. WireInStep(q)'
  BY <1>1, <1>3, <1>9 DEF WireInStep, FrameInStep, After
<1>12. ReceiverInStep(q)'
  <2>1. Len(header_list'[a]) = n + 1
    BY <1>5, <1>7
  <2>2. ASSUME NEW k \in 1 .. (n + 1) PROVE header_list'[a][k] = Meaning(frame.list[k])
    <3>1. CASE k = n + 1
      BY <1>5, <1>7, <3>1
    <3>2. CASE k # n + 1
      <4>1. k \in 1 .. n
        BY <1>2, <3>2
      <4>2. QED
        BY <1>5, <1>7, <4>1
    <3>3. QED
      BY <3>1, <3>2
  <2>3. n + 1 <= Len(frame.list)
    BY <1>2, <1>4, <1>6
  <2> HIDE DEF t
  <2>4. QED
    BY <1>1, <1>2, <1>5, <1>8, <2>1, <2>2, <2>3 DEF ReceiverInStep
<1>13. QED
  BY <1>10, <1>11, <1>12 DEF InStep

\* The frame that Decode is done with leaves the wire.
LEMMA DecodeReturnStep ==
  ASSUME Mirroring, TypeOK, DecodingAFrame, NEW a \in Endpoints, InStep(Peer(a)), DecodeReturn(a)
  PROVE  InStep(Peer(a))'
<1> DEFINE q == Peer(a)
           frame == wire[q][1]
<1>1. /\ status[a] = "decoding" /\ pos[a] = Len(Incoming(a).block)
      /\ status' = [status EXCEPT ![a] = "idle"]
      /\ wire' = [wire EXCEPT ![q] = Tail(@)]
      /\ UNCHANGED <<table, max, pos, outgoing>>
  BY DEF DecodeReturn, Deliver
<1>2. /\ q \in Endpoints /\ q # a /\ Peer(q) = a
      /\ wire[q] \in Seq(Frame) /\ wire[q] # <<>> /\ Incoming(a) = frame
      /\ frame \in Frame
  <2>1. q \in Endpoints /\ q # a /\ Peer(q) = a
    BY PeerFacts
  <2>2. wire[q] \in Seq(Frame)
    BY <2>1 DEF TypeOK
  <2>3. wire[q] # <<>>
    BY <1>1 DEF DecodingAFrame
  <2>4. QED
    BY <2>1, <2>2, <2>3 DEF Incoming
<1>3. SenderInStep(q) /\ WireInStep(q) /\ ReceiverInStep(q)
  BY <1>2 DEF InStep
<1>4. /\ status'[a] = "idle" /\ status'[q] = status[q] /\ wire'[q] = Tail(wire[q])
  BY <1>1, <1>2 DEF TypeOK
<1>5. frame.list \in Seq(HeaderField) /\ 1 \in 1 .. Len(wire[q])
  BY <1>2 DEF Frame
<1>6. table[In(a)] = After(frame)
  <2>1. FrameInStep(q, frame, Len(frame.list))
    BY <1>3, <1>5 DEF WireInStep
  <2>2. Len(frame.block) = Len(frame.list) /\ Len(frame.tables) = Len(frame.list) + 1
    BY <1>5, <2>1, EncodeLength DEF FrameInStep
  <2>3. QED
    BY <1>1, <1>2, <1>3, <2>2 DEF ReceiverInStep, After
<1> HIDE DEF frame
<1>7. /\ Len(wire[q]) \in Nat /\ Len(wire[q]) >= 1
      /\ Len(wire'[q]) = Len(wire[q]) - 1
      /\ \A k \in 1 .. (Len(wire[q]) - 1) : wire'[q][k] = wire[q][k + 1]
  BY <1>2, <1>4
<1>8. Settled(q)' = Settled(q)
  BY <1>1, <1>4 DEF Settled
<1>9. SenderInStep(q)'
  BY <1>1, <1>2, <1>3, <1>4 DEF SenderInStep, FrameInStep
<1>10. WireInStep(q)'
  <2>1. ASSUME NEW k \in 1 .. Len(wire'[q])
        PROVE  FrameInStep(q, wire'[q][k], Len(wire'[q][k].list))
    <3>1. k + 1 \in 1 .. Len(wire[q]) /\ wire'[q][k] = wire[q][k + 1]
      BY <1>2, <1>7
    <3>2. QED
      BY <1>3, <3>1 DEF WireInStep
  <2>2. ASSUME NEW k \in 1 .. (Len(wire'[q]) - 1)
        PROVE  After(wire'[q][k]) = wire'[q][k + 1].tables[1]
    <3>1. /\ k + 1 \in 1 .. (Len(wire[q]) - 1)
          /\ wire'[q][k] = wire[q][k + 1] /\ wire'[q][k + 1] = wire[q][k + 1 + 1]
      BY <1>2, <1>7
    <3>2. QED
      BY <1>3, <3>1 DEF WireInStep
  <2>3. ASSUME wire'[q] # <<>> PROVE After(wire'[q][Len(wire'[q])]) = Settled(q)'
    <3>1. Len(wire'[q]) >= 1
      BY <1>2, <1>4, <2>3
    <3>2. wire'[q][Len(wire'[q])] = wire[q][Len(wire[q])]
      BY <1>2, <1>7, <3>1
    <3>3. QED
      BY <1>2, <1>3, <1>8, <3>2 DEF WireInStep
  <2>4. \A k \in 1 .. Len(wire'[q]) : FrameInStep(q, wire[q][k], Len(wire[q][k].list))'
    <3>1. max' = max
      BY <1>1
    <3>2. QED
      BY <2>1, <3>1 DEF FrameInStep
  <2>5. QED
    BY <2>2, <2>3, <2>4 DEF WireInStep, After
<1>11. ReceiverInStep(q)'
  <2>1. CASE wire'[q] = <<>>
    <3>1. wire'[q] = <<>> /\ After(frame) = Settled(q)
      <4>1. Len(wire[q]) = 1
        BY <1>7, <2>1
      <4>2. wire[q] # <<>> => After(wire[q][Len(wire[q])]) = Settled(q)
        BY <1>3 DEF WireInStep
      <4>3. QED
        BY <1>2, <2>1, <4>1, <4>2 DEF frame
    <3>2. QED
      BY <1>1, <1>2, <1>4, <1>6, <1>8, <3>1 DEF ReceiverInStep
  <2>2. CASE wire'[q] # <<>>
    <3>1. Len(wire'[q]) >= 1 /\ 1 \in 1 .. (Len(wire[q]) - 1)
      BY <1>2, <1>4, <1>7, <2>2
    <3>2. /\ wire'[q] # <<>> /\ wire'[q][1] = wire[q][2]
          /\ After(frame) = wire[q][2].tables[1]
      BY <1>2, <1>3, <1>7, <3>1 DEF WireInStep, frame
    <3>3. QED
      BY <1>1, <1>2, <1>4, <1>6, <3>2 DEF ReceiverInStep
  <2>3. QED
    BY <2>1, <2>2
<1>12. QED
  BY <1>9, <1>10, <1>11 DEF InStep

\* Every step keeps both directions in step: one by the lemma of its action, the
\* other because the action does not affect it.
LEMMA InStepStep ==
  ASSUME Careful, TypeOK, DecodingAFrame, TablesInStep, [Next]_vars
  PROVE  TablesInStep'
<1>1. \A e \in Endpoints : InStep(e)
  BY DEF TablesInStep, InStep
<1>2. SUFFICES \A e \in Endpoints : InStep(e)'
  BY DEF TablesInStep, InStep
<1>3. ASSUME NEW a \in Endpoints, InStep(a)', InStep(Peer(a))'
      PROVE  \A e \in Endpoints : InStep(e)'
  BY <1>3, PeerFacts
<1>4. ASSUME NEW a \in Endpoints, NEW list \in Lists[a], SendHeaders(a, list)
      PROVE  \A e \in Endpoints : InStep(e)'
  <2>1. InStep(a)'
    BY <1>1, <1>4, SendStep DEF Careful
  <2>2. InStep(Peer(a))'
    <3>1. /\ status[a] = "idle" /\ status'[a] = "updating"
          /\ UNCHANGED <<table, max, wire, header_list>>
          /\ status'[Peer(a)] = status[Peer(a)] /\ pos'[Peer(a)] = pos[Peer(a)]
          /\ outgoing'[Peer(a)] = outgoing[Peer(a)]
      BY <1>4, PeerFacts DEF SendHeaders, TypeOK
    <3>2. QED
      BY <1>1, <3>1, PeerFacts, Unaffected
  <2>3. QED
    BY <1>3, <2>1, <2>2
<1>5. ASSUME NEW a \in Endpoints, UpdateField(a)
      PROVE  \A e \in Endpoints : InStep(e)'
  <2>1. InStep(a)'
    BY <1>1, <1>5, UpdateFieldStep DEF Careful
  <2>2. InStep(Peer(a))'
    <3>1. /\ status[a] = "updating" /\ UNCHANGED <<max, status, wire, header_list>>
          /\ pos'[Peer(a)] = pos[Peer(a)] /\ outgoing'[Peer(a)] = outgoing[Peer(a)]
      BY <1>5, PeerFacts DEF UpdateField, TypeOK
    <3>2. /\ Out(a) # Out(Peer(a)) /\ Out(a) # In(a)
          /\ Out(Peer(a)) \in Tables /\ In(a) \in Tables
      BY PeerFacts, TablesApart, OwnTables DEF Careful
    <3>3. table'[Out(Peer(a))] = table[Out(Peer(a))] /\ table'[In(a)] = table[In(a)]
      BY <1>5, <3>2 DEF UpdateField, TypeOK
    <3>4. QED
      BY <1>1, <3>1, <3>3, PeerFacts, Unaffected
  <2>3. QED
    BY <1>3, <2>1, <2>2
<1>6. ASSUME NEW a \in Endpoints, UpdateReturn(a)
      PROVE  \A e \in Endpoints : InStep(e)'
  <2>1. InStep(a)'
    BY <1>1, <1>6, UpdateReturnStep DEF Careful
  <2>2. InStep(Peer(a))'
    <3>1. /\ status[a] = "updating" /\ status'[a] = "idle"
          /\ UNCHANGED <<table, max, pos, header_list>>
          /\ status'[Peer(a)] = status[Peer(a)] /\ wire'[Peer(a)] = wire[Peer(a)]
          /\ outgoing'[Peer(a)] = outgoing[Peer(a)]
      BY <1>6, PeerFacts DEF UpdateReturn, TypeOK
    <3>2. QED
      BY <1>1, <3>1, PeerFacts, Unaffected
  <2>3. QED
    BY <1>3, <2>1, <2>2
<1>7. ASSUME NEW a \in Endpoints, RecvHeaders(a)
      PROVE  \A e \in Endpoints : InStep(e)'
  <2>1. InStep(Peer(a))'
    BY <1>1, <1>7, PeerFacts, RecvStep DEF Careful
  <2>2. InStep(a)'
    <3>1. /\ status[a] = "idle" /\ status'[a] = "decoding"
          /\ UNCHANGED <<table, max, outgoing, wire>>
          /\ status'[Peer(a)] = status[Peer(a)] /\ pos'[Peer(a)] = pos[Peer(a)]
          /\ header_list'[Peer(a)] = header_list[Peer(a)]
      BY <1>7, PeerFacts DEF RecvHeaders, TypeOK
    <3>2. QED
      BY <1>1, <3>1, PeerFacts, Unaffected
  <2>3. QED
    BY <1>3, <2>1, <2>2
<1>8. ASSUME NEW a \in Endpoints, DecodeField(a)
      PROVE  \A e \in Endpoints : InStep(e)'
  <2>1. InStep(Peer(a))'
    BY <1>1, <1>8, PeerFacts, DecodeFieldStep DEF Careful
  <2>2. InStep(a)'
    <3>1. /\ status[a] = "decoding" /\ UNCHANGED <<max, status, outgoing, wire>>
          /\ pos'[Peer(a)] = pos[Peer(a)] /\ header_list'[Peer(a)] = header_list[Peer(a)]
      BY <1>8, PeerFacts DEF DecodeField, Reading, TypeOK
    <3>2. /\ In(a) # Out(a) /\ In(a) # In(Peer(a))
          /\ Out(a) \in Tables /\ In(Peer(a)) \in Tables
      BY PeerFacts, TablesApart, OwnTables DEF Careful
    <3>3. table'[Out(a)] = table[Out(a)] /\ table'[In(Peer(a))] = table[In(Peer(a))]
      BY <1>8, <3>2 DEF DecodeField, TypeOK
    <3>4. QED
      BY <1>1, <3>1, <3>3, PeerFacts, Unaffected
  <2>3. QED
    BY <1>3, <2>1, <2>2
<1>9. ASSUME NEW a \in Endpoints, DecodeFail(a) PROVE FALSE
  BY <1>1, <1>9, PeerFacts, FieldArrives DEF DecodeFail, Careful
<1>10. ASSUME NEW a \in Endpoints, DecodeReturn(a)
       PROVE  \A e \in Endpoints : InStep(e)'
  <2>1. InStep(Peer(a))'
    BY <1>1, <1>10, PeerFacts, DecodeReturnStep DEF Careful
  <2>2. InStep(a)'
    <3>1. /\ status[a] = "decoding" /\ status'[a] = "idle"
          /\ UNCHANGED <<table, max, pos, outgoing>>
          /\ status'[Peer(a)] = status[Peer(a)] /\ wire'[a] = wire[a]
          /\ header_list'[Peer(a)] = header_list[Peer(a)]
      BY <1>10, PeerFacts DEF DecodeReturn, Deliver, TypeOK
    <3>2. QED
      BY <1>1, <3>1, PeerFacts, Unaffected
  <2>3. QED
    BY <1>3, <2>1, <2>2
<1>11. ASSUME NEW a \in Endpoints, NEW t \in Tables, NEW size \in Sizes, UpdateSize(a, t, size)
       PROVE  FALSE
  BY <1>11 DEF UpdateSize, Careful, Mirroring
<1>12. CASE UNCHANGED vars
  BY <1>1, <1>12, PeerFacts, Unaffected DEF vars
<1>13. QED
  BY <1>4, <1>5, <1>6, <1>7, <1>8, <1>9, <1>10, <1>11, <1>12 DEF Next

LEMMA InStepInit == ASSUME Mirroring PROVE Init => TablesInStep
<1> SUFFICES ASSUME Init, NEW e \in Endpoints
             PROVE  SenderInStep(e) /\ WireInStep(e) /\ ReceiverInStep(e)
  BY DEF TablesInStep
<1>1. /\ Peer(e) \in Endpoints /\ Out(e) \in Tables /\ In(Peer(e)) \in Tables
  BY PeerFacts
<1>2. /\ table[Out(e)] = <<>> /\ table[In(Peer(e))] = <<>>
      /\ max[Out(e)] = max[In(Peer(e))] /\ max[Out(e)] \in Sizes /\ max[Out(e)] \in Nat
      /\ status[e] = "idle" /\ status[Peer(e)] = "idle" /\ wire[e] = <<>>
  BY <1>1, SessionAssumption DEF Init, Mirroring
<1>3. SenderInStep(e)
  BY <1>2 DEF SenderInStep
<1>4. WireInStep(e)
  BY <1>2 DEF WireInStep
<1>5. ReceiverInStep(e)
  BY <1>2 DEF ReceiverInStep, Settled
<1>6. QED
  BY <1>3, <1>4, <1>5

\* However Update, the frames in flight and the peer's Decode interleave, the
\* receiver's table is one that the sender's table has been.
THEOREM TablesKeepStep == ASSUME Careful PROVE Spec => []TablesInStep
<1>1. Init => TypeOK /\ DecodingAFrame /\ TablesInStep
  BY TypeInit, InStepInit DEF Careful
<1>2. TypeOK /\ DecodingAFrame /\ TablesInStep /\ [Next]_vars
        => (TypeOK /\ DecodingAFrame /\ TablesInStep)'
  BY TypeStep, InStepStep
<1>3. QED
  BY <1>1, <1>2, PTL DEF Spec

-----------------------------------------------------------------------------
(* Taking turns.  With one Table for both directions only one of them is    *)
(* in step at a time: the one in which something may be on its way.         *)

Active(e) ==
  /\ InStep(e)
  /\ status[e] # "decoding" /\ status[Peer(e)] # "updating"
  /\ wire[Peer(e)] = <<>>

InTurn == \E e \in Endpoints : Active(e)

\* When nothing is on its way, both directions are in step.
LEMMA TurnPasses ==
  ASSUME TakingTurns, TypeOK, Quiet, NEW e \in Endpoints, Active(e)
  PROVE  Active(Peer(e))
<1> DEFINE p == Peer(e)
<1>1. /\ p \in Endpoints /\ Peer(p) = e
      /\ Out(e) = In(e) /\ Out(p) = In(p)
  BY PeerFacts, OwnTables DEF TakingTurns
<1>2. /\ status[e] = "idle" /\ status[p] = "idle"
      /\ wire[e] = <<>> /\ wire[p] = <<>>
  BY <1>1 DEF Quiet
<1>3. /\ max[Out(e)] = max[Out(p)] /\ max[Out(e)] \in Sizes
      /\ table[Out(e)] = table[Out(p)]
      /\ Len(table[Out(e)]) <= max[Out(e)]
  BY <1>1, <1>2 DEF Active, InStep, SenderInStep, ReceiverInStep, Settled
<1>4. SenderInStep(p) /\ WireInStep(p) /\ ReceiverInStep(p)
  BY <1>1, <1>2, <1>3 DEF SenderInStep, WireInStep, ReceiverInStep, Settled
<1>5. QED
  BY <1>1, <1>2, <1>4 DEF Active, InStep

LEMMA TurnInit == ASSUME TakingTurns PROVE Init => InTurn
<1> SUFFICES ASSUME Init PROVE InTurn
  OBVIOUS
<1>1. Init => TablesInStep
  BY InStepInit DEF TakingTurns
<1>2. "client" \in Endpoints /\ Peer("client") \in Endpoints
  BY DEF Endpoints, Peer
<1>3. Active("client")
  BY <1>1, <1>2 DEF TablesInStep, InStep, Active, Init
<1>4. QED
  BY <1>2, <1>3 DEF InTurn

LEMMA TurnStep ==
  ASSUME TakingTurns, TypeOK, DecodingAFrame, InTurn, [Next]_vars
  PROVE  InTurn'
<1>1. PICK e \in Endpoints : Active(e)
  BY DEF InTurn
<1>2. /\ Peer(e) \in Endpoints /\ Peer(e) # e /\ Peer(Peer(e)) = e
      /\ \A a \in Endpoints : a = e \/ a = Peer(e)
      /\ Mirroring
  BY PeerFacts DEF TakingTurns
<1>3. ASSUME NEW a \in Endpoints, NEW list \in Lists[a], SendHeaders(a, list)
      PROVE  InTurn'
  <2>1. Quiet
    BY <1>3 DEF SendHeaders, TakingTurns
  <2>2. Active(a)
    BY <1>1, <1>2, <2>1, TurnPasses
  <2>3. InStep(a)'
    BY <1>2, <1>3, <2>2, SendStep DEF Active
  <2>4. Active(a)'
    BY <1>3, <2>2, <2>3, PeerFacts DEF Active, SendHeaders, TypeOK
  <2>5. QED
    BY <2>4 DEF InTurn
<1>4. ASSUME NEW a \in Endpoints, UpdateField(a) \/ UpdateReturn(a)
      PROVE  InTurn'
  <2>1. status[a] = "updating"
    BY <1>4 DEF UpdateField, UpdateReturn
  <2>2. a = e
    BY <1>1, <1>2, <2>1 DEF Active
  <2>3. InStep(e)'
    BY <1>1, <1>2, <1>4, <2>2, UpdateFieldStep, UpdateReturnStep DEF Active
  <2>4. Active(e)'
    BY <1>1, <1>2, <1>4, <2>2, <2>3 DEF Active, UpdateField, UpdateReturn, TypeOK
  <2>5. QED
    BY <2>4 DEF InTurn
<1>5. ASSUME NEW a \in Endpoints, RecvHeaders(a) \/ DecodeField(a) \/ DecodeReturn(a)
      PROVE  InTurn'
  <2>1. wire[Peer(a)] # <<>> \/ status[a] = "decoding"
    BY <1>5 DEF RecvHeaders, DecodeField, DecodeReturn, Reading
  <2>2. a = Peer(e)
    BY <1>1, <1>2, <2>1 DEF Active
  <2>3. InStep(e)'
    <3>1. InStep(Peer(a))
      BY <1>1, <1>2, <2>2 DEF Active
    <3>2. InStep(Peer(a))'
      BY <1>2, <1>5, <3>1, RecvStep, DecodeFieldStep, DecodeReturnStep
    <3>3. QED
      BY <1>2, <2>2, <3>2
  <2>4. /\ status'[e] = status[e] /\ wire'[a] = wire[a]
        /\ status'[a] \in {"idle", "decoding"}
    BY <1>2, <1>5, <2>2
       DEF RecvHeaders, DecodeField, DecodeReturn, Deliver, Reading, TypeOK
  <2>5. Active(e)'
    BY <1>1, <2>2, <2>3, <2>4 DEF Active
  <2>6. QED
    BY <2>5 DEF InTurn
<1>6. ASSUME NEW a \in Endpoints, DecodeFail(a) PROVE FALSE
  <2>1. a = Peer(e) /\ Reading(a)
    BY <1>1, <1>2, <1>6 DEF Active, DecodeFail, Reading
  <2>2. InStep(Peer(a))
    BY <1>1, <1>2, <2>1 DEF Active
  <2>3. QED
    BY <1>2, <1>6, <2>1, <2>2, FieldArrives DEF DecodeFail
<1>7. ASSUME NEW a \in Endpoints, NEW t \in Tables, NEW size \in Sizes, UpdateSize(a, t, size)
      PROVE  FALSE
  BY <1>2, <1>7 DEF UpdateSize, Mirroring
<1>8. CASE UNCHANGED vars
  <2>1. InStep(e)'
    BY <1>1, <1>2, <1>8, Unaffected DEF vars, Active
  <2>2. Active(e)'
    BY <1>1, <1>8, <2>1 DEF vars, Active
  <2>3. QED
    BY <2>2 DEF InTurn
<1>9. QED
  BY <1>3, <1>4, <1>5, <1>6, <1>7, <1>8 DEF Next

LEMMA TurnsKept ==
  ASSUME TakingTurns PROVE Spec => [](TypeOK /\ DecodingAFrame /\ InTurn)
<1>1. Init => TypeOK /\ DecodingAFrame /\ InTurn
  BY TypeInit, TurnInit
<1>2. TypeOK /\ DecodingAFrame /\ InTurn /\ [Next]_vars
        => (TypeOK /\ DecodingAFrame /\ InTurn)'
  BY TypeStep, TurnStep
<1>3. QED
  BY <1>1, <1>2, PTL DEF Spec

\* Whenever nothing is on its way between two endpoints that take turns, their
\* Tables are equal, although each serves both directions.
THEOREM TurnsAgree == ASSUME TakingTurns PROVE Spec => []TablesAgreeWhenQuiet
<1>1. TypeOK /\ InTurn => TablesAgreeWhenQuiet
  <2> SUFFICES ASSUME TypeOK, InTurn, Quiet, NEW a \in Endpoints
               PROVE  table[Out(a)] = table[In(Peer(a))]
    BY DEF TablesAgreeWhenQuiet
  <2>1. Active(a)
    BY PeerFacts, TurnPasses DEF InTurn
  <2>2. QED
    BY <2>1, PeerFacts DEF Active, InStep, ReceiverInStep, Settled, Quiet
<1>2. QED
  BY <1>1, TurnsKept, PTL

-----------------------------------------------------------------------------
(* What the application receives.                                          *)

\* The header list that Decode is putting together is that of the frame, as far as
\* it has come.
Reproduced(e) ==
  status[e] = "decoding" =>
    /\ Len(Incoming(e).block) = Len(Incoming(e).list)
    /\ Len(header_list[e]) = pos[e]
    /\ \A k \in 1 .. pos[e] : header_list[e][k] = Meaning(Incoming(e).list[k])

Faithful == DecodesAsSent /\ \A e \in Endpoints : Reproduced(e)

\* A direction that is in step delivers faithfully.
LEMMA InStepFaithful ==
  ASSUME Mirroring, TypeOK, DecodingAFrame,
         \A e \in Endpoints : status[e] = "decoding" => InStep(Peer(e))
  PROVE  Faithful
<1>1. ASSUME NEW e \in Endpoints, Reading(e)
      PROVE  /\ ~Undecodable(table[In(e)], NextField(e))
             /\ Decoded(table[In(e)], NextField(e)) = Meaning(Incoming(e).list[pos[e] + 1])
  <2>1. InStep(Peer(e))
    BY <1>1 DEF Reading
  <2>2. QED
    BY <1>1, <2>1, FieldArrives
<1>2. ASSUME NEW e \in Endpoints, status[e] = "decoding" PROVE Reproduced(e)
  <2> DEFINE q == Peer(e)
             frame == wire[q][1]
  <2>1. /\ q \in Endpoints /\ Peer(q) = e
        /\ wire[q] \in Seq(Frame) /\ wire[q] # <<>>
    BY <1>2, PeerFacts DEF TypeOK, DecodingAFrame
  <2>2. Incoming(e) = frame /\ frame \in Frame /\ 1 \in 1 .. Len(wire[q])
    BY <2>1 DEF Incoming
  <2>3. FrameInStep(q, frame, Len(frame.list)) /\ frame.list \in Seq(HeaderField)
    BY <1>2, <2>2 DEF InStep, WireInStep, Frame
  <2>4. Len(frame.block) = Len(frame.list)
    BY <2>3, EncodeLength DEF FrameInStep
  <2>5. /\ Len(header_list[e]) = pos[e]
        /\ \A k \in 1 .. pos[e] : header_list[e][k] = Meaning(frame.list[k])
    BY <1>2, <2>1 DEF InStep, ReceiverInStep
  <2> HIDE DEF frame
  <2>6. QED
    BY <2>2, <2>4, <2>5 DEF Reproduced
<1>3. QED
  BY <1>1, <1>2 DEF Faithful, DecodesAsSent, Reproduced

LEMMA CarefulFaithful == ASSUME Careful PROVE Spec => []Faithful
<1>1. TypeOK /\ DecodingAFrame /\ TablesInStep => Faithful
  <2>1. TablesInStep => \A e \in Endpoints : InStep(Peer(e))
    BY PeerFacts DEF TablesInStep, InStep
  <2>2. QED
    BY <2>1, InStepFaithful DEF Careful
<1>2. Init => TypeOK /\ DecodingAFrame
  BY TypeInit
<1>3. TypeOK /\ DecodingAFrame /\ [Next]_vars => (TypeOK /\ DecodingAFrame)'
  BY TypeStep
<1>4. Spec => []TablesInStep
  BY TablesKeepStep
<1>5. QED
  BY <1>1, <1>2, <1>3, <1>4, PTL DEF Spec

LEMMA TurnsFaithful == ASSUME TakingTurns PROVE Spec => []Faithful
<1>1. TypeOK /\ DecodingAFrame /\ InTurn => Faithful
  <2> SUFFICES ASSUME TypeOK, DecodingAFrame, InTurn,
                      NEW e \in Endpoints, status[e] = "decoding"
               PROVE  InStep(Peer(e))
    BY InStepFaithful DEF TakingTurns
  <2>1. PICK a \in Endpoints : Active(a)
    BY DEF InTurn
  <2>2. a = Peer(e)
    BY <2>1, PeerFacts DEF Active
  <2>3. QED
    BY <2>1, <2>2 DEF Active
<1>2. QED
  BY <1>1, TurnsKept, PTL

\* Every field that a careful application sends is decoded as it was sent.
THEOREM FieldsArrive == ASSUME Careful PROVE Spec => []DecodesAsSent
<1>1. Faithful => DecodesAsSent
  BY DEF Faithful
<1>2. QED
  BY <1>1, CarefulFaithful, PTL

\* Once a direction is quiet, its two tables are equal.
THEOREM QuietTablesAgree == ASSUME Careful PROVE Spec => []QuiescentTablesAgree
<1>1. TablesInStep => QuiescentTablesAgree
  BY DEF TablesInStep, ReceiverInStep, Settled, QuiescentTablesAgree
<1>2. QED
  BY <1>1, TablesKeepStep, PTL

-----------------------------------------------------------------------------
(* Tables out of step: whatever Update, UpdateSize and Decode have done to  *)
(* the tables, a frame is what Encode made of its list with a table of at   *)
(* most n entries.                                                          *)

FrameSound(frame, n) ==
  /\ frame.tables # <<>> /\ Len(frame.tables[1]) <= n
  /\ frame.block = Encode(frame.tables[1], frame.list)
  /\ Permitted(frame.tables[1], frame.list)

Sound(n) ==
  \A e \in Endpoints :
    /\ status[e] = "updating" => FrameSound(outgoing[e], n)
    /\ \A k \in 1 .. Len(wire[e]) : FrameSound(wire[e][k], n)

LEMMA SoundStep ==
  ASSUME TypeOK, NEW n \in Int, Sound(n),
         \A e \in Endpoints : Len(table[Out(e)]) <= n, [Next]_vars
  PROVE  Sound(n)'
<1>1. ASSUME NEW a \in Endpoints, NEW list \in Lists[a], SendHeaders(a, list)
      PROVE  Sound(n)'
  <2> DEFINE t == table[Out(a)]
             frame == [block |-> Encode(t, list), list |-> list, tables |-> <<t>>]
  <2>1. Permitted(t, list) /\ Len(t) <= n
    BY <1>1 DEF SendHeaders
  <2>2. FrameSound(frame, n)
    BY <2>1 DEF FrameSound
  <2>3. /\ status' = [status EXCEPT ![a] = "updating"]
        /\ outgoing' = [outgoing EXCEPT ![a] = frame] /\ wire' = wire
    BY <1>1 DEF SendHeaders
  <2> HIDE DEF frame
  <2>4. QED
    BY <2>2, <2>3 DEF Sound, FrameSound, TypeOK
<1>2. ASSUME NEW a \in Endpoints, UpdateField(a) PROVE Sound(n)'
  <2> DEFINE frame == outgoing[a]
  <2>1. PICK t : outgoing' = [outgoing EXCEPT ![a].tables = Append(@, t)]
    BY <1>2 DEF UpdateField
  <2>2. FrameSound(frame, n) /\ frame \in Frame /\ frame.tables \in Seq(Seq(Entry))
    BY <1>2 DEF UpdateField, Sound, TypeOK, Frame
  <2>3. /\ Append(frame.tables, t) # <<>>
        /\ Append(frame.tables, t)[1] = frame.tables[1]
    BY <2>2 DEF FrameSound
  <2>4. /\ outgoing'[a].tables = Append(frame.tables, t)
        /\ outgoing'[a].list = frame.list /\ outgoing'[a].block = frame.block
        /\ \A e \in Endpoints : e # a => outgoing'[e] = outgoing[e]
    BY <2>1, <2>2 DEF TypeOK, Frame
  <2> HIDE DEF frame
  <2>5. FrameSound(outgoing'[a], n)
    BY <2>2, <2>3, <2>4 DEF FrameSound
  <2>6. QED
    BY <1>2, <2>4, <2>5 DEF UpdateField, Sound, FrameSound
<1>3. ASSUME NEW a \in Endpoints, UpdateReturn(a) PROVE Sound(n)'
  <2>1. /\ FrameSound(outgoing[a], n) /\ outgoing[a] \in Frame /\ wire[a] \in Seq(Frame)
        /\ wire'[a] = Append(wire[a], outgoing[a])
    BY <1>3 DEF UpdateReturn, Sound, TypeOK
  <2>2. ASSUME NEW e \in Endpoints, NEW k \in 1 .. Len(wire'[e]) PROVE FrameSound(wire'[e][k], n)
    <3>1. CASE e = a
      <4>1. Len(wire'[a]) = Len(wire[a]) + 1
        BY <2>1
      <4>2. CASE k = Len(wire[a]) + 1
        BY <2>1, <3>1, <4>2
      <4>3. CASE k # Len(wire[a]) + 1
        <5>1. k \in 1 .. Len(wire[a]) /\ wire'[a][k] = wire[a][k]
          BY <2>1, <2>2, <3>1, <4>1, <4>3
        <5>2. QED
          BY <3>1, <5>1 DEF Sound
      <4>4. QED
        BY <4>2, <4>3
    <3>2. CASE e # a
      BY <1>3, <2>2, <3>2 DEF UpdateReturn, Sound, TypeOK
    <3>3. QED
      BY <3>1, <3>2
  <2>3. ASSUME NEW e \in Endpoints, status'[e] = "updating" PROVE FrameSound(outgoing'[e], n)
    BY <1>3, <2>3 DEF UpdateReturn, Sound, TypeOK
  <2>4. QED
    BY <2>2, <2>3 DEF Sound, FrameSound
<1>4. ASSUME NEW a \in Endpoints, RecvHeaders(a) \/ DecodeField(a) PROVE Sound(n)'
  <2>1. /\ UNCHANGED <<outgoing, wire>>
        /\ \A e \in Endpoints : status'[e] = "updating" => status[e] = "updating"
    BY <1>4 DEF RecvHeaders, DecodeField, TypeOK
  <2>2. QED
    BY <2>1 DEF Sound, FrameSound
<1>5. ASSUME NEW a \in Endpoints, DecodeFail(a) \/ DecodeReturn(a) PROVE Sound(n)'
  <2> DEFINE q == Peer(a)
  <2>1. /\ q \in Endpoints /\ wire[q] \in Seq(Frame) /\ outgoing' = outgoing
        /\ wire' = [wire EXCEPT ![q] = Tail(@)]
        /\ status' = [status EXCEPT ![a] = "idle"]
    BY <1>5, PeerFacts DEF DecodeFail, DecodeReturn, Deliver, TypeOK
  <2>2. ASSUME NEW e \in Endpoints, NEW k \in 1 .. Len(wire'[e]) PROVE FrameSound(wire'[e][k], n)
    <3>1. CASE e = q
      <4>1. CASE wire[q] = <<>>
        <5>1. Tail(wire[q]) = <<>>
          BY <4>1
        <5>2. Len(wire'[q]) = 0
          BY <2>1, <5>1 DEF TypeOK
        <5>3. QED
          BY <2>2, <3>1, <5>2
      <4>2. CASE wire[q] # <<>>
        <5>1. k + 1 \in 1 .. Len(wire[q]) /\ wire'[q][k] = wire[q][k + 1]
          BY <2>1, <2>2, <3>1, <4>2 DEF TypeOK
        <5>2. QED
          BY <2>1, <3>1, <5>1 DEF Sound
      <4>3. QED
        BY <4>1, <4>2
    <3>2. CASE e # q
      BY <2>1, <2>2, <3>2 DEF Sound, TypeOK
    <3>3. QED
      BY <3>1, <3>2
  <2>3. ASSUME NEW e \in Endpoints, status'[e] = "updating" PROVE FrameSound(outgoing'[e], n)
    BY <2>1, <2>3 DEF Sound, TypeOK
  <2>4. QED
    BY <2>2, <2>3 DEF Sound, FrameSound
<1>6. ASSUME NEW a \in Endpoints, NEW t \in Tables, NEW size \in Sizes, UpdateSize(a, t, size)
      PROVE  Sound(n)'
  BY <1>6 DEF UpdateSize, Sound, FrameSound
<1>7. CASE UNCHANGED vars
  BY <1>7 DEF vars, Sound, FrameSound
<1>8. QED
  BY <1>1, <1>2, <1>3, <1>4, <1>5, <1>6, <1>7 DEF Next

LEMMA SoundInit == ASSUME NEW n \in Int PROVE Init => Sound(n)
  BY DEF Init, Sound

\* The frame that is being decoded, and the field that is next.
LEMMA SoundIncoming ==
  ASSUME TypeOK, DecodingAFrame, NEW n \in Int, Sound(n),
         NEW e \in Endpoints, status[e] = "decoding"
  PROVE  /\ FrameSound(Incoming(e), n) /\ Incoming(e).list \in Seq(HeaderField)
         /\ Incoming(e).tables[1] \in Seq(Entry)
         /\ Len(Incoming(e).block) = Len(Incoming(e).list)
         /\ Reading(e) =>
              /\ pos[e] + 1 \in 1 .. Len(Incoming(e).list)
              /\ NextField(e)
                   = EncodeField(Incoming(e).tables[1], Incoming(e).list[pos[e] + 1])
              /\ FieldPermitted(Incoming(e).tables[1], Incoming(e).list[pos[e] + 1])
<1> DEFINE frame == Incoming(e)
           k == pos[e] + 1
<1>1. /\ Peer(e) \in Endpoints /\ wire[Peer(e)] \in Seq(Frame) /\ wire[Peer(e)] # <<>>
      /\ pos[e] \in Nat
  BY PeerFacts DEF TypeOK, DecodingAFrame
<1>2. frame = wire[Peer(e)][1] /\ frame \in Frame /\ 1 \in 1 .. Len(wire[Peer(e)])
  BY <1>1 DEF Incoming
<1>3. FrameSound(frame, n)
  BY <1>1, <1>2 DEF Sound
<1>4. frame.list \in Seq(HeaderField) /\ frame.tables \in Seq(Seq(Entry))
  BY <1>2 DEF Frame
<1>5. Len(frame.block) = Len(frame.list)
  BY <1>3, <1>4, EncodeLength DEF FrameSound
<1>6. frame.tables[1] \in Seq(Entry)
  BY <1>3, <1>4 DEF FrameSound
<1>7. ASSUME Reading(e)
      PROVE  /\ k \in 1 .. Len(frame.list)
             /\ NextField(e) = EncodeField(frame.tables[1], frame.list[k])
             /\ FieldPermitted(frame.tables[1], frame.list[k])
  <2>1. k \in 1 .. Len(frame.list)
    BY <1>1, <1>4, <1>5, <1>7 DEF Reading
  <2>2. QED
    BY <1>3, <1>4, <2>1 DEF FrameSound, Encode, Permitted, NextField
<1>8. QED
  BY <1>3, <1>4, <1>5, <1>6, <1>7

\* A field that comes as a literal or with an index of the static table is decoded
\* as it was sent with any table.
LEMMA StaticFieldArrives ==
  ASSUME {"plain", "valued"} \subseteq Discipline, TypeOK, DecodingAFrame,
         NEW n \in Int, Len(StaticTable) + n < 143, Sound(n),
         NEW e \in Endpoints, Reading(e), NextField(e).idx < STATIC_TABLE_SIZE
  PROVE  /\ ~Undecodable(table[In(e)], NextField(e))
         /\ Decoded(table[In(e)], NextField(e)) = Meaning(Incoming(e).list[pos[e] + 1])
<1> DEFINE t == Incoming(e).tables[1]
           f == Incoming(e).list[pos[e] + 1]
           u == table[In(e)]
<1>1. /\ FrameSound(Incoming(e), n) /\ t \in Seq(Entry) /\ f \in HeaderField
      /\ NextField(e) = EncodeField(t, f) /\ FieldPermitted(t, f)
  BY SoundIncoming DEF Reading
<1>2. u \in Seq(Entry)
  BY PeerFacts DEF TypeOK
<1>3. Len(StaticTable) + Len(t) < 143
  <2>1. Len(t) <= n /\ Len(t) \in Nat /\ Len(StaticTable) \in Nat
    BY <1>1, StaticTableAssumption DEF FrameSound
  <2> HIDE DEF t
  <2>2. QED
    BY <2>1
<1> HIDE DEF t, f, u
<1>4. EncodeField(t, f).idx = IndexUsed(t, f)
  BY <1>1, <1>3, FieldRoundTrips
<1>5. QED
  BY <1>1, <1>2, <1>3, <1>4, FieldRoundTrips DEF t, f, u

\* No table ever holds more entries than its size.
Short == \A t \in Tables : max[t] \in Sizes /\ Len(table[t]) <= max[t]

LEMMA ShortStep ==
  ASSUME TypeOK, DecodingAFrame, Short, [Next]_vars
  PROVE  Short'
<1>1. ASSUME NEW a \in Endpoints, UpdateField(a) PROVE Short'
  <2> DEFINE f == outgoing[a].list[pos[a] + 1]
             t == UpdatedTable(table[Out(a)], max[Out(a)], f)
  <2>1. /\ Out(a) \in Tables /\ table[Out(a)] \in Seq(Entry) /\ max[Out(a)] \in Nat
        /\ Len(table[Out(a)]) <= max[Out(a)]
    BY PeerFacts DEF TypeOK, Short
  <2>2. f \in HeaderField
    <3>1. outgoing[a].list \in Seq(HeaderField) /\ pos[a] \in Nat
      BY DEF TypeOK, Frame
    <3>2. QED
      BY <1>1, <3>1 DEF UpdateField
  <2>3. Len(t) <= max[Out(a)]
    BY <2>1, <2>2, UpdatedTableBound
  <2> HIDE DEF t
  <2>4. /\ table' = [table EXCEPT ![Out(a)] = t] \/ table' = [table EXCEPT ![Out(a)] = table[Out(a)]]
        /\ max' = max
    BY <1>1 DEF UpdateField, t
  <2>5. QED
    BY <2>1, <2>3, <2>4 DEF Short, TypeOK
<1>2. ASSUME NEW a \in Endpoints, DecodeField(a) PROVE Short'
  <2> DEFINE r == NextField(a)
             t == TableAfter(table[In(a)], max[In(a)], r)
  <2>1. /\ In(a) \in Tables /\ table[In(a)] \in Seq(Entry) /\ max[In(a)] \in Nat
        /\ Len(table[In(a)]) <= max[In(a)]
    BY PeerFacts DEF TypeOK, Short
  <2>2. r \in FieldRepresentation /\ ~Undecodable(table[In(a)], r)
    BY <1>2, IncomingType DEF DecodeField, Reading
  <2>3. r.kind # "size" /\ DecodedEntry(table[In(a)], r) \in Entry
    BY <2>1, <2>2, DecodedEntryType DEF FieldRepresentation
  <2>4. Len(t) <= max[In(a)]
    BY <2>1, <2>3, AppendShifts DEF TableAfter
  <2> HIDE DEF t
  <2>5. table' = [table EXCEPT ![In(a)] = t] /\ max' = max
    BY <1>2 DEF DecodeField, t
  <2>6. QED
    BY <2>1, <2>4, <2>5 DEF Short, TypeOK
<1>3. ASSUME NEW a \in Endpoints, NEW t \in Tables, NEW size \in Sizes, UpdateSize(a, t, size)
      PROVE  Short'
  <2>1. size \in Nat /\ table[t] \in Seq(Entry)
    BY SessionAssumption DEF TypeOK
  <2>2. Len(Fit(table[t], size)) <= size
    BY <2>1, FitPrefix
  <2>3. QED
    BY <1>3, <2>2 DEF UpdateSize, Short, TypeOK
<1>4. ASSUME UNCHANGED <<table, max>> PROVE Short'
  BY <1>4 DEF Short
<1>5. QED
  BY <1>1, <1>2, <1>3, <1>4
     DEF Next, vars, SendHeaders, UpdateReturn, RecvHeaders, DecodeFail, DecodeReturn, Deliver

LEMMA ShortInit == Init => Short
<1> SUFFICES ASSUME Init, NEW t \in Tables PROVE max[t] \in Sizes /\ Len(table[t]) <= max[t]
  BY DEF Short
<1>1. max[t] \in Sizes /\ table[t] = <<>>
  BY DEF Init
<1>2. max[t] \in Nat
  BY <1>1, SessionAssumption
<1>3. QED
  BY <1>1, <1>2

\* However far the tables of the two endpoints have come apart, what is sent as a
\* literal or with an index of the static table arrives as it was sent.
THEOREM DriftIsConfined ==
  ASSUME {"plain", "valued"} \subseteq Discipline, Roomy
  PROVE  Spec => []OnlyDynamicFieldsSuffer
<1> DEFINE n == 142 - Len(StaticTable)
           I == TypeOK /\ DecodingAFrame /\ Short /\ Sound(n)
<1>1. n \in Int /\ Len(StaticTable) + n < 143
  BY StaticTableAssumption
<1>2. ASSUME TypeOK, Short, NEW e \in Endpoints PROVE Len(table[Out(e)]) <= n
  <2>1. /\ Len(table[Out(e)]) <= max[Out(e)] /\ max[Out(e)] \in Sizes
        /\ Len(table[Out(e)]) \in Nat /\ max[Out(e)] \in Nat
    BY <1>2, PeerFacts DEF TypeOK, Short
  <2>2. Len(StaticTable) + max[Out(e)] < 143 /\ Len(StaticTable) \in Nat
    BY <2>1, StaticTableAssumption DEF Roomy
  <2>3. QED
    BY <2>1, <2>2
<1> HIDE DEF n
<1>3. Init => I
  BY <1>1, TypeInit, ShortInit, SoundInit
<1>4. I /\ [Next]_vars => I'
  <2>1. I /\ [Next]_vars => (TypeOK /\ DecodingAFrame)'
    BY TypeStep
  <2>2. I /\ [Next]_vars => Short'
    BY ShortStep
  <2>3. I /\ [Next]_vars => Sound(n)'
    BY <1>1, <1>2, SoundStep
  <2>4. QED
    BY <2>1, <2>2, <2>3
<1>5. I => OnlyDynamicFieldsSuffer
  BY <1>1, StaticFieldArrives DEF OnlyDynamicFieldsSuffer
<1>6. QED
  BY <1>3, <1>4, <1>5, PTL DEF Spec

-----------------------------------------------------------------------------
(* An application that never calls Update encodes with empty tables.        *)

WithoutUpdate ==
  /\ {"separate", "plain", "valued"} \subseteq Discipline /\ "update" \notin Discipline
  /\ Len(StaticTable) < 143

Bare == \A e \in Endpoints : table[Out(e)] = <<>>

LEMMA BareStep ==
  ASSUME WithoutUpdate, TypeOK, Bare, [Next]_vars
  PROVE  Bare'
<1>1. ASSUME NEW a \in Endpoints, UpdateField(a) PROVE Bare'
  BY <1>1 DEF UpdateField, Bare, WithoutUpdate, TypeOK
<1>2. ASSUME NEW a \in Endpoints, DecodeField(a) PROVE Bare'
  <2>1. \A e \in Endpoints : Out(e) \in Tables /\ Out(e) # In(a)
    BY PeerFacts, OwnTables, TablesApart DEF WithoutUpdate
  <2>2. QED
    BY <1>2, <2>1 DEF DecodeField, Bare, TypeOK
<1>3. ASSUME NEW a \in Endpoints, NEW t \in Tables, NEW size \in Sizes, UpdateSize(a, t, size)
      PROVE  Bare'
  <2>1. Fit(<<>>, size) = <<>>
    BY SessionAssumption DEF Fit
  <2>2. QED
    BY <1>3, <2>1, PeerFacts DEF UpdateSize, Bare, TypeOK
<1>4. ASSUME UNCHANGED table PROVE Bare'
  BY <1>4 DEF Bare
<1>5. QED
  BY <1>1, <1>2, <1>3, <1>4
     DEF Next, vars, SendHeaders, UpdateReturn, RecvHeaders, DecodeFail, DecodeReturn, Deliver

\* With an empty table, only indices of the static table are in use.
LEMMA BareArrives ==
  ASSUME WithoutUpdate, TypeOK, DecodingAFrame, Sound(0)
  PROVE  DecodesAsSent
<1> SUFFICES ASSUME NEW e \in Endpoints, Reading(e)
             PROVE  NextField(e).idx < STATIC_TABLE_SIZE
  BY StaticTableAssumption, StaticFieldArrives DEF DecodesAsSent, WithoutUpdate
<1> DEFINE t == Incoming(e).tables[1]
           f == Incoming(e).list[pos[e] + 1]
<1>1. /\ FrameSound(Incoming(e), 0) /\ t \in Seq(Entry) /\ f \in HeaderField
      /\ NextField(e) = EncodeField(t, f) /\ FieldPermitted(t, f)
  BY SoundIncoming DEF Reading
<1>2. t = <<>>
  BY <1>1 DEF FrameSound
<1>3. Len(StaticTable) + Len(t) < 143 /\ Len(StaticTable) \in Nat
  BY <1>2, StaticTableAssumption DEF WithoutUpdate
<1> HIDE DEF t, f
<1>4. EncodeField(t, f).idx = IndexUsed(t, f)
  BY <1>1, <1>3, FieldRoundTrips DEF WithoutUpdate
<1>5. f.name \in Names /\ f.value \in Values /\ "" \in Values
  BY <1>1, EmptyStringAssumption DEF HeaderField
<1>6. ASSUME NEW value \in Values PROVE Find(t, f.name, value) < STATIC_TABLE_SIZE
  <2> DEFINE i == Find(t, f.name, value)
  <2>1. i \in Nat /\ (i # 0 => i \in Indices(t))
    BY <1>1, <1>5, FindSound
  <2>2. Len(t) = 0
    BY <1>2
  <2> HIDE DEF i
  <2>3. QED
    BY <1>3, <2>1, <2>2 DEF Indices, STATIC_TABLE_SIZE, i
<1>7. QED
  BY <1>1, <1>4, <1>5, <1>6 DEF IndexUsed

LEMMA ReproducedStep ==
  ASSUME TypeOK, DecodingAFrame, NEW n \in Int, Sound(n), DecodesAsSent,
         NEW e \in Endpoints, Reproduced(e), [Next]_vars
  PROVE  Reproduced(e)'
<1>1. Peer(e) \in Endpoints /\ Peer(e) # e
  BY PeerFacts
<1>2. ASSUME status'[e] = status[e], wire'[Peer(e)] = wire[Peer(e)],
             status[e] = "decoding" => pos'[e] = pos[e] /\ header_list'[e] = header_list[e]
      PROVE  Reproduced(e)'
  BY <1>2 DEF Reproduced, Incoming, Meaning
<1>3. ASSUME NEW a \in Endpoints, NEW list \in Lists[a], SendHeaders(a, list)
      PROVE  Reproduced(e)'
  <2>1. CASE a = e
    BY <1>3, <2>1 DEF SendHeaders, Reproduced, TypeOK
  <2>2. CASE a # e
    BY <1>2, <1>3, <2>2 DEF SendHeaders, TypeOK
  <2>3. QED
    BY <2>1, <2>2
<1>4. ASSUME NEW a \in Endpoints, UpdateField(a) PROVE Reproduced(e)'
  BY <1>2, <1>4 DEF UpdateField, TypeOK
<1>5. ASSUME NEW a \in Endpoints, UpdateReturn(a) PROVE Reproduced(e)'
  <2>1. CASE a = e
    BY <1>5, <2>1 DEF UpdateReturn, Reproduced, TypeOK
  <2>2. CASE a # e /\ status[e] = "decoding"
    <3>1. /\ wire'[Peer(e)] = wire[Peer(e)] \/ wire'[Peer(e)] = Append(wire[Peer(e)], outgoing[a])
          /\ wire[Peer(e)] \in Seq(Frame) /\ outgoing[a] \in Frame /\ wire[Peer(e)] # <<>>
      BY <1>1, <1>5, <2>2 DEF UpdateReturn, TypeOK, DecodingAFrame
    <3>2. Head(wire'[Peer(e)]) = Head(wire[Peer(e)])
      BY <3>1
    <3>3. UNCHANGED <<pos, header_list>>
      BY <1>5 DEF UpdateReturn
    <3>4. QED
      BY <2>2, <3>2, <3>3 DEF Reproduced, Incoming, Meaning
  <2>3. CASE a # e /\ status[e] # "decoding"
    BY <1>5, <2>3 DEF UpdateReturn, Reproduced, TypeOK
  <2>4. QED
    BY <2>1, <2>2, <2>3
<1>6. ASSUME NEW a \in Endpoints, RecvHeaders(a) PROVE Reproduced(e)'
  <2>1. CASE a = e
    <3>1. /\ wire[Peer(e)] \in Seq(Frame) /\ wire[Peer(e)] # <<>>
          /\ wire' = wire /\ pos'[e] = 0 /\ header_list'[e] = <<>>
      BY <1>1, <1>6, <2>1 DEF RecvHeaders, TypeOK
    <3>2. FrameSound(Incoming(e), n) /\ Incoming(e) \in Frame
      BY <1>1, <3>1 DEF Sound, Incoming
    <3>3. Len(Incoming(e).block) = Len(Incoming(e).list)
      BY <3>2, EncodeLength DEF FrameSound, Frame
    <3>4. QED
      BY <3>1, <3>3 DEF Reproduced, Incoming
  <2>2. CASE a # e
    BY <1>2, <1>6, <2>2 DEF RecvHeaders, TypeOK
  <2>3. QED
    BY <2>1, <2>2
<1>7. ASSUME NEW a \in Endpoints, DecodeField(a) PROVE Reproduced(e)'
  <2>1. CASE a = e
    <3> DEFINE header == Decoded(table[In(e)], NextField(e))
    <3>1. /\ status[e] = "decoding" /\ Reading(e) /\ UNCHANGED <<status, wire>>
          /\ header_list'[e] = Append(header_list[e], header)
          /\ pos'[e] = pos[e] + 1 /\ pos[e] \in Nat
          /\ header_list[e] \in Seq(Header)
      BY <1>7, <2>1 DEF DecodeField, Reading, TypeOK
    <3>2. header = Meaning(Incoming(e).list[pos[e] + 1])
      BY <3>1 DEF DecodesAsSent
    <3>3. /\ Len(Incoming(e).block) = Len(Incoming(e).list)
          /\ Len(header_list[e]) = pos[e]
          /\ \A k \in 1 .. pos[e] : header_list[e][k] = Meaning(Incoming(e).list[k])
      BY <3>1 DEF Reproduced
    <3> HIDE DEF header
    <3>4. /\ Len(header_list'[e]) = pos[e] + 1
          /\ header_list'[e][pos[e] + 1] = header
          /\ \A k \in 1 .. pos[e] : header_list'[e][k] = header_list[e][k]
      BY <3>1, <3>3
    <3>5. ASSUME NEW k \in 1 .. (pos[e] + 1)
          PROVE  header_list'[e][k] = Meaning(Incoming(e).list[k])
      <4>1. k \in 1 .. pos[e] \/ k = pos[e] + 1
        BY <3>1
      <4>2. QED
        BY <3>2, <3>3, <3>4, <4>1
    <3>6. QED
      BY <3>1, <3>3, <3>4, <3>5 DEF Reproduced, Incoming, Meaning
  <2>2. CASE a # e
    BY <1>2, <1>7, <2>2 DEF DecodeField, TypeOK
  <2>3. QED
    BY <2>1, <2>2
<1>8. ASSUME NEW a \in Endpoints, DecodeFail(a) \/ DecodeReturn(a) PROVE Reproduced(e)'
  <2>1. Deliver(a)
    BY <1>8 DEF DecodeFail, DecodeReturn
  <2>2. CASE a = e
    BY <2>1, <2>2 DEF Deliver, Reproduced, TypeOK
  <2>3. CASE a # e
    <3>1. Peer(a) # Peer(e)
      BY <2>3, PeerFacts
    <3>2. QED
      BY <1>1, <1>2, <2>1, <2>3, <3>1 DEF Deliver, TypeOK
  <2>4. QED
    BY <2>2, <2>3
<1>9. ASSUME NEW a \in Endpoints, NEW t \in Tables, NEW size \in Sizes, UpdateSize(a, t, size)
      PROVE  Reproduced(e)'
  BY <1>2, <1>9 DEF UpdateSize
<1>10. CASE UNCHANGED vars
  BY <1>2, <1>10 DEF vars
<1>11. QED
  BY <1>3, <1>4, <1>5, <1>6, <1>7, <1>8, <1>9, <1>10 DEF Next

LEMMA WithoutUpdateFaithful == ASSUME WithoutUpdate PROVE Spec => []Faithful
<1> DEFINE I == TypeOK /\ DecodingAFrame /\ Bare /\ Sound(0) /\ \A e \in Endpoints : Reproduced(e)
<1>1. Init => I
  <2>1. Init => Bare /\ \A e \in Endpoints : Reproduced(e)
    BY PeerFacts DEF Init, Bare, Reproduced
  <2>2. QED
    BY <2>1, TypeInit, SoundInit
<1>2. I /\ [Next]_vars => I'
  <2> SUFFICES ASSUME I, [Next]_vars PROVE I'
    OBVIOUS
  <2>1. TypeOK' /\ DecodingAFrame'
    BY TypeStep
  <2>2. Bare'
    BY BareStep
  <2>3. Sound(0)'
    BY SoundStep DEF Bare
  <2>4. \A e \in Endpoints : Reproduced(e)'
    BY BareArrives, ReproducedStep
  <2>5. QED
    BY <2>1, <2>2, <2>3, <2>4
<1>3. I => Faithful
  BY BareArrives DEF Faithful
<1>4. QED
  BY <1>1, <1>2, <1>3, PTL DEF Spec

-----------------------------------------------------------------------------
(* The channel of header lists.                                            *)

\* The list that Update is called for is one that the application sends.
ListIsSent == \A e \in Endpoints : status[e] = "updating" => outgoing[e].list \in Lists[e]

Basics == TypeOK /\ DecodingAFrame /\ ListIsSent

LEMMA ListIsSentStep == ASSUME TypeOK, ListIsSent, [Next]_vars PROVE ListIsSent'
<1>1. ASSUME NEW a \in Endpoints, NEW list \in Lists[a], SendHeaders(a, list)
      PROVE  ListIsSent'
  BY <1>1 DEF SendHeaders, ListIsSent, TypeOK
<1>2. ASSUME NEW a \in Endpoints, UpdateField(a) PROVE ListIsSent'
  <2>1. \A e \in Endpoints : outgoing'[e].list = outgoing[e].list
    BY <1>2 DEF UpdateField, TypeOK, Frame
  <2>2. QED
    BY <1>2, <2>1 DEF UpdateField, ListIsSent
<1>3. ASSUME NEW a \in Endpoints, UpdateReturn(a) PROVE ListIsSent'
  BY <1>3 DEF UpdateReturn, ListIsSent, TypeOK
<1>4. ASSUME NEW a \in Endpoints, RecvHeaders(a) PROVE ListIsSent'
  BY <1>4 DEF RecvHeaders, ListIsSent, TypeOK
<1>5. ASSUME NEW a \in Endpoints, DecodeField(a) PROVE ListIsSent'
  BY <1>5 DEF DecodeField, ListIsSent
<1>6. ASSUME NEW a \in Endpoints, DecodeFail(a) \/ DecodeReturn(a) PROVE ListIsSent'
  BY <1>6 DEF DecodeFail, DecodeReturn, Deliver, ListIsSent, TypeOK
<1>7. ASSUME NEW a \in Endpoints, NEW t \in Tables, NEW size \in Sizes, UpdateSize(a, t, size)
      PROVE  ListIsSent'
  BY <1>7 DEF UpdateSize, ListIsSent
<1>8. CASE UNCHANGED vars
  BY <1>8 DEF vars, ListIsSent
<1>9. QED
  BY <1>1, <1>2, <1>3, <1>4, <1>5, <1>6, <1>7, <1>8 DEF Next

LEMMA BasicsInit == Init => Basics
  BY TypeInit DEF Init, ListIsSent, Basics

LEMMA BasicsStep == Basics /\ [Next]_vars => Basics'
  BY TypeStep, ListIsSentStep DEF Basics

LEMMA ChannelPeers == Channel!Endpoints = Endpoints /\ \A e : Channel!Peer(e) = Peer(e)
  BY DEF Channel!Endpoints, Endpoints, Channel!Peer, Peer

\* A frame that joins those in flight is a list that joins the channel.
LEMMA SendMaps ==
  ASSUME Basics, NEW a \in Endpoints, UpdateReturn(a)
  PROVE  Channel!Send(a)
<1> DEFINE frame == outgoing[a]
           headers == Meanings(frame.list)
<1>1. /\ status[a] = "updating"
      /\ wire' = [wire EXCEPT ![a] = Append(@, frame)]
      /\ delivered' = delivered
  BY DEF UpdateReturn
<1>2. wire \in [Endpoints -> Seq(Frame)] /\ frame \in Frame
  BY DEF Basics, TypeOK
<1>3. headers \in {Meanings(list) : list \in UNION {Lists[e] : e \in Endpoints}}
  BY <1>1 DEF Basics, ListIsSent
<1> HIDE DEF headers
<1>4. Flight(a)' = Append(Flight(a), headers)
  <2> HIDE DEF frame
  <2>1. wire'[a] = Append(wire[a], frame) /\ wire[a] \in Seq(Frame)
    BY <1>1, <1>2
  <2>2. /\ Len(wire[a]) \in Nat /\ Len(wire'[a]) = Len(wire[a]) + 1
        /\ wire'[a][Len(wire[a]) + 1] = frame
        /\ \A k \in 1 .. Len(wire[a]) : wire'[a][k] = wire[a][k]
    BY <1>2, <2>1
  <2>3. /\ \A k \in 1 .. Len(wire[a]) : Meanings(wire'[a][k].list) = Meanings(wire[a][k].list)
        /\ Meanings(wire'[a][Len(wire[a]) + 1].list) = headers
    BY <2>2 DEF headers
  <2>4. Flight(a)' = [k \in 1 .. (Len(wire[a]) + 1) |-> Meanings(wire'[a][k].list)]
    BY <2>2 DEF Flight, Meanings, Meaning
  <2>5. Append(Flight(a), headers) =
          [k \in 1 .. (Len(wire[a]) + 1) |->
             IF k = Len(wire[a]) + 1 THEN headers ELSE Meanings(wire[a][k].list)]
    BY <2>2 DEF Flight
  <2>6. QED
    BY <2>2, <2>3, <2>4, <2>5
<1>5. \A e \in Endpoints : e # a => Flight(e)' = Flight(e)
  BY <1>1, <1>2 DEF Flight, Meanings, Meaning
<1>6. Flights' = [Flights EXCEPT ![a] = Append(@, headers)]
  BY <1>4, <1>5 DEF Flights
<1>7. QED
  BY <1>1, <1>3, <1>6 DEF Channel!Send

LEMMA MeaningsUnique ==
  ASSUME NEW list \in Seq(HeaderField), NEW headers \in Seq(Header),
         Len(headers) = Len(list),
         \A k \in 1 .. Len(list) : headers[k] = Meaning(list[k])
  PROVE  headers = Meanings(list)
<1>1. headers = [k \in 1 .. Len(headers) |-> headers[k]]
  OBVIOUS
<1>2. QED
  BY <1>1 DEF Meanings

\* What Decode has put together when it returns is the list at the head of the
\* channel.
LEMMA DeliverMaps ==
  ASSUME Basics, Faithful, NEW a \in Endpoints, DecodeReturn(a)
  PROVE  Channel!Deliver(a)
<1> DEFINE q == Peer(a)
           frame == wire[q][1]
<1>1. /\ status[a] = "decoding" /\ pos[a] = Len(Incoming(a).block)
      /\ wire' = [wire EXCEPT ![q] = Tail(@)]
      /\ delivered' = [delivered EXCEPT ![a] = header_list[a]]
  BY DEF DecodeReturn, Deliver
<1>2. /\ q \in Endpoints /\ q # a /\ Peer(q) = a
      /\ wire \in [Endpoints -> Seq(Frame)] /\ wire[q] # <<>>
      /\ Incoming(a) = frame /\ frame \in Frame
      /\ header_list[a] \in Seq(Header)
  <2>1. q \in Endpoints /\ q # a /\ Peer(q) = a
    BY PeerFacts
  <2>2. wire \in [Endpoints -> Seq(Frame)] /\ header_list[a] \in Seq(Header)
    BY DEF Basics, TypeOK
  <2>3. wire[q] # <<>>
    BY <1>1 DEF Basics, DecodingAFrame
  <2>4. QED
    BY <2>1, <2>2, <2>3 DEF Incoming
<1>3. /\ Len(wire[q]) \in Nat /\ Len(wire[q]) >= 1
      /\ wire'[q] = Tail(wire[q]) /\ Len(wire'[q]) = Len(wire[q]) - 1
      /\ \A k \in 1 .. (Len(wire[q]) - 1) : wire'[q][k] = wire[q][k + 1]
  BY <1>1, <1>2
<1>4. header_list[a] = Meanings(frame.list)
  <2>1. frame.list \in Seq(HeaderField)
    BY <1>2 DEF Frame
  <2>2. /\ Len(header_list[a]) = pos[a] /\ pos[a] = Len(frame.list)
        /\ \A k \in 1 .. pos[a] : header_list[a][k] = Meaning(frame.list[k])
    BY <1>1, <1>2 DEF Faithful, Reproduced
  <2> HIDE DEF frame
  <2>3. QED
    BY <1>2, <2>1, <2>2, MeaningsUnique
<1> HIDE DEF frame
<1>5. Flight(q) # <<>> /\ Head(Flight(q)) = header_list[a]
  <2>1. Flight(q)[1] = Meanings(frame.list) /\ Len(Flight(q)) = Len(wire[q])
    BY <1>3 DEF Flight, frame
  <2>2. QED
    BY <1>3, <1>4, <2>1
<1>6. Flight(q)' = Tail(Flight(q))
  <2>1. Flight(q)' = [k \in 1 .. (Len(wire[q]) - 1) |-> Meanings(wire'[q][k].list)]
    BY <1>3 DEF Flight, Meanings, Meaning
  <2>2. Tail(Flight(q)) = [k \in 1 .. (Len(wire[q]) - 1) |-> Meanings(wire[q][k + 1].list)]
    BY <1>3 DEF Flight
  <2>3. QED
    BY <1>3, <2>1, <2>2
<1>7. Flight(a)' = Flight(a)
  BY <1>1, <1>2 DEF Flight, Meanings, Meaning
<1>8. Flights' = [Flights EXCEPT ![q] = Tail(@)] /\ Flights[q] = Flight(q)
  <2>1. \A e \in Endpoints : e = a \/ e = q
    BY PeerFacts
  <2>2. QED
    BY <1>2, <1>6, <1>7, <2>1 DEF Flights
<1>9. /\ Flights[q] # <<>>
      /\ delivered' = [delivered EXCEPT ![a] = Head(Flights[q])]
      /\ Flights' = [Flights EXCEPT ![q] = Tail(@)]
  BY <1>1, <1>5, <1>8
<1>10. QED
  BY <1>9, ChannelPeers DEF Channel!Deliver

LEMMA ChannelStep ==
  ASSUME Basics, Faithful, [Next]_vars
  PROVE  [Channel!Next]_(Channel!channel)
<1>1. ASSUME UNCHANGED <<wire, delivered>> PROVE UNCHANGED Channel!channel
  BY <1>1 DEF Channel!channel, Flights, Flight, Meanings, Meaning
<1>2. ASSUME NEW a \in Endpoints, UpdateReturn(a) PROVE Channel!Next
  BY <1>2, SendMaps, ChannelPeers DEF Channel!Next
<1>3. ASSUME NEW a \in Endpoints, DecodeReturn(a) PROVE Channel!Next
  BY <1>3, DeliverMaps, ChannelPeers DEF Channel!Next
<1>4. ASSUME NEW a \in Endpoints, DecodeFail(a) PROVE FALSE
  BY <1>4 DEF DecodeFail, Faithful, DecodesAsSent
<1>5. ASSUME NEW a \in Endpoints, NEW list \in Lists[a],
             SendHeaders(a, list)
      PROVE  UNCHANGED <<wire, delivered>>
  BY <1>5 DEF SendHeaders
<1>6. ASSUME NEW a \in Endpoints, UpdateField(a) \/ RecvHeaders(a) \/ DecodeField(a)
      PROVE  UNCHANGED <<wire, delivered>>
  BY <1>6 DEF UpdateField, RecvHeaders, DecodeField
<1>7. ASSUME NEW a \in Endpoints, NEW t \in Tables, NEW size \in Sizes, UpdateSize(a, t, size)
      PROVE  UNCHANGED <<wire, delivered>>
  BY <1>7 DEF UpdateSize
<1>8. CASE UNCHANGED vars
  BY <1>1, <1>8 DEF vars
<1>9. QED
  BY <1>1, <1>2, <1>3, <1>4, <1>5, <1>6, <1>7, <1>8 DEF Next

LEMMA ChannelInit == Init => Channel!Init
<1> SUFFICES ASSUME Init PROVE Channel!Init
  OBVIOUS
<1>1. \A e \in Endpoints : Flight(e) = <<>>
  BY DEF Init, Flight
<1>2. Flights = [e \in Endpoints |-> <<>>]
  BY <1>1 DEF Flights
<1>3. QED
  BY <1>2, ChannelPeers DEF Channel!Init, Init

\* An exchange that is faithful implements the channel.
LEMMA ChannelFollows == Spec /\ []Faithful => DeliversLists
<1>1. Init => Basics /\ Channel!Init
  BY BasicsInit, ChannelInit
<1>2. Basics /\ Faithful /\ [Next]_vars => Basics' /\ [Channel!Next]_(Channel!channel)
  BY BasicsStep, ChannelStep
<1>3. QED
  BY <1>1, <1>2, PTL DEF Spec, DeliversLists, Channel!Spec

\* The two endpoints of careful applications implement the channel: every list
\* that is sent arrives once, in order, as it was sent.
THEOREM ChannelImplemented == ASSUME Careful PROVE Spec => DeliversLists
<1>1. QED
  BY CarefulFaithful, ChannelFollows, PTL

\* So do two endpoints with one Table each, as class Connection has, if they take
\* turns.
THEOREM ChannelByTurns == ASSUME TakingTurns PROVE Spec => DeliversLists
<1>1. QED
  BY TurnsFaithful, ChannelFollows, PTL

\* And two endpoints that never call Update, whatever sizes their tables have: what
\* the receiver inserts is never referred to.
THEOREM ChannelWithoutUpdate == ASSUME WithoutUpdate PROVE Spec => DeliversLists
<1>1. QED
  BY WithoutUpdateFaithful, ChannelFollows, PTL

=============================================================================
