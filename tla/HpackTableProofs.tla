-------------------------- MODULE HpackTableProofs --------------------------
(***************************************************************************)
(* What module HpackTable promises, for every static table, every set of   *)
(* blocks, lists and sizes, and behaviors of any length.                   *)
(***************************************************************************)
EXTENDS HpackTable, FiniteSetTheorems, TLAPS

-----------------------------------------------------------------------------
(* What the operators of HpackOps return, for every static table and every *)
(* set of names and values.                                                *)

\* The pop_back loops leave a prefix of the table, no longer than the size.
LEMMA FitPrefix ==
  ASSUME NEW t \in Seq(Entry), NEW m \in Nat
  PROVE  /\ Fit(t, m) \in Seq(Entry)
         /\ Len(Fit(t, m)) <= m
         /\ Len(Fit(t, m)) <= Len(t)
         /\ \A k \in 1 .. Len(Fit(t, m)) : Fit(t, m)[k] = t[k]
  BY DEF Fit

\* AppendToTable puts the new entry first and moves the others up by one.
LEMMA AppendShifts ==
  ASSUME NEW t \in Seq(Entry), NEW m \in Nat, NEW entry \in Entry
  PROVE  /\ AppendToTable(t, m, entry) \in Seq(Entry)
         /\ Len(AppendToTable(t, m, entry)) <= m
         /\ Len(AppendToTable(t, m, entry)) <= Len(t) + 1
         /\ Len(AppendToTable(t, m, entry)) >= 1 => AppendToTable(t, m, entry)[1] = entry
         /\ \A k \in 2 .. Len(AppendToTable(t, m, entry)) :
              AppendToTable(t, m, entry)[k] = t[k - 1]
<1> DEFINE longer == <<entry>> \o t
<1>1. /\ longer \in Seq(Entry)
      /\ Len(longer) = Len(t) + 1
      /\ longer[1] = entry
      /\ \A k \in 2 .. Len(longer) : longer[k] = t[k - 1]
  OBVIOUS
<1>2. AppendToTable(t, m, entry) = Fit(longer, m)
  BY DEF AppendToTable
<1> HIDE DEF longer
<1>3. QED
  BY <1>1, <1>2, FitPrefix

\* An index that Decode accepts denotes an entry.
LEMMA EntryAtType ==
  ASSUME NEW t \in Seq(Entry), NEW i \in Indices(t)
  PROVE  EntryAt(t, i) \in Entry
  BY StaticTableAssumption DEF Indices, EntryAt, STATIC_TABLE_SIZE

\* A representation that Decode accepts stands for a name and a value.
LEMMA DecodedEntryType ==
  ASSUME NEW t \in Seq(Entry), NEW r \in Representation,
         r.kind # "size", ~Undecodable(t, r)
  PROVE  DecodedEntry(t, r) \in Entry
<1>1. r.kind \in Types /\ r.idx \in Nat /\ r.name \in Names /\ r.value \in Values
  BY DEF Representation
<1>2. CASE r.kind = "indexed"
  BY <1>2, EntryAtType DEF Undecodable, DecodedEntry
<1>3. CASE r.kind # "indexed"
  <2>1. r.idx # 0 => EntryAt(t, r.idx) \in Entry
    BY <1>1, <1>3, EntryAtType DEF Undecodable, LiteralTypes
  <2>2. (IF r.idx = 0 THEN r.name ELSE EntryAt(t, r.idx).name) \in Names
    BY <1>1, <2>1 DEF Entry
  <2>3. QED
    BY <1>1, <1>3, <2>2 DEF DecodedEntry, Entry
<1>4. QED
  BY <1>2, <1>3

-----------------------------------------------------------------------------
(* Type correctness.                                                       *)

\* Everything the object holds has its type in every state.
THEOREM TypeCorrect == Spec => []TypeOK
<1>1. Init => TypeOK
  BY TableAssumption DEF Init, TypeOK
<1>2. TypeOK /\ [Next]_vars => TypeOK'
  <2> SUFFICES ASSUME TypeOK, [Next]_vars PROVE TypeOK'
    OBVIOUS
  <2> USE DEF TypeOK
  <2>1. ASSUME NEW block \in Blocks, Receive(block) PROVE TypeOK'
    BY <2>1, TableAssumption DEF Receive
  <2>2. CASE DecodeField
    <3> DEFINE r == Head(rest)
    <3>1. r \in Representation /\ Tail(rest) \in Seq(Representation)
      BY <2>2 DEF DecodeField
    <3>2. DecodedEntry(table, r) \in Entry
      BY <2>2, <3>1, DecodedEntryType DEF DecodeField
    <3>3. r.kind \in Types
      BY <2>2, <3>1 DEF DecodeField, Representation
    <3> HIDE DEF r
    <3>4. TableAfter(table, max, r) \in Seq(Entry)
      BY <2>2, <3>2, <3>3, AppendShifts DEF TableAfter, Types
    <3>5. [type |-> r.kind, entry |-> DecodedEntry(table, r)] \in Field
      BY <3>2, <3>3 DEF Field
    <3>6. QED
      BY <2>2, <3>1, <3>2, <3>4, <3>5 DEF DecodeField, r
  <2>3. CASE DecodeSize
    <3> DEFINE r == Head(rest)
    <3>1. r \in Representation /\ Tail(rest) \in Seq(Representation)
      BY <2>3 DEF DecodeSize
    <3>2. r.idx \in Nat
      BY <3>1 DEF Representation
    <3> HIDE DEF r
    <3>3. Fit(table, r.idx) \in Seq(Entry)
      BY <3>2, FitPrefix
    <3>4. QED
      BY <2>3, <3>1, <3>2, <3>3 DEF DecodeSize, TableAfter, MaxAfter, r
  <2>4. CASE DecodeFail
    BY <2>4 DEF DecodeFail
  <2>5. CASE DecodeReturn
    BY <2>5 DEF DecodeReturn
  <2>6. ASSUME NEW list \in Lists, CallUpdate(list) PROVE TypeOK'
    BY <2>6, TableAssumption DEF CallUpdate
  <2>7. CASE UpdateField
    <3> DEFINE f == Head(fields)
    <3>1. f \in HeaderField /\ Tail(fields) \in Seq(HeaderField)
      BY <2>7 DEF UpdateField
    <3>2. EntryOf(f) \in Entry
      BY <3>1 DEF EntryOf, Entry, HeaderField
    <3> HIDE DEF f
    <3>3. UpdatedTable(table, max, f) \in Seq(Entry)
      BY <3>2, AppendShifts DEF UpdatedTable
    <3>4. QED
      BY <2>7, <3>1, <3>2, <3>3 DEF UpdateField, f
  <2>8. CASE UpdateReturn
    BY <2>8 DEF UpdateReturn
  <2>9. ASSUME NEW size \in Sizes, UpdateSize(size) PROVE TypeOK'
    <3>1. size \in Nat /\ Fit(table, size) \in Seq(Entry)
      BY TableAssumption, FitPrefix
    <3>2. QED
      BY <2>9, <3>1 DEF UpdateSize
  <2>10. CASE UNCHANGED vars
    BY <2>10 DEF vars
  <2>11. QED
    BY <2>1, <2>2, <2>3, <2>4, <2>5, <2>6, <2>7, <2>8, <2>9, <2>10 DEF Next
<1>3. QED
  BY <1>1, <1>2, PTL DEF Spec

-----------------------------------------------------------------------------
(* The size and the order of the table.                                    *)

\* Neither is disturbed by an insertion of Decode or of Update...
LEMMA InsertionKeepsOrder ==
  ASSUME TypeOK, NewestFirst, NEW entry \in Entry,
         table' = AppendToTable(table, max, entry),
         inserted' = Append(inserted, entry)
  PROVE  NewestFirst' /\ Len(table') <= max
<1> DEFINE t == AppendToTable(table, max, entry)
<1>1. table \in Seq(Entry) /\ max \in Nat /\ inserted \in Seq(Entry)
  BY DEF TypeOK
<1>2. /\ t \in Seq(Entry)
      /\ Len(t) <= max
      /\ Len(t) <= Len(table) + 1
      /\ Len(t) >= 1 => t[1] = entry
      /\ \A k \in 2 .. Len(t) : t[k] = table[k - 1]
  BY <1>1, AppendShifts
<1>3. table' = t
  OBVIOUS
<1> HIDE DEF t
<1>4. /\ Len(inserted') = Len(inserted) + 1
      /\ inserted'[Len(inserted) + 1] = entry
      /\ \A k \in 1 .. Len(inserted) : inserted'[k] = inserted[k]
  BY <1>1
<1>5. Len(t) <= Len(inserted')
  BY <1>1, <1>2, <1>4 DEF NewestFirst
<1>6. ASSUME NEW k \in 1 .. Len(t) PROVE t[k] = inserted'[Len(inserted') + 1 - k]
  <2>1. CASE k = 1
    BY <2>1, <1>1, <1>2, <1>4
  <2>2. CASE k # 1
    <3>1. k - 1 \in 1 .. Len(table) /\ t[k] = table[k - 1]
      BY <2>2, <1>1, <1>2
    <3>2. t[k] = inserted[Len(inserted) + 1 - (k - 1)]
      BY <3>1 DEF NewestFirst
    <3>3. /\ Len(inserted) + 1 - (k - 1) \in 1 .. Len(inserted)
          /\ Len(inserted) + 1 - (k - 1) = Len(inserted') + 1 - k
      BY <2>2, <3>1, <1>1, <1>4 DEF NewestFirst
    <3>4. QED
      BY <3>2, <3>3, <1>4
  <2>3. QED
    BY <2>1, <2>2
<1>7. QED
  BY <1>2, <1>3, <1>5, <1>6 DEF NewestFirst

\* ... nor by an eviction.
LEMMA EvictionKeepsOrder ==
  ASSUME TypeOK, NewestFirst, NEW size \in Nat,
         table' = Fit(table, size), inserted' = inserted
  PROVE  NewestFirst' /\ Len(table') <= size
<1> DEFINE t == Fit(table, size)
<1>1. /\ t \in Seq(Entry) /\ Len(t) <= size /\ Len(t) <= Len(table)
      /\ \A k \in 1 .. Len(t) : t[k] = table[k]
  BY FitPrefix DEF TypeOK
<1>2. table' = t
  OBVIOUS
<1> HIDE DEF t
<1>3. QED
  BY <1>1, <1>2 DEF NewestFirst, TypeOK

\* Both invariants together: every step inserts one entry, evicts, or leaves the
\* table alone.
LEMMA StepKeepsOrder ==
  ASSUME TypeOK, SizeBounded, NewestFirst, [Next]_vars
  PROVE  SizeBounded' /\ NewestFirst'
<1>1. CASE UNCHANGED <<table, max, inserted>>
  BY <1>1 DEF SizeBounded, NewestFirst
<1>2. ASSUME NEW block \in Blocks, Receive(block) PROVE UNCHANGED <<table, max, inserted>>
  BY <1>2 DEF Receive
<1>3. CASE DecodeField
  <2> DEFINE r == Head(rest)
  <2>1. r \in Representation /\ r.kind # "size" /\ ~Undecodable(table, r)
    BY <1>3 DEF DecodeField, TypeOK
  <2>2. DecodedEntry(table, r) \in Entry
    BY <2>1, DecodedEntryType DEF TypeOK
  <2>3. CASE r.kind = "incremental"
    <3>1. /\ table' = AppendToTable(table, max, DecodedEntry(table, r))
          /\ inserted' = Append(inserted, DecodedEntry(table, r))
          /\ max' = max
      BY <1>3, <2>3 DEF DecodeField, TableAfter
    <3>2. QED
      BY <2>2, <3>1, InsertionKeepsOrder DEF SizeBounded
  <2>4. CASE r.kind # "incremental"
    BY <1>1, <1>3, <2>1, <2>4 DEF DecodeField, TableAfter
  <2>5. QED
    BY <2>3, <2>4
<1>4. CASE DecodeSize
  <2> DEFINE size == Head(rest).idx
  <2>1. size \in Nat
    <3>1. Head(rest) \in Representation
      BY <1>4 DEF DecodeSize, TypeOK
    <3>2. QED
      BY <3>1 DEF Representation
  <2>2. table' = Fit(table, size) /\ inserted' = inserted /\ max' = size
    BY <1>4 DEF DecodeSize, TableAfter, MaxAfter
  <2>3. QED
    BY <2>1, <2>2, EvictionKeepsOrder DEF SizeBounded
<1>5. CASE DecodeFail
  BY <1>1, <1>5 DEF DecodeFail
<1>6. CASE DecodeReturn
  BY <1>1, <1>6 DEF DecodeReturn
<1>7. ASSUME NEW list \in Lists, CallUpdate(list) PROVE UNCHANGED <<table, max, inserted>>
  BY <1>7 DEF CallUpdate
<1>8. CASE UpdateField
  <2> DEFINE f == Head(fields)
  <2>1. EntryOf(f) \in Entry
    <3>1. f \in HeaderField
      BY <1>8 DEF UpdateField, TypeOK
    <3>2. QED
      BY <3>1 DEF EntryOf, Entry, HeaderField
  <2>2. CASE f.type = "incremental"
    <3>1. /\ table' = AppendToTable(table, max, EntryOf(f))
          /\ inserted' = Append(inserted, EntryOf(f))
          /\ max' = max
      BY <1>8, <2>2 DEF UpdateField, UpdatedTable
    <3>2. QED
      BY <2>1, <3>1, InsertionKeepsOrder DEF SizeBounded
  <2>3. CASE f.type # "incremental"
    BY <1>1, <1>8, <2>3 DEF UpdateField, UpdatedTable
  <2>4. QED
    BY <2>2, <2>3
<1>9. CASE UpdateReturn
  BY <1>1, <1>9 DEF UpdateReturn
<1>10. ASSUME NEW size \in Sizes, UpdateSize(size) PROVE SizeBounded' /\ NewestFirst'
  BY <1>10, EvictionKeepsOrder, TableAssumption DEF UpdateSize, SizeBounded
<1>11. CASE UNCHANGED vars
  BY <1>1, <1>11 DEF vars
<1>12. QED
  BY <1>1, <1>2, <1>3, <1>4, <1>5, <1>6, <1>7, <1>8, <1>9, <1>10, <1>11 DEF Next

\* However large the peer makes or leaves the table, it holds at most as many
\* entries as the size in force.
THEOREM SizeIsBounded == Spec => []SizeBounded
<1>1. Init => SizeBounded /\ NewestFirst
  BY TableAssumption DEF Init, SizeBounded, NewestFirst
<1>2. QED
  BY <1>1, StepKeepsOrder, TypeCorrect, PTL DEF Spec

\* Every index of the dynamic table denotes the insertion it stands for.
THEOREM TableIsNewestFirst == Spec => []NewestFirst
<1>1. Init => SizeBounded /\ NewestFirst
  BY TableAssumption DEF Init, SizeBounded, NewestFirst
<1>2. QED
  BY <1>1, StepKeepsOrder, TypeCorrect, PTL DEF Spec

-----------------------------------------------------------------------------
(* The header list and the table.                                          *)

\* A field is pushed, and inserted if its type says so: the fields before it keep
\* their numbers.
LEMMA PushKeepsCount ==
  ASSUME TypeOK, ListAndTableAgree, status \in {"decoding", "failed"}, NEW field \in Field,
         header_list' = Append(header_list, field), base' = base,
         inserted' = IF field.type = "incremental" THEN Append(inserted, field.entry)
                     ELSE inserted
  PROVE  ListAndTableAgree'
<1> DEFINE n == Len(header_list)
           P == Inserting
           Below(k) == {j \in P : j <= k}
<1>1. /\ header_list \in Seq(Field) /\ n \in Nat /\ inserted \in Seq(Entry)
      /\ base \in Nat /\ Len(inserted) \in Nat
  BY DEF TypeOK
<1>2. /\ DOMAIN header_list' = 1 .. (n + 1) /\ header_list'[n + 1] = field
      /\ \A k \in 1 .. n : header_list'[k] = header_list[k]
  BY <1>1
<1>3. P \subseteq 1 .. n /\ P = {k \in 1 .. n : header_list[k].type = "incremental"}
  BY <1>1 DEF Inserting
<1>4. IsFiniteSet(P) /\ Cardinality(P) \in Nat /\ n + 1 \notin P
  <2>1. 1 \in Int /\ n \in Int
    BY <1>1
  <2>2. IsFiniteSet(1 .. n)
    BY <2>1, FS_Interval, Zenon
  <2>3. IsFiniteSet(P) /\ Cardinality(P) \in Nat
    BY <1>3, <2>2, FS_Subset, FS_CardinalityType
  <2>4. n + 1 \notin 1 .. n
    BY <1>1
  <2>5. QED
    BY <1>3, <2>3, <2>4
<1>5. Inserting' = IF field.type = "incremental" THEN P \union {n + 1} ELSE P
  <2>1. Inserting' = {k \in 1 .. (n + 1) : header_list'[k].type = "incremental"}
    BY <1>2 DEF Inserting
  <2>2. \A k : k \in 1 .. (n + 1) <=> k \in 1 .. n \/ k = n + 1
    BY <1>1
  <2>3. QED
    BY <1>2, <1>3, <2>1, <2>2
<1>6. /\ Len(inserted) = base + Cardinality(P)
      /\ \A k \in P : inserted[base + Cardinality(Below(k))] = header_list[k].entry
  BY DEF ListAndTableAgree
<1> HIDE DEF P
<1>7. ASSUME NEW k \in P
      PROVE  /\ {j \in Inserting' : j <= k} = Below(k)
             /\ base + Cardinality(Below(k)) \in 1 .. Len(inserted)
             /\ header_list'[k].entry = inserted[base + Cardinality(Below(k))]
  <2>1. k \in 1 .. n /\ ~(n + 1 <= k)
    BY <1>1, <1>3
  <2>2. {j \in Inserting' : j <= k} = Below(k)
    BY <1>5, <2>1
  <2>3. Below(k) \subseteq P /\ k \in Below(k)
    BY <1>3, <2>1
  <2>4. /\ IsFiniteSet(Below(k)) /\ Cardinality(Below(k)) <= Cardinality(P)
        /\ Cardinality(Below(k)) \in Nat
    BY <1>4, <2>3, FS_Subset, FS_CardinalityType
  <2>5. Cardinality(Below(k)) # 0
    BY <2>3, <2>4, FS_EmptySet
  <2>6. base + Cardinality(Below(k)) \in 1 .. Len(inserted)
    BY <1>1, <1>4, <1>6, <2>4, <2>5
  <2>7. QED
    BY <1>2, <1>6, <2>1, <2>2, <2>6
<1> HIDE DEF Below
<1>8. CASE field.type = "incremental"
  <2>1. /\ inserted' = Append(inserted, field.entry) /\ field.entry \in Entry
        /\ Inserting' = P \union {n + 1}
    BY <1>5, <1>8 DEF Field
  <2>2. /\ Len(inserted') = Len(inserted) + 1 /\ inserted'[Len(inserted) + 1] = field.entry
        /\ \A i \in 1 .. Len(inserted) : inserted'[i] = inserted[i]
    BY <1>1, <2>1
  <2>3. Cardinality(P \union {n + 1}) = Cardinality(P) + 1
    BY <1>4, FS_AddElement
  <2>4. Len(inserted') = base' + Cardinality(Inserting')
    BY <1>1, <1>4, <1>6, <2>1, <2>2, <2>3
  <2>5. {j \in Inserting' : j <= n + 1} = Inserting'
    <3>1. \A j \in Inserting' : j <= n + 1
      BY <1>1, <1>3, <2>1
    <3>2. QED
      BY <3>1
  <2>6. ASSUME NEW k \in Inserting'
        PROVE  inserted'[base' + Cardinality({j \in Inserting' : j <= k})] = header_list'[k].entry
    <3>1. CASE k = n + 1
      BY <1>1, <1>2, <2>2, <2>4, <2>5, <3>1
    <3>2. CASE k \in P
      BY <1>7, <2>2, <3>2
    <3>3. QED
      BY <2>1, <3>1, <3>2
  <2>7. QED
    BY <2>4, <2>6 DEF ListAndTableAgree
<1>9. CASE field.type # "incremental"
  <2>1. inserted' = inserted /\ Inserting' = P
    BY <1>5, <1>9
  <2>2. \A k \in Inserting' :
          inserted'[base' + Cardinality({j \in Inserting' : j <= k})] = header_list'[k].entry
    BY <1>7, <2>1
  <2>3. QED
    BY <1>6, <2>1, <2>2 DEF ListAndTableAgree
<1>10. QED
  BY <1>8, <1>9

LEMMA StepKeepsAgreement ==
  ASSUME TypeOK, ListAndTableAgree, [Next]_vars
  PROVE  ListAndTableAgree'
<1>1. CASE UNCHANGED <<header_list, inserted, base>>
           /\ (status' \in {"decoding", "failed"} => status \in {"decoding", "failed"})
  BY <1>1 DEF ListAndTableAgree, Inserting
<1>2. CASE status' \notin {"decoding", "failed"}
  BY <1>2 DEF ListAndTableAgree
<1>3. ASSUME NEW block \in Blocks, Receive(block) PROVE ListAndTableAgree'
  <2>1. header_list' = <<>> /\ base' = Len(inserted) /\ inserted' = inserted
    BY <1>3 DEF Receive
  <2>2. Inserting' = {}
    BY <2>1 DEF Inserting
  <2>3. Len(inserted') = base' + Cardinality(Inserting')
    BY <2>1, <2>2, FS_EmptySet DEF TypeOK
  <2>4. QED
    BY <2>2, <2>3 DEF ListAndTableAgree
<1>4. CASE DecodeField
  <2> DEFINE r == Head(rest)
             e == DecodedEntry(table, r)
             field == [type |-> r.kind, entry |-> e]
  <2>1. r \in Representation /\ r.kind # "size" /\ ~Undecodable(table, r) /\ status = "decoding"
    BY <1>4 DEF DecodeField, TypeOK
  <2>2. e \in Entry
    BY <2>1, DecodedEntryType DEF TypeOK
  <2>3. field \in Field
    BY <2>1, <2>2 DEF Field, Representation
  <2>4. /\ header_list' = Append(header_list, field) /\ base' = base
        /\ inserted' = IF r.kind = "incremental" THEN Append(inserted, e) ELSE inserted
    BY <1>4 DEF DecodeField
  <2>5. field.type = r.kind /\ field.entry = e
    OBVIOUS
  <2> HIDE DEF r, e, field
  <2>6. QED
    BY <2>1, <2>3, <2>4, <2>5, PushKeepsCount
<1>5. CASE DecodeSize
  BY <1>1, <1>5 DEF DecodeSize
<1>6. CASE DecodeFail
  BY <1>1, <1>6 DEF DecodeFail
<1>7. CASE DecodeReturn
  BY <1>2, <1>7 DEF DecodeReturn
<1>8. ASSUME NEW list \in Lists, CallUpdate(list) PROVE ListAndTableAgree'
  BY <1>2, <1>8 DEF CallUpdate
<1>9. CASE UpdateField
  BY <1>2, <1>9 DEF UpdateField
<1>10. CASE UpdateReturn
  BY <1>2, <1>10 DEF UpdateReturn
<1>11. ASSUME NEW size \in Sizes, UpdateSize(size) PROVE ListAndTableAgree'
  BY <1>2, <1>11 DEF UpdateSize
<1>12. CASE UNCHANGED vars
  BY <1>1, <1>12 DEF vars
<1>13. QED
  BY <1>3, <1>4, <1>5, <1>6, <1>7, <1>8, <1>9, <1>10, <1>11, <1>12 DEF Next

\* However far Decode has come in a block, and where it has given one up, the fields
\* of header_list that are to be inserted are the insertions since it was entered, in
\* their order: none is pushed without being inserted, or the other way round.
THEOREM ListFollowsTable == Spec => []ListAndTableAgree
<1>1. Init => ListAndTableAgree
  BY DEF Init, ListAndTableAgree
<1>2. QED
  BY <1>1, StepKeepsAgreement, TypeCorrect, PTL DEF Spec

=============================================================================
