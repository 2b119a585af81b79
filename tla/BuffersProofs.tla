--------------------------- MODULE BuffersProofs ---------------------------
(***************************************************************************)
(* The memory of Buffers, for any objects, blocks, strings and any width   *)
(* of unsigned int.                                                        *)
(***************************************************************************)
EXTENDS Buffers, SequenceTheorems, TLAPS

-----------------------------------------------------------------------------
(* The operators.                                                          *)

LEMMA Constants ==
  /\ Limit \in Nat \ {0} /\ MinCapacity \in Nat
  /\ \A n \in Lengths : n \in Nat /\ n < Limit
  /\ \A c \in Capacities : c \in Lengths
  /\ \A min : Grown(min) \subseteq Capacities /\ \A c \in Grown(min) : min <= c
BY BuffersAssumption DEF Lengths, Capacities, Grown

LEMMA SeqOfFunction ==
  ASSUME NEW S, NEW n \in Nat, NEW f \in [1 .. n -> S]
  PROVE  f \in Seq(S) /\ Len(f) = n
OBVIOUS

LEMMA WrittenType ==
  ASSUME NEW cells \in Seq(Cell), NEW at \in Nat, NEW s \in Seq(Cell)
  PROVE  Written(cells, at, s) \in Seq(Cell) /\ Len(Written(cells, at, s)) = Len(cells)
<1>1. \A i \in at + 1 .. at + Len(s) : s[i - at] \in Cell
  OBVIOUS
<1>2. Written(cells, at, s) \in [1 .. Len(cells) -> Cell]
  BY <1>1 DEF Written
<1>3. QED
  BY <1>2, SeqOfFunction

LEMMA ResizedType ==
  ASSUME NEW cells \in Seq(Cell), NEW c \in Nat
  PROVE  Resized(cells, c) \in Seq(Cell) /\ Len(Resized(cells, c)) = c
<1>1. Resized(cells, c) \in [1 .. c -> Cell]
  BY DEF Resized, Cell
<1>2. QED
  BY <1>1, SeqOfFunction

LEMMA ContentType ==
  ASSUME TypeOK, NEW a \in Objects, Exists(a), Readable(a)
  PROVE  Content(a) \in Seq(Cell) /\ Len(Content(a)) = objects[a].len
<1> DEFINE b == objects[a].block
           n == objects[a].len
<1>1. n \in Nat
  BY Constants DEF TypeOK, Exists, Buffer
<1>2. CASE n = 0
  BY <1>2 DEF Content
<1>3. CASE n # 0
  <2>1. heap[b] \in Seq(Cell) /\ n <= Len(heap[b])
    BY <1>1, <1>3 DEF TypeOK, Readable, Live
  <2> HIDE DEF b, n
  <2>2. \A i \in 1 .. n : heap[b][i] \in Cell
    BY <1>1, <2>1
  <2>3. SubSeq(heap[b], 1, n) \in Seq(Cell) /\ Len(SubSeq(heap[b], 1, n)) = n
    BY <1>1, <1>3, <2>2, SubSeqProperties
  <2>4. QED
    BY <1>3, <2>3 DEF Content, b, n
<1>4. QED
  BY <1>2, <1>3

-----------------------------------------------------------------------------
(* What a store does to the memory.                                        *)

\* A copy too has a length within its capacity, whatever has become of its block.
WithinCapacity == \A o \in Objects : Exists(o) => objects[o].len <= objects[o].max_len

Intact == TypeOK /\ OwnBlock /\ WithinCapacity

LEMMA FailKeeps ==
  ASSUME Intact, NEW what \in {"hangs", "memory"}, Fail(what), huge' \in BOOLEAN
  PROVE  Intact'
BY DEF Intact, TypeOK, OwnBlock, WithinCapacity, Fail, Exists, Live

LEMMA StoreInPlaceKeeps ==
  ASSUME Intact, NEW o \in Objects, Exists(o), NEW from, NEW s \in Seq(Cell),
         NEW at \in Nat, NEW n \in Lengths, n <= objects[o].max_len,
         StoreInPlace(o, from, s, at, n), huge' \in BOOLEAN
  PROVE  Intact'
<1> DEFINE block == objects[o].block
<1>1. CASE Fail("memory")
  BY <1>1, FailKeeps
<1>2. ASSUME s # <<>> => Live(block),
             heap' = IF s = <<>> THEN heap ELSE [heap EXCEPT ![block] = Written(@, at, s)],
             objects' = [objects EXCEPT ![o].len = n], UNCHANGED <<mates, fault>>
      PROVE  Intact'
  <2>1. \A b \in DOMAIN heap : /\ b \in DOMAIN heap'
                               /\ heap'[b] \in Seq(Cell) /\ Len(heap'[b]) = Len(heap[b])
    BY <1>2, WrittenType DEF Intact, TypeOK, Live
  <2>2. DOMAIN heap' = DOMAIN heap
    BY <1>2
  <2>3. TypeOK'
    BY <1>2, <2>1, <2>2 DEF Intact, TypeOK, Exists, Buffer
  <2>4. \A p \in Objects : /\ Exists(p)' => Exists(p)
                           /\ Exists(p) => /\ objects'[p].block = objects[p].block
                                           /\ objects'[p].max_len = objects[p].max_len
                           /\ p # o => objects'[p] = objects[p]
    BY <1>2 DEF Intact, TypeOK, Exists, Buffer
  <2>5. objects'[o].len = n
    BY <1>2 DEF Intact, TypeOK, Exists, Buffer
  <2>6. OwnBlock'
    <3> SUFFICES ASSUME NEW p \in Objects \ mates, Exists(p)'
                 PROVE  /\ Live(objects[p].block)'
                        /\ Len(heap'[objects'[p].block]) = objects'[p].max_len
                        /\ objects'[p].len <= objects'[p].max_len
                        /\ \A q \in Objects \ {p} : Exists(q)' =>
                             objects'[q].block # objects'[p].block
      BY <1>2 DEF OwnBlock
    <3>1. Exists(p) /\ objects'[p].block = objects[p].block
                    /\ objects'[p].max_len = objects[p].max_len
      BY <2>4
    <3>2. /\ Live(objects[p].block) /\ Len(heap[objects[p].block]) = objects[p].max_len
          /\ objects[p].len <= objects[p].max_len
          /\ \A q \in Objects \ {p} : Exists(q) => objects[q].block # objects[p].block
      BY <3>1 DEF Intact, OwnBlock
    <3>3. Live(objects[p].block)' /\ Len(heap'[objects'[p].block]) = objects'[p].max_len
      BY <2>1, <3>1, <3>2 DEF Live
    <3>4. objects'[p].len <= objects'[p].max_len
      BY <2>4, <2>5, <3>1, <3>2
    <3>5. \A q \in Objects \ {p} : Exists(q)' => objects'[q].block # objects'[p].block
      BY <2>4, <3>1, <3>2
    <3>6. QED
      BY <3>3, <3>4, <3>5
  <2>7. WithinCapacity'
    BY <2>4, <2>5 DEF Intact, WithinCapacity
  <2>8. QED
    BY <2>3, <2>6, <2>7 DEF Intact
<1>3. QED
  BY <1>1, <1>2 DEF StoreInPlace

LEMMA StoreReallocatedKeeps ==
  ASSUME Intact, NEW o \in Objects, Exists(o), NEW from, NEW s \in Seq(Cell),
         NEW at \in Nat, NEW need \in Lengths, NEW n \in Lengths, n <= need,
         StoreReallocated(o, from, s, at, need, n), huge' \in BOOLEAN
  PROVE  Intact'
<1> DEFINE block == objects[o].block
<1>1. CASE Fail("hangs") \/ Fail("memory")
  BY <1>1, FailKeeps
<1>2. ASSUME NEW c \in Grown(need), NEW b \in Fresh \union {block}, Live(block),
             heap' = [id \in (DOMAIN heap \ {block}) \union {b} |->
                        IF id = b THEN Written(Resized(heap[block], c), at, s) ELSE heap[id]],
             objects' = [objects EXCEPT ![o] = [block |-> b, len |-> n, max_len |-> c]],
             UNCHANGED <<mates, fault>>
      PROVE  Intact'
  <2> DEFINE cells == Written(Resized(heap[block], c), at, s)
  <2>1. c \in Capacities /\ c \in Nat /\ need <= c /\ n <= c
    BY Constants
  <2>2. heap[block] \in Seq(Cell) /\ block \in Blocks
    BY <1>2 DEF Intact, TypeOK, Live, Exists, Buffer
  <2>3. cells \in Seq(Cell) /\ Len(cells) = c
    <3>1. Resized(heap[block], c) \in Seq(Cell) /\ Len(Resized(heap[block], c)) = c
      BY <2>1, <2>2, ResizedType
    <3>2. QED
      BY <3>1, WrittenType
  <2>4. b \in Blocks
    BY <2>2 DEF Fresh, Free
  <2>5. b # block => /\ b \notin DOMAIN heap
                     /\ \A p \in Objects : Exists(p) => objects[p].block # b
    BY DEF Fresh, Free, Live
  <2> HIDE DEF cells
  <2>6. /\ DOMAIN heap' = (DOMAIN heap \ {block}) \union {b}
        /\ heap'[b] = cells
        /\ \A id \in DOMAIN heap \ {block} : heap'[id] = heap[id]
    BY <1>2, <2>5 DEF cells
  <2> DEFINE new == [block |-> b, len |-> n, max_len |-> c]
  <2>7. new \in Buffer
    BY <2>1, <2>4 DEF Buffer
  <2>8. /\ objects'[o] = new
        /\ \A p \in Objects \ {o} : objects'[p] = objects[p]
        /\ objects' \in [Objects -> Buffer \union {None}]
    BY <1>2, <2>7 DEF Intact, TypeOK
  <2>9. new.block = b /\ new.len = n /\ new.max_len = c
    OBVIOUS
  <2> HIDE DEF new
  <2>10. TypeOK'
    <3>1. \A id \in DOMAIN heap' : heap'[id] \in Seq(Cell) /\ Len(heap'[id]) \in Capacities
      BY <2>1, <2>3, <2>6 DEF Intact, TypeOK
    <3>2. DOMAIN heap' \subseteq Blocks
      BY <2>4, <2>6 DEF Intact, TypeOK
    <3>3. QED
      BY <1>2, <2>8, <3>1, <3>2 DEF Intact, TypeOK
  <2>11. OwnBlock'
    <3> SUFFICES ASSUME NEW p \in Objects \ mates, Exists(p)'
                 PROVE  /\ Live(objects[p].block)'
                        /\ Len(heap'[objects'[p].block]) = objects'[p].max_len
                        /\ objects'[p].len <= objects'[p].max_len
                        /\ \A q \in Objects \ {p} : Exists(q)' =>
                             objects'[q].block # objects'[p].block
      BY <1>2 DEF OwnBlock
    <3>1. CASE p = o
      <4>1. Live(b)' /\ Len(heap'[b]) = c
        BY <2>3, <2>6 DEF Live
      <4>2. ASSUME NEW q \in Objects \ {o}, Exists(q)' PROVE objects'[q].block # b
        <5>1. Exists(q) /\ objects'[q] = objects[q]
          BY <2>8, <4>2 DEF Exists
        <5>2. b = block => objects[q].block # block
          BY <3>1, <5>1 DEF Intact, OwnBlock
        <5>3. QED
          BY <2>5, <5>1, <5>2
      <4>3. QED
        BY <2>1, <2>8, <2>9, <3>1, <4>1, <4>2
    <3>2. CASE p # o
      <4>1. Exists(p) /\ objects'[p] = objects[p]
        BY <2>8, <3>2 DEF Exists
      <4>2. /\ Live(objects[p].block) /\ Len(heap[objects[p].block]) = objects[p].max_len
            /\ objects[p].len <= objects[p].max_len
            /\ \A q \in Objects \ {p} : Exists(q) => objects[q].block # objects[p].block
        BY <4>1 DEF Intact, OwnBlock
      <4>3. objects[p].block # block
        BY <3>2, <4>2
      <4>4. objects[p].block # b
        BY <2>5, <4>1, <4>3
      <4>5. Live(objects[p].block)' /\ heap'[objects'[p].block] = heap[objects[p].block]
        BY <2>6, <4>1, <4>2, <4>3 DEF Live
      <4>6. ASSUME NEW q \in Objects \ {p}, Exists(q)' PROVE objects'[q].block # objects'[p].block
        <5>1. CASE q = o
          BY <2>8, <2>9, <4>1, <4>4, <5>1
        <5>2. CASE q # o
          BY <2>8, <4>1, <4>2, <4>6, <5>2 DEF Exists
        <5>3. QED
          BY <5>1, <5>2
      <4>7. QED
        BY <4>1, <4>2, <4>5, <4>6
    <3>3. QED
      BY <3>1, <3>2
  <2>12. WithinCapacity'
    BY <2>1, <2>8, <2>9 DEF Intact, WithinCapacity, Exists
  <2>13. QED
    BY <2>10, <2>11, <2>12 DEF Intact
<1>3. QED
  BY <1>1, <1>2 DEF StoreReallocated

LEMMA StoreKeeps ==
  ASSUME Intact, NEW o \in Objects, Exists(o), NEW from, NEW s \in Seq(Cell),
         NEW at \in Nat, NEW need \in Lengths, NEW n \in Lengths,
         n <= need \/ (n <= objects[o].max_len /\ need <= objects[o].max_len),
         Store(o, from, s, at, need, n), huge' \in BOOLEAN
  PROVE  Intact'
<1>1. need \in Nat /\ n \in Nat /\ objects[o].max_len \in Nat
  BY Constants DEF Intact, TypeOK, Exists, Buffer
<1>2. CASE objects[o].max_len < need
  <2>1. n <= need /\ StoreReallocated(o, from, s, at, need, n)
    BY <1>1, <1>2 DEF Store
  <2>2. QED
    BY <2>1, StoreReallocatedKeeps
<1>3. CASE ~(objects[o].max_len < need)
  <2>1. n <= objects[o].max_len /\ StoreInPlace(o, from, s, at, n)
    BY <1>1, <1>3 DEF Store
  <2>2. QED
    BY <2>1, StoreInPlaceKeeps
<1>4. QED
  BY <1>2, <1>3

-----------------------------------------------------------------------------
(* Every call keeps the memory intact.                                     *)

LEMMA AsksType ==
  ASSUME TypeOK, NEW n, Asks(n)
  PROVE  huge' \in BOOLEAN
BY DEF TypeOK, Asks

LEMMA StringsType == \A s \in Strings : s \in Seq(Cell) /\ Len(s) \in Lengths
BY BuffersAssumption, SeqMonotonic DEF Cell

LEMMA ConstructKeeps ==
  ASSUME Intact, NEW o \in Objects, NEW min \in Lengths, NEW s \in Seq(Cell),
         Len(s) \in Lengths, Len(s) <= min, Construct(o, min, s)
  PROVE  Intact'
<1>1. huge' \in BOOLEAN
  BY AsksType DEF Intact, Construct
<1>2. CASE Fail("hangs")
  BY <1>1, <1>2, FailKeeps
<1>3. ASSUME NEW c \in Grown(min), NEW b \in Fresh,
             heap' = [id \in DOMAIN heap \union {b} |->
                        IF id = b THEN Written([i \in 1 .. c |-> 0], 0, s) ELSE heap[id]],
             objects' = [objects EXCEPT ![o] = [block |-> b, len |-> Len(s), max_len |-> c]],
             UNCHANGED <<mates, fault>>
      PROVE  Intact'
  <2> DEFINE clear == [i \in 1 .. c |-> 0]
             cells == Written(clear, 0, s)
             new == [block |-> b, len |-> Len(s), max_len |-> c]
  <2>1. c \in Capacities /\ c \in Nat /\ min \in Nat /\ min <= c /\ Len(s) <= c
    BY Constants
  <2>2. clear \in Seq(Cell) /\ Len(clear) = c
    <3>1. clear \in [1 .. c -> Cell]
      BY BuffersAssumption DEF Cell
    <3>2. QED
      BY <2>1, <3>1, SeqOfFunction
  <2> HIDE DEF clear
  <2>3. cells \in Seq(Cell) /\ Len(cells) = c
    BY <2>2, WrittenType
  <2>4. /\ b \in Blocks /\ b \notin DOMAIN heap
        /\ \A p \in Objects : Exists(p) => objects[p].block # b
    BY DEF Fresh, Free, Live
  <2>5. new \in Buffer /\ new.block = b /\ new.len = Len(s) /\ new.max_len = c
    BY <2>1, <2>4 DEF Buffer
  <2>6. /\ DOMAIN heap' = DOMAIN heap \union {b}
        /\ heap'[b] = cells
        /\ \A id \in DOMAIN heap : heap'[id] = heap[id]
    BY <1>3, <2>4 DEF clear
  <2>7. /\ objects'[o] = new
        /\ \A p \in Objects \ {o} : objects'[p] = objects[p]
        /\ objects' \in [Objects -> Buffer \union {None}]
    BY <1>3, <2>5 DEF Intact, TypeOK
  <2> HIDE DEF cells, new
  <2>8. TypeOK'
    <3>1. \A id \in DOMAIN heap' : heap'[id] \in Seq(Cell) /\ Len(heap'[id]) \in Capacities
      BY <2>1, <2>3, <2>6 DEF Intact, TypeOK
    <3>2. DOMAIN heap' \subseteq Blocks
      BY <2>4, <2>6 DEF Intact, TypeOK
    <3>3. QED
      BY <1>1, <1>3, <2>7, <3>1, <3>2 DEF Intact, TypeOK
  <2>9. OwnBlock'
    <3> SUFFICES ASSUME NEW p \in Objects \ mates, Exists(p)'
                 PROVE  /\ Live(objects[p].block)'
                        /\ Len(heap'[objects'[p].block]) = objects'[p].max_len
                        /\ objects'[p].len <= objects'[p].max_len
                        /\ \A q \in Objects \ {p} : Exists(q)' =>
                             objects'[q].block # objects'[p].block
      BY <1>3 DEF OwnBlock
    <3>1. CASE p = o
      <4>1. Live(b)' /\ Len(heap'[b]) = c
        BY <2>3, <2>6 DEF Live
      <4>2. \A q \in Objects \ {o} : Exists(q)' => objects'[q].block # b
        BY <2>4, <2>7 DEF Exists
      <4>3. QED
        BY <2>1, <2>5, <2>7, <3>1, <4>1, <4>2
    <3>2. CASE p # o
      <4>1. Exists(p) /\ objects'[p] = objects[p]
        BY <2>7, <3>2 DEF Exists
      <4>2. /\ Live(objects[p].block) /\ Len(heap[objects[p].block]) = objects[p].max_len
            /\ objects[p].len <= objects[p].max_len
            /\ \A q \in Objects \ {p} : Exists(q) => objects[q].block # objects[p].block
        BY <4>1 DEF Intact, OwnBlock
      <4>3. Live(objects[p].block)' /\ heap'[objects'[p].block] = heap[objects[p].block]
        BY <2>6, <4>1, <4>2 DEF Live
      <4>4. \A q \in Objects \ {p} : Exists(q)' => objects'[q].block # objects'[p].block
        BY <2>4, <2>5, <2>7, <4>1, <4>2 DEF Exists
      <4>5. QED
        BY <4>1, <4>2, <4>3, <4>4
    <3>3. QED
      BY <3>1, <3>2
  <2>10. WithinCapacity'
    BY <2>1, <2>5, <2>7 DEF Intact, WithinCapacity, Exists
  <2>11. QED
    BY <2>8, <2>9, <2>10 DEF Intact
<1>4. QED
  BY <1>2, <1>3 DEF Construct

LEMMA CopyConstructKeeps ==
  ASSUME Intact, NEW o \in Objects, NEW a \in Objects, CopyConstruct(o, a)
  PROVE  Intact'
<1>1. TypeOK'
  BY DEF Intact, TypeOK, CopyConstruct, Asks, Exists
<1>2. OwnBlock'
  <2> SUFFICES ASSUME NEW p \in Objects \ mates', Exists(p)'
               PROVE  /\ Live(objects[p].block)'
                      /\ Len(heap'[objects'[p].block]) = objects'[p].max_len
                      /\ objects'[p].len <= objects'[p].max_len
                      /\ \A q \in Objects \ {p} : Exists(q)' =>
                           objects'[q].block # objects'[p].block
    BY DEF OwnBlock
  <2>1. p \notin mates /\ p # o /\ p # a /\ Exists(a) /\ heap' = heap
    BY DEF CopyConstruct
  <2>2. objects'[o] = objects[a] /\ \A q \in Objects \ {o} : objects'[q] = objects[q]
    BY DEF CopyConstruct, Intact, TypeOK
  <2>3. QED
    BY <2>1, <2>2 DEF Intact, OwnBlock, Exists, Live
<1>3. WithinCapacity'
  BY DEF Intact, WithinCapacity, TypeOK, CopyConstruct, Exists
<1>4. QED
  BY <1>1, <1>2, <1>3 DEF Intact

LEMMA DestroyKeeps ==
  ASSUME Intact, NEW o \in Objects, Destroy(o)
  PROVE  Intact'
<1>1. huge' \in BOOLEAN
  BY AsksType DEF Intact, Destroy
<1>2. CASE Fail("memory")
  BY <1>1, <1>2, FailKeeps
<1>3. ASSUME heap' = Freed(objects[o].block), objects' = [objects EXCEPT ![o] = None],
             mates' = mates \ {o}, UNCHANGED fault
      PROVE  Intact'
  <2>1. /\ DOMAIN heap' = DOMAIN heap \ {objects[o].block}
        /\ \A b \in DOMAIN heap' : heap'[b] = heap[b]
    BY <1>3 DEF Freed
  <2>2. TypeOK'
    BY <1>1, <1>3, <2>1 DEF Intact, TypeOK
  <2>3. OwnBlock'
    <3> SUFFICES ASSUME NEW p \in Objects \ mates', Exists(p)'
                 PROVE  /\ Live(objects[p].block)'
                        /\ Len(heap'[objects'[p].block]) = objects'[p].max_len
                        /\ objects'[p].len <= objects'[p].max_len
                        /\ \A q \in Objects \ {p} : Exists(q)' =>
                             objects'[q].block # objects'[p].block
      BY DEF OwnBlock
    <3>1. objects'[o] = None /\ \A q \in Objects \ {o} : objects'[q] = objects[q]
      BY <1>3 DEF Intact, TypeOK
    <3>2. p # o /\ p \notin mates /\ Exists(p)
      BY <1>3, <3>1 DEF Exists
    <3>3. /\ Live(objects[p].block) /\ Len(heap[objects[p].block]) = objects[p].max_len
          /\ objects[p].len <= objects[p].max_len
          /\ \A q \in Objects \ {p} : Exists(q) => objects[q].block # objects[p].block
      BY <3>2 DEF Intact, OwnBlock
    <3>4. objects[p].block # objects[o].block
      BY <3>2, <3>3 DEF Destroy
    <3>5. Live(objects[p].block)' /\ heap'[objects'[p].block] = heap[objects[p].block]
      BY <2>1, <3>1, <3>2, <3>3, <3>4 DEF Live
    <3>6. QED
      BY <3>1, <3>2, <3>3, <3>5 DEF Exists
  <2>4. WithinCapacity'
    BY <1>3 DEF Intact, WithinCapacity, TypeOK, Exists
  <2>5. QED
    BY <2>2, <2>3, <2>4 DEF Intact
<1>4. QED
  BY <1>2, <1>3 DEF Destroy

LEMMA Modulo == \A n \in Nat : n % Limit \in Lengths /\ (n < Limit => n % Limit = n)
BY Constants DEF Lengths

LEMMA LengthType ==
  ASSUME TypeOK, NEW o \in Objects, Exists(o)
  PROVE  /\ objects[o].len \in Lengths /\ objects[o].len \in Nat
         /\ objects[o].max_len \in Nat
BY Constants DEF TypeOK, Exists, Buffer

LEMMA CopyKeeps ==
  ASSUME Intact, NEW o \in Objects, NEW a \in Objects, NEW at \in Nat, Copy(o, a, at)
  PROVE  Intact'
<1> DEFINE n == (at + objects[a].len) % Limit
<1>1. huge' \in BOOLEAN /\ Exists(o) /\ Exists(a)
  BY AsksType DEF Intact, Copy
<1>2. n \in Lengths /\ n \in Nat
  BY <1>1, LengthType, Modulo, Constants DEF Intact
<1>3. CASE Fail("memory")
  BY <1>1, <1>3, FailKeeps
<1>4. CASE Readable(a) /\ Store(o, a, Content(a), at, n, n)
  <2>1. Content(a) \in Seq(Cell)
    BY <1>1, <1>4, ContentType DEF Intact
  <2>2. n <= n
    BY <1>2
  <2> HIDE DEF n
  <2>3. QED
    BY <1>1, <1>2, <1>4, <2>1, <2>2, StoreKeeps
<1>5. QED
  BY <1>3, <1>4 DEF Copy

LEMMA EndType ==
  ASSUME NEW s \in Strings, NEW at \in Nat
  PROVE  (at + Len(s)) % Limit \in Lengths /\ (at + Len(s)) % Limit \in Nat
<1>1. Len(s) \in Nat
  BY StringsType, Constants
<1>2. (at + Len(s)) % Limit \in Lengths
  BY <1>1, Modulo
<1>3. QED
  BY <1>2, Constants

LEMMA CopyOctetsKeeps ==
  ASSUME Intact, NEW o \in Objects, NEW s \in Strings, NEW at \in Nat, CopyOctets(o, s, at)
  PROVE  Intact'
<1> DEFINE n == (at + Len(s)) % Limit
<1>1. huge' \in BOOLEAN /\ Exists(o)
  BY AsksType DEF Intact, CopyOctets
<1>2. s \in Seq(Cell) /\ n \in Lengths /\ n \in Nat
  BY StringsType, EndType
<1>3. Store(o, Literal, s, at, n, n) /\ n <= n
  BY <1>2 DEF CopyOctets
<1> HIDE DEF n
<1>4. QED
  BY <1>1, <1>2, <1>3, StoreKeeps

LEMMA SetValueKeeps ==
  ASSUME Intact, NEW o \in Objects, NEW s \in Strings, NEW at \in Nat, SetValue(o, s, at)
  PROVE  Intact'
<1> DEFINE end == (at + Len(s)) % Limit
           len == objects[o].len
           n == IF len < end THEN end ELSE len
<1>1. huge' \in BOOLEAN /\ Exists(o)
  BY AsksType DEF Intact, SetValue
<1>2. s \in Seq(Cell) /\ end \in Lengths /\ end \in Nat
  BY StringsType, EndType
<1>3. /\ len \in Lengths /\ len \in Nat /\ objects[o].max_len \in Nat
      /\ len <= objects[o].max_len
  BY <1>1, LengthType DEF Intact, WithinCapacity
<1>4. Store(o, Literal, s, at, end, n)
  BY DEF SetValue
<1> HIDE DEF end, len
<1>5. n \in Lengths
  BY <1>2, <1>3
<1>6. n <= end \/ (n <= objects[o].max_len /\ end <= objects[o].max_len)
  BY <1>2, <1>3
<1> HIDE DEF n
<1>7. QED
  BY <1>1, <1>2, <1>4, <1>5, <1>6, StoreKeeps

LEMMA PokeKeeps ==
  ASSUME Intact, NEW o \in Objects, NEW i \in Offsets, NEW octet \in Octets, Poke(o, i, octet)
  PROVE  Intact'
<1>1. huge' \in BOOLEAN /\ Exists(o)
  BY AsksType DEF Intact, Poke
<1>2. <<octet>> \in Seq(Cell) /\ i \in Nat
  BY BuffersAssumption, Constants DEF Cell
<1>3. objects[o].len \in Lengths /\ objects[o].len <= objects[o].max_len
  BY <1>1, LengthType DEF Intact, WithinCapacity
<1>4. QED
  BY <1>1, <1>2, <1>3, StoreInPlaceKeeps DEF Poke

LEMMA ResizeKeeps ==
  ASSUME Intact, NEW o \in Objects, NEW n \in Lengths, Resize(o, n)
  PROVE  Intact'
<1>1. huge' \in BOOLEAN /\ Exists(o)
  BY AsksType DEF Intact, Resize
<1>2. <<>> \in Seq(Cell) /\ n <= n /\ 0 \in Nat
  BY Constants
<1>3. QED
  BY <1>1, <1>2, StoreReallocatedKeeps DEF Resize

LEMMA AssignKeeps ==
  ASSUME Intact, NEW o \in Objects, NEW a \in Objects, Assign(o, a)
  PROVE  Intact'
<1>1. huge' \in BOOLEAN /\ Exists(o) /\ Exists(a)
  BY AsksType DEF Intact, Assign
<1>2. objects[a].len \in Lengths /\ objects[a].len <= objects[a].len
  BY <1>1, LengthType DEF Intact
<1>3. CASE Fail("memory")
  BY <1>1, <1>3, FailKeeps
<1>4. CASE Readable(a) /\ StoreReallocated(o, a, Content(a), 0, objects[a].len, objects[a].len)
  <2>1. Content(a) \in Seq(Cell)
    BY <1>1, <1>4, ContentType DEF Intact
  <2>2. QED
    BY <1>1, <1>2, <1>4, <2>1, StoreReallocatedKeeps
<1>5. QED
  BY <1>3, <1>4 DEF Assign

LEMMA AssignOctetsKeeps ==
  ASSUME Intact, NEW o \in Objects, NEW s \in Strings, AssignOctets(o, s)
  PROVE  Intact'
<1>1. huge' \in BOOLEAN /\ Exists(o)
  BY AsksType DEF Intact, AssignOctets
<1>2. s \in Seq(Cell) /\ Len(s) \in Lengths /\ Len(s) <= Len(s)
  BY StringsType, Constants
<1>3. QED
  BY <1>1, <1>2, StoreReallocatedKeeps DEF AssignOctets

LEMMA IntactInductive == Intact /\ [Next]_vars => Intact'
<1> SUFFICES ASSUME Intact, [Next]_vars PROVE Intact'
  OBVIOUS
<1>1. CASE UNCHANGED vars
  BY <1>1 DEF vars, Intact, TypeOK, OwnBlock, WithinCapacity, Exists, Live
<1>2. ASSUME NEW o \in Objects, New(o) PROVE Intact'
  <2>1. <<>> \in Seq(Cell) /\ Len(<<>>) = 0 /\ 0 \in Lengths /\ MinCapacity \in Lengths /\ 0 <= MinCapacity
    BY BuffersAssumption DEF Lengths
  <2>2. QED
    BY <1>2, <2>1, ConstructKeeps DEF New
<1>3. ASSUME NEW o \in Objects, NEW n \in Sizes, NewWithCapacity(o, n) PROVE Intact'
  <2>1. /\ <<>> \in Seq(Cell) /\ Len(<<>>) = 0 /\ 0 \in Lengths /\ n \in Lengths /\ 0 <= n
    BY BuffersAssumption DEF Lengths
  <2>2. QED
    BY <1>3, <2>1, ConstructKeeps DEF NewWithCapacity
<1>4. ASSUME NEW o \in Objects, NEW n \in Sizes, Resize(o, n) PROVE Intact'
  BY <1>4, ResizeKeeps, BuffersAssumption
<1>5. ASSUME NEW o \in Objects, NEW s \in Strings, NewFrom(o, s) PROVE Intact'
  <2>1. s \in Seq(Cell) /\ Len(s) \in Lengths /\ Len(s) <= Len(s)
    BY StringsType, Constants
  <2>2. QED
    BY <1>5, <2>1, ConstructKeeps DEF NewFrom
<1>6. ASSUME NEW o \in Objects, NEW s \in Strings, AssignOctets(o, s) PROVE Intact'
  BY <1>6, AssignOctetsKeeps
<1>7. ASSUME NEW o \in Objects, Destroy(o) PROVE Intact'
  BY <1>7, DestroyKeeps
<1>8. ASSUME NEW o \in Objects, NEW a \in Objects, CopyConstruct(o, a) PROVE Intact'
  BY <1>8, CopyConstructKeeps
<1>9. ASSUME NEW o \in Objects, NEW a \in Objects, Assign(o, a) PROVE Intact'
  BY <1>9, AssignKeeps
<1>10. ASSUME NEW o \in Objects, NEW a \in Objects, AppendBuffer(o, a) PROVE Intact'
  BY <1>10, CopyKeeps, LengthType DEF AppendBuffer, Intact
<1>11. ASSUME NEW o \in Objects, NEW a \in Objects, NEW at \in Offsets, Copy(o, a, at)
       PROVE Intact'
  BY <1>11, CopyKeeps, BuffersAssumption, Constants
<1>12. ASSUME NEW o \in Objects, NEW s \in Strings, AppendOctets(o, s) PROVE Intact'
  BY <1>12, CopyOctetsKeeps, LengthType DEF AppendOctets, Intact
<1>13. ASSUME NEW o \in Objects, NEW s \in Strings, NEW at \in Offsets, CopyOctets(o, s, at)
       PROVE Intact'
  BY <1>13, CopyOctetsKeeps, BuffersAssumption, Constants
<1>14. ASSUME NEW o \in Objects, NEW s \in Strings, NEW at \in Offsets, SetValue(o, s, at)
       PROVE Intact'
  BY <1>14, SetValueKeeps, BuffersAssumption, Constants
<1>15. ASSUME NEW o \in Objects, NEW i \in Offsets, NEW octet \in Octets, Poke(o, i, octet)
       PROVE Intact'
  BY <1>15, PokeKeeps
<1>16. QED
  BY <1>1, <1>2, <1>3, <1>4, <1>5, <1>6, <1>7, <1>8, <1>9, <1>10, <1>11, <1>12, <1>13,
     <1>14, <1>15 DEF Next

LEMMA EmptyHeap == Init => DOMAIN heap = {}
<1>1. DOMAIN <<>> = 1 .. 0
  OBVIOUS
<1>2. QED
  BY <1>1 DEF Init

LEMMA IntactInit == Init => Intact
<1> SUFFICES ASSUME Init PROVE Intact
  OBVIOUS
<1>1. \A o \in Objects : ~Exists(o)
  BY DEF Init, Exists
<1>2. TypeOK
  BY EmptyHeap DEF Init, TypeOK
<1>3. QED
  BY <1>1, <1>2 DEF Intact, OwnBlock, WithinCapacity

LEMMA AlwaysIntact == Spec => []Intact
BY IntactInit, IntactInductive, PTL DEF Spec

\* Every object and every block keeps its type.
THEOREM TypeCorrect == Spec => []TypeOK
<1>1. Intact => TypeOK
  BY DEF Intact
<1>2. QED
  BY <1>1, AlwaysIntact, PTL

\* An object that was not copied owns a block of the capacity that it believes in, and
\* nobody else points to it, whatever the other objects do.
THEOREM BlocksAreOwned == Spec => []OwnBlock
<1>1. Intact => OwnBlock
  BY DEF Intact
<1>2. QED
  BY <1>1, AlwaysIntact, PTL

-----------------------------------------------------------------------------
(* No memory is lost.                                                      *)

\* What a call does to one object.
Stores(o) ==
  \/ \E from, s, at : \E n \in Lengths : StoreInPlace(o, from, s, at, n)
  \/ \E from, s, at, need : \E n \in Lengths : StoreReallocated(o, from, s, at, need, n)

Constructs(o) == \E min, s : Len(s) \in Lengths /\ Construct(o, min, s)

LEMMA Calls ==
  ASSUME TypeOK, Next
  PROVE  \/ Fail("memory")
         \/ \E o \in Objects : \/ Constructs(o) \/ Destroy(o)
                               \/ \E a \in Objects : CopyConstruct(o, a)
                               \/ Exists(o) /\ Stores(o)
<1> USE LengthType
<1>1. ASSUME NEW o, NEW from, NEW s, NEW at, NEW need, NEW n \in Lengths,
             Store(o, from, s, at, need, n)
      PROVE  Stores(o)
  BY <1>1 DEF Store, Stores
<1>2. ASSUME NEW o \in Objects, NEW a \in Objects, NEW at \in Nat, Copy(o, a, at)
      PROVE  Fail("memory") \/ (Exists(o) /\ Stores(o))
  <2>1. (at + objects[a].len) % Limit \in Lengths
    BY <1>2, Modulo DEF Copy
  <2>2. QED
    BY <1>1, <1>2, <2>1 DEF Copy
<1>3. ASSUME NEW o \in Objects, NEW s \in Strings, NEW at \in Nat, CopyOctets(o, s, at)
      PROVE  Exists(o) /\ Stores(o)
  BY <1>1, <1>3, EndType DEF CopyOctets
<1>4. ASSUME NEW o \in Objects, NEW s \in Strings, NEW at \in Nat, SetValue(o, s, at)
      PROVE  Exists(o) /\ Stores(o)
  <2> DEFINE end == (at + Len(s)) % Limit
             n == IF objects[o].len < end THEN end ELSE objects[o].len
  <2>1. n \in Lengths
    BY <1>4, EndType DEF SetValue
  <2>2. Exists(o) /\ Store(o, Literal, s, at, end, n)
    BY <1>4 DEF SetValue
  <2> HIDE DEF end, n
  <2>3. QED
    BY <1>1, <2>1, <2>2
<1>5. ASSUME NEW o \in Objects, NEW i, NEW octet, Poke(o, i, octet)
      PROVE  Exists(o) /\ Stores(o)
  BY <1>5 DEF Poke, Stores
<1>6. ASSUME NEW o \in Objects, NEW n \in Sizes, Resize(o, n)
      PROVE  Exists(o) /\ Stores(o)
  BY <1>6, BuffersAssumption DEF Resize, Stores
<1>7. ASSUME NEW o \in Objects, NEW a \in Objects, Assign(o, a)
      PROVE  Fail("memory") \/ (Exists(o) /\ Stores(o))
  BY <1>7 DEF Assign, Stores
<1>8. ASSUME NEW o \in Objects, NEW s \in Strings, AssignOctets(o, s)
      PROVE  Exists(o) /\ Stores(o)
  BY <1>8, BuffersAssumption DEF AssignOctets, Stores
<1>9. ASSUME NEW o \in Objects, NEW a \in Objects, AppendBuffer(o, a)
      PROVE  Fail("memory") \/ (Exists(o) /\ Stores(o))
  BY <1>2, <1>9 DEF AppendBuffer
<1>10. ASSUME NEW o \in Objects, NEW s \in Strings, AppendOctets(o, s)
       PROVE  Exists(o) /\ Stores(o)
  BY <1>3, <1>10 DEF AppendOctets
<1>11. ASSUME NEW o \in Objects, NEW n, New(o) \/ NewWithCapacity(o, n)
       PROVE  Constructs(o)
  <2>1. Len(<<>>) \in Lengths
    BY Constants DEF Lengths
  <2>2. QED
    BY <1>11, <2>1 DEF New, NewWithCapacity, Constructs
<1>12. ASSUME NEW o \in Objects, NEW s \in Strings, NewFrom(o, s)
       PROVE  Constructs(o)
  BY <1>12, BuffersAssumption DEF NewFrom, Constructs
<1>13. Offsets \subseteq Nat
  BY BuffersAssumption, Constants
<1>14. QED
  BY <1>2, <1>3, <1>4, <1>5, <1>6, <1>7, <1>8, <1>9, <1>10, <1>11, <1>12, <1>13 DEF Next

LEMMA NewIsObject ==
  ASSUME NEW b \in Blocks, NEW n \in Lengths, NEW c \in Capacities
  PROVE  [block |-> b, len |-> n, max_len |-> c] # None
BY NoneAssumption DEF Buffer

LEMMA ChangedIsObject ==
  ASSUME TypeOK, NEW o \in Objects, Exists(o), NEW n \in Lengths
  PROVE  [objects[o] EXCEPT !.len = n] # None
BY NoneAssumption DEF TypeOK, Exists, Buffer

\* A block that is live after a call is the block of an object after it.
LEMMA LeakStep ==
  ASSUME TypeOK, NothingLeaks, Next
  PROVE  NothingLeaks'
<1>1. CASE Fail("memory") \/ Fail("hangs")
  BY <1>1 DEF NothingLeaks, Fail, Exists
<1>2. ASSUME NEW o \in Objects, Constructs(o), ~Fail("hangs") PROVE NothingLeaks'
  <2>1. PICK min, s : Len(s) \in Lengths /\ Construct(o, min, s)
    BY <1>2 DEF Constructs
  <2>2. PICK c \in Grown(min), b \in Fresh :
          /\ DOMAIN heap' = DOMAIN heap \union {b}
          /\ objects' = [objects EXCEPT ![o] = [block |-> b, len |-> Len(s), max_len |-> c]]
    BY <1>2, <2>1 DEF Construct
  <2>3. Exists(o)' /\ objects'[o].block = b
    <3>1. b \in Blocks /\ c \in Capacities
      BY Constants DEF Fresh, Free
    <3>2. QED
      BY <2>1, <2>2, <3>1, NewIsObject DEF TypeOK, Exists
  <2>4. \A p \in Objects : Exists(p) => Exists(p)' /\ objects'[p].block = objects[p].block
    BY <2>1, <2>2 DEF TypeOK, Exists, Construct
  <2>5. QED
    BY <2>2, <2>3, <2>4 DEF NothingLeaks
<1>3. ASSUME NEW o \in Objects, Destroy(o), ~Fail("memory") PROVE NothingLeaks'
  <2>1. DOMAIN heap' = DOMAIN heap \ {objects[o].block}
    BY <1>3 DEF Destroy, Freed
  <2>2. \A p \in Objects \ {o} : objects'[p] = objects[p]
    BY <1>3 DEF Destroy, TypeOK
  <2>3. QED
    BY <2>1, <2>2 DEF NothingLeaks, Exists
<1>4. ASSUME NEW o \in Objects, NEW a \in Objects, CopyConstruct(o, a) PROVE NothingLeaks'
  <2>1. heap' = heap /\ \A p \in Objects : Exists(p) => objects'[p] = objects[p]
    BY <1>4 DEF CopyConstruct, TypeOK, Exists
  <2>2. QED
    BY <2>1 DEF NothingLeaks, Exists
<1>5. ASSUME NEW o \in Objects, Exists(o), Stores(o), ~Fail("memory"), ~Fail("hangs")
      PROVE  NothingLeaks'
  <2>1. ASSUME NEW from, NEW s, NEW at, NEW n \in Lengths, StoreInPlace(o, from, s, at, n)
        PROVE  NothingLeaks'
    <3>1. DOMAIN heap' = DOMAIN heap /\ objects' = [objects EXCEPT ![o].len = n]
      BY <1>5, <2>1 DEF StoreInPlace
    <3>2. \A p \in Objects : Exists(p) => Exists(p)' /\ objects'[p].block = objects[p].block
      <4>1. Exists(o)' /\ objects'[o].block = objects[o].block
        BY <1>5, <3>1, ChangedIsObject DEF TypeOK, Exists
      <4>2. QED
        BY <3>1, <4>1 DEF TypeOK, Exists
    <3>3. QED
      BY <3>1, <3>2 DEF NothingLeaks
  <2>2. ASSUME NEW from, NEW s, NEW at, NEW need, NEW n \in Lengths,
               StoreReallocated(o, from, s, at, need, n)
        PROVE  NothingLeaks'
    <3>1. PICK c \in Grown(need), b \in Fresh \union {objects[o].block} :
            /\ DOMAIN heap' = (DOMAIN heap \ {objects[o].block}) \union {b}
            /\ objects' = [objects EXCEPT ![o] = [block |-> b, len |-> n, max_len |-> c]]
      BY <1>5, <2>2 DEF StoreReallocated
    <3>2. Exists(o)' /\ objects'[o].block = b
      <4>1. b \in Blocks /\ c \in Capacities
        BY <1>5, Constants DEF Fresh, Free, TypeOK, Exists, Buffer
      <4>2. QED
        BY <3>1, <4>1, NewIsObject DEF TypeOK, Exists
    <3>3. \A p \in Objects \ {o} : objects'[p] = objects[p]
      BY <3>1 DEF TypeOK
    <3>4. QED
      BY <3>1, <3>2, <3>3 DEF NothingLeaks, Exists
  <2>3. QED
    BY <1>5, <2>1, <2>2 DEF Stores
<1>6. QED
  BY <1>1, <1>2, <1>3, <1>4, <1>5, Calls

\* Every block is some object's, whatever calls are made in whatever order: also when
\* they are copies of one another that are destroyed or reallocated.
THEOREM NothingIsLost == Spec => []NothingLeaks
<1>1. Init => NothingLeaks
  BY EmptyHeap DEF NothingLeaks
<1>2. TypeOK /\ NothingLeaks /\ [Next]_vars => NothingLeaks'
  <2>1. UNCHANGED vars /\ NothingLeaks => NothingLeaks'
    BY DEF vars, NothingLeaks, Exists
  <2>2. QED
    BY <2>1, LeakStep
<1>3. QED
  BY <1>1, <1>2, TypeCorrect, PTL DEF Spec

-----------------------------------------------------------------------------
(* Calls end, and touch only their own memory.                             *)

LEMMA HalfIsEnough == Half \in Nat /\ Half < Limit
BY Constants DEF Half

LEMMA SmallCallsEnd ==
  ASSUME NEW n \in Nat, n <= Half
  PROVE  Grown(n) # {}
BY HalfIsEnough, GrownAssumption

\* Where nothing was copied, what an object points to is its own.
LEMMA Uncopied ==
  ASSUME Intact, mates = {}, NEW o \in Objects, Exists(o)
  PROVE  /\ Live(objects[o].block) /\ Len(heap[objects[o].block]) = objects[o].max_len
         /\ Readable(o)
         /\ \A a \in Objects : Exists(a) => ~Shares(o, a)
<1>1. o \in Objects \ mates
  OBVIOUS
<1>2. QED
  BY <1>1 DEF Intact, OwnBlock, Readable, Shares

\* What keeps a call from failing: if nothing was copied, it stores nothing that lies in
\* its own block.
Apart(o, from) == mates = {} => ~Shares(o, from)

\* The call neither hangs nor, if nothing was copied, touches another's memory.
Harmless == fault' # "hangs" /\ mates' = mates /\ (mates = {} => fault' # "memory")

LEMMA HarmlessIsSafe ==
  ASSUME Harmless
  PROVE  SafeUnlessCopiedOrHuge'
BY DEF Harmless, SafeUnlessCopiedOrHuge

LEMMA StoreInPlaceSafe ==
  ASSUME Intact, fault = "none", NEW o \in Objects, Exists(o), NEW from, Apart(o, from),
         NEW s, NEW at, NEW n, at + Len(s) <= objects[o].max_len,
         StoreInPlace(o, from, s, at, n)
  PROVE  Harmless
<1>1. mates = {} => Live(objects[o].block) /\ Len(heap[objects[o].block]) = objects[o].max_len
  BY Uncopied
<1>2. mates = {} => ~Overlaps(o, from, s, at)
  BY DEF Apart, Overlaps
<1>3. QED
  BY <1>1, <1>2 DEF StoreInPlace, Fail, Harmless

LEMMA StoreReallocatedSafe ==
  ASSUME Intact, fault = "none", NEW o \in Objects, Exists(o), NEW from, Apart(o, from),
         NEW s, NEW at \in Nat, Len(s) \in Nat, NEW need \in Nat, need <= Half, NEW n,
         at + Len(s) <= need, StoreReallocated(o, from, s, at, need, n)
  PROVE  Harmless
<1>1. Grown(need) # {}
  BY SmallCallsEnd
<1>2. \A c \in Grown(need) : at + Len(s) <= c
  BY Constants DEF Lengths
<1>3. mates = {} => Live(objects[o].block)
  BY Uncopied
<1>4. mates = {} => ~Shares(o, from) /\ ~Overlaps(o, from, s, at)
  BY DEF Apart, Overlaps
<1>5. QED
  BY <1>1, <1>2, <1>3, <1>4 DEF StoreReallocated, Fail, Harmless

LEMMA StoreSafe ==
  ASSUME Intact, fault = "none", NEW o \in Objects, Exists(o), NEW from, Apart(o, from),
         NEW s, NEW at \in Nat, Len(s) \in Nat, NEW need \in Nat, need <= Half, NEW n,
         at + Len(s) <= need, Store(o, from, s, at, need, n)
  PROVE  Harmless
<1>1. objects[o].max_len \in Nat
  BY LengthType DEF Intact
<1>2. CASE objects[o].max_len < need
  BY <1>2, StoreReallocatedSafe DEF Store
<1>3. CASE ~(objects[o].max_len < need)
  <2>1. at + Len(s) <= objects[o].max_len
    BY <1>1, <1>3
  <2>2. QED
    BY <1>3, <2>1, StoreInPlaceSafe DEF Store
<1>4. QED
  BY <1>2, <1>3

LEMMA LiteralIsApart == \A o \in Objects : Apart(o, Literal)
BY DEF Apart, Shares

LEMMA OtherIsApart ==
  ASSUME Intact, NEW o \in Objects, NEW a \in Objects, Exists(o), Exists(a)
  PROVE  Apart(o, a) /\ (mates = {} => Readable(a))
BY Uncopied DEF Apart

\* The length a call asks for, and whether it is within half of the range.
LEMMA Asked ==
  ASSUME NEW n \in Nat, Asks(n), ~huge'
  PROVE  fault = "none" /\ n <= Half /\ n % Limit = n
<1>1. fault = "none" /\ ~(n > Half)
  BY Zenon DEF Asks
<1>2. Limit \in Nat /\ n <= Half /\ n < Limit
  BY <1>1, HalfIsEnough, Constants
<1>3. QED
  BY <1>1, <1>2, Modulo

LEMMA CopySafe ==
  ASSUME Intact, NEW o \in Objects, NEW a \in Objects, NEW at \in Nat, Copy(o, a, at), ~huge'
  PROVE  Harmless
<1> DEFINE n == at + objects[a].len
<1>1. Exists(o) /\ Exists(a) /\ n \in Nat /\ Asks(n)
  BY LengthType DEF Intact, Copy
<1>2. fault = "none" /\ n <= Half /\ n % Limit = n
  BY <1>1, Asked
<1>3. CASE ~Readable(a) /\ Fail("memory")
  BY <1>1, <1>3, OtherIsApart DEF Fail, Harmless
<1>4. CASE Readable(a) /\ Store(o, a, Content(a), at, n % Limit, n % Limit)
  <2>1. Len(Content(a)) = objects[a].len /\ objects[a].len \in Nat
    BY <1>1, <1>4, ContentType, LengthType DEF Intact
  <2>2. Store(o, a, Content(a), at, n, n) /\ at + Len(Content(a)) <= n
    BY <1>1, <1>2, <1>4, <2>1
  <2>3. Apart(o, a)
    BY <1>1, OtherIsApart
  <2> HIDE DEF n
  <2>4. QED
    BY <1>1, <1>2, <2>1, <2>2, <2>3, StoreSafe
<1>5. QED
  BY <1>3, <1>4 DEF Copy

LEMMA CopyOctetsSafe ==
  ASSUME Intact, NEW o \in Objects, NEW s \in Strings, NEW at \in Nat,
         CopyOctets(o, s, at) \/ SetValue(o, s, at), ~huge'
  PROVE  Harmless
<1> DEFINE n == at + Len(s)
<1>1. Exists(o) /\ Len(s) \in Nat /\ n \in Nat /\ Asks(n)
  BY StringsType, Constants DEF CopyOctets, SetValue
<1>2. fault = "none" /\ n <= Half /\ n % Limit = n
  BY <1>1, Asked
<1>3. PICK len : Store(o, Literal, s, at, n, len)
  BY <1>2 DEF CopyOctets, SetValue
<1>4. at + Len(s) <= n
  BY <1>1
<1> HIDE DEF n
<1>5. QED
  BY <1>1, <1>2, <1>3, <1>4, LiteralIsApart, StoreSafe

LEMMA PokeSafe ==
  ASSUME Intact, NEW o \in Objects, NEW i \in Offsets, NEW octet, Poke(o, i, octet), ~huge'
  PROVE  Harmless
<1>1. Exists(o) /\ fault = "none"
  BY DEF Poke, Asks
<1>2. i + Len(<<octet>>) <= objects[o].max_len
  <2>1. i \in Nat /\ i < objects[o].len /\ objects[o].len <= objects[o].max_len
    BY <1>1, BuffersAssumption, Constants DEF Poke, Intact, WithinCapacity
  <2>2. objects[o].len \in Nat /\ objects[o].max_len \in Nat
    BY <1>1, LengthType DEF Intact
  <2>3. QED
    BY <2>1, <2>2
<1>3. QED
  BY <1>1, <1>2, LiteralIsApart, StoreInPlaceSafe DEF Poke

LEMMA ReallocatingSafe ==
  ASSUME Intact, NEW o \in Objects, ~huge',
         \/ \E n \in Lengths : Resize(o, n)
         \/ \E a \in Objects : Assign(o, a)
         \/ \E s \in Strings : AssignOctets(o, s)
  PROVE  Harmless
<1>1. ASSUME NEW n \in Lengths, Resize(o, n) PROVE Harmless
  <2>1. n \in Nat /\ 0 \in Nat /\ Len(<<>>) \in Nat /\ 0 + Len(<<>>) <= n
    BY Constants
  <2>2. Exists(o) /\ fault = "none" /\ n <= Half
    BY <1>1, <2>1, Asked DEF Resize
  <2>3. QED
    BY <1>1, <2>1, <2>2, LiteralIsApart, StoreReallocatedSafe DEF Resize
<1>2. ASSUME NEW a \in Objects, Assign(o, a) PROVE Harmless
  <2>1. Exists(o) /\ Exists(a) /\ objects[a].len \in Nat
    BY <1>2, LengthType DEF Intact, Assign
  <2>2. fault = "none" /\ objects[a].len <= Half
    BY <1>2, <2>1, Asked DEF Assign
  <2>3. CASE ~Readable(a) /\ Fail("memory")
    BY <2>1, <2>3, OtherIsApart DEF Fail, Harmless
  <2>4. CASE Readable(a)
             /\ StoreReallocated(o, a, Content(a), 0, objects[a].len, objects[a].len)
    <3>1. Len(Content(a)) \in Nat /\ 0 + Len(Content(a)) <= objects[a].len /\ 0 \in Nat
      BY <2>1, <2>4, ContentType DEF Intact
    <3>2. Apart(o, a)
      BY <2>1, OtherIsApart
    <3>3. QED
      BY <2>1, <2>2, <2>4, <3>1, <3>2, StoreReallocatedSafe
  <2>5. QED
    BY <1>2, <2>3, <2>4 DEF Assign
<1>3. ASSUME NEW s \in Strings, AssignOctets(o, s) PROVE Harmless
  <2>1. Len(s) \in Nat /\ 0 + Len(s) <= Len(s) /\ 0 \in Nat
    BY StringsType, Constants
  <2>2. Exists(o) /\ fault = "none" /\ Len(s) <= Half
    BY <1>3, <2>1, Asked DEF AssignOctets
  <2>3. QED
    BY <1>3, <2>1, <2>2, LiteralIsApart, StoreReallocatedSafe DEF AssignOctets
<1>4. QED
  BY <1>1, <1>2, <1>3

LEMMA LifeSafe ==
  ASSUME Intact, NEW o \in Objects, ~huge',
         \/ \E n \in Lengths : \E s : Construct(o, n, s)
         \/ \E a \in Objects : CopyConstruct(o, a)
         \/ Destroy(o)
  PROVE  SafeUnlessCopiedOrHuge'
<1>1. ASSUME NEW n \in Lengths, NEW s, Construct(o, n, s) PROVE SafeUnlessCopiedOrHuge'
  <2>1. n \in Nat
    BY Constants
  <2>2. fault = "none" /\ n <= Half
    BY <1>1, <2>1, Asked DEF Construct
  <2>3. Grown(n) # {}
    BY <2>1, <2>2, SmallCallsEnd
  <2>4. QED
    BY <1>1, <2>2, <2>3 DEF Construct, SafeUnlessCopiedOrHuge
<1>2. ASSUME NEW a \in Objects, CopyConstruct(o, a) PROVE SafeUnlessCopiedOrHuge'
  BY <1>2 DEF CopyConstruct, Asks, SafeUnlessCopiedOrHuge
<1>3. ASSUME Destroy(o) PROVE SafeUnlessCopiedOrHuge'
  BY <1>3, Uncopied DEF Destroy, Asks, Fail, SafeUnlessCopiedOrHuge
<1>4. QED
  BY <1>1, <1>2, <1>3

LEMMA SafeStep ==
  ASSUME Intact, Next
  PROVE  SafeUnlessCopiedOrHuge'
<1>1. CASE huge'
  BY <1>1 DEF SafeUnlessCopiedOrHuge
<1>2. CASE ~huge'
  <2>1. Sizes \subseteq Lengths /\ Offsets \subseteq Nat /\ MinCapacity \in Lengths
    BY BuffersAssumption, Constants
  <2>2. ASSUME NEW o \in Objects,
               \/ New(o) \/ Destroy(o) \/ \E a \in Objects : CopyConstruct(o, a)
               \/ \E n \in Sizes : NewWithCapacity(o, n)
               \/ \E s \in Strings : NewFrom(o, s)
        PROVE  SafeUnlessCopiedOrHuge'
    BY <1>2, <2>1, <2>2, StringsType, LifeSafe DEF New, NewWithCapacity, NewFrom
  <2>3. ASSUME NEW o \in Objects,
               \/ \E n \in Sizes : Resize(o, n)
               \/ \E a \in Objects : Assign(o, a)
               \/ \E s \in Strings : AssignOctets(o, s)
        PROVE  SafeUnlessCopiedOrHuge'
    BY <1>2, <2>1, <2>3, ReallocatingSafe, HarmlessIsSafe
  <2>4. ASSUME NEW o \in Objects, NEW a \in Objects,
               AppendBuffer(o, a) \/ \E at \in Offsets : Copy(o, a, at)
        PROVE  SafeUnlessCopiedOrHuge'
    <3>1. PICK at \in Nat : Copy(o, a, at)
      BY <2>1, <2>4, LengthType DEF AppendBuffer, Intact
    <3>2. QED
      BY <1>2, <3>1, CopySafe, HarmlessIsSafe
  <2>5. ASSUME NEW o \in Objects, NEW s \in Strings,
               AppendOctets(o, s) \/ \E at \in Offsets : CopyOctets(o, s, at) \/ SetValue(o, s, at)
        PROVE  SafeUnlessCopiedOrHuge'
    <3>1. PICK at \in Nat : CopyOctets(o, s, at) \/ SetValue(o, s, at)
      BY <2>1, <2>5, LengthType DEF AppendOctets, Intact
    <3>2. QED
      BY <1>2, <3>1, CopyOctetsSafe, HarmlessIsSafe
  <2>6. ASSUME NEW o \in Objects, NEW i \in Offsets, NEW octet \in Octets, Poke(o, i, octet)
        PROVE  SafeUnlessCopiedOrHuge'
    BY <1>2, <2>6, PokeSafe, HarmlessIsSafe
  <2>7. QED
    BY <2>2, <2>3, <2>4, <2>5, <2>6 DEF Next
<1>3. QED
  BY <1>1, <1>2

\* No call hangs and none touches memory that is not its object's, until the compiler has
\* copied a buffer or one was asked to be longer than half of the range of its length.
THEOREM CallsAreSafe == Spec => []SafeUnlessCopiedOrHuge
<1>1. Init => SafeUnlessCopiedOrHuge
  BY DEF Init, SafeUnlessCopiedOrHuge
<1>2. Intact /\ SafeUnlessCopiedOrHuge /\ [Next]_vars => SafeUnlessCopiedOrHuge'
  <2>1. UNCHANGED vars /\ SafeUnlessCopiedOrHuge => SafeUnlessCopiedOrHuge'
    BY DEF vars, SafeUnlessCopiedOrHuge
  <2>2. QED
    BY <2>1, SafeStep
<1>3. QED
  BY <1>1, <1>2, AlwaysIntact, PTL DEF Spec

-----------------------------------------------------------------------------
(* A buffer is a string of octets of its own.                              *)

LEMMA WrittenCells ==
  ASSUME NEW cells \in Seq(Cell), NEW at \in Nat, NEW s \in Seq(Cell),
         NEW i \in 1 .. Len(cells)
  PROVE  /\ i \notin at + 1 .. at + Len(s) => Written(cells, at, s)[i] = cells[i]
         /\ \A k \in 1 .. Len(s) : at + k = i => Written(cells, at, s)[i] = s[k]
<1>1. Written(cells, at, s)[i] =
        IF i \in at + 1 .. at + Len(s) THEN s[i - at] ELSE cells[i]
  BY DEF Written
<1>2. ASSUME NEW k \in 1 .. Len(s), at + k = i PROVE i \in at + 1 .. at + Len(s) /\ i - at = k
  BY <1>2
<1>3. QED
  BY <1>1, <1>2

LEMMA ResizedCells ==
  ASSUME NEW cells \in Seq(Cell), NEW c \in Nat, NEW i \in 1 .. c, i <= Len(cells)
  PROVE  Resized(cells, c)[i] = cells[i]
BY DEF Resized

LEMMA SameString ==
  ASSUME NEW u \in Seq(Cell), NEW v \in Seq(Cell), Len(u) = Len(v),
         \A i \in 1 .. Len(u) : u[i] = v[i]
  PROVE  u = v
OBVIOUS

LEMMA Front ==
  ASSUME NEW cells \in Seq(Cell), NEW n \in Nat, n <= Len(cells)
  PROVE  /\ SubSeq(cells, 1, n) \in Seq(Cell) /\ Len(SubSeq(cells, 1, n)) = n
         /\ \A i \in 1 .. n : SubSeq(cells, 1, n)[i] = cells[i]
<1>1. \A i \in 1 .. n : cells[i] \in Cell
  OBVIOUS
<1>2. QED
  BY <1>1, SubSeqProperties

\* An object's value, in terms of its block.
Worth(o) ==
  /\ ValueOf(o) # None
  /\ ValueOf(o) # Lost <=> Readable(o)
  /\ Readable(o) =>
       /\ ValueOf(o) = Content(o) /\ ValueOf(o) \in Seq(Cell)
       /\ Len(ValueOf(o)) = objects[o].len
       /\ \A i \in 1 .. objects[o].len :
            i <= Len(heap[objects[o].block]) /\ ValueOf(o)[i] = heap[objects[o].block][i]

LEMMA ValueIs == TypeOK => \A o \in Objects : Exists(o) => Worth(o)
<1> SUFFICES ASSUME TypeOK, NEW o \in Objects, Exists(o) PROVE Worth(o)
  OBVIOUS
<1> DEFINE b == objects[o].block
           n == objects[o].len
<1>1. n \in Nat
  BY LengthType
<1>2. ASSUME Readable(o)
      PROVE  /\ ValueOf(o) = Content(o) /\ ValueOf(o) \in Seq(Cell) /\ Len(ValueOf(o)) = n
             /\ \A i \in 1 .. n : i <= Len(heap[b]) /\ ValueOf(o)[i] = heap[b][i]
  <2>1. ValueOf(o) = Content(o)
    BY <1>2 DEF ValueOf
  <2>2. Content(o) \in Seq(Cell) /\ Len(Content(o)) = n
    BY <1>2, ContentType
  <2>3. CASE n = 0
    BY <2>1, <2>2, <2>3
  <2>4. CASE n # 0
    <3>1. heap[b] \in Seq(Cell) /\ n <= Len(heap[b])
      BY <1>1, <1>2, <2>4 DEF TypeOK, Readable, Live
    <3>2. Content(o) = SubSeq(heap[b], 1, n)
      BY <2>4 DEF Content
    <3> HIDE DEF b, n
    <3>3. \A i \in 1 .. n : SubSeq(heap[b], 1, n)[i] = heap[b][i]
      BY <1>1, <3>1, Front
    <3>4. \A i \in 1 .. n : i <= Len(heap[b])
      BY <1>1, <3>1
    <3>5. QED
      BY <2>1, <2>2, <3>2, <3>3, <3>4
  <2>5. QED
    BY <2>3, <2>4
<1>3. ~Readable(o) => ValueOf(o) = Lost
  BY DEF ValueOf
<1>4. QED
  BY <1>2, <1>3, NoneAssumption DEF Worth

\* The block is what it was, or none still.
Unmoved(b) ==
  /\ Live(b)' <=> Live(b)
  /\ Live(b) => heap'[b] = heap[b]

LEMMA ValueKept ==
  ASSUME TypeOK, NEW p \in Objects, objects'[p] = objects[p],
         Exists(p) => Unmoved(objects[p].block)
  PROVE  ValueOf(p)' = ValueOf(p)
<1>1. Exists(p)' <=> Exists(p)
  BY DEF Exists
<1>2. CASE ~Exists(p)
  BY <1>1, <1>2 DEF ValueOf
<1>3. CASE Exists(p)
  <2>1. Readable(p)' <=> Readable(p)
    BY <1>3 DEF Readable, Unmoved
  <2>2. Readable(p) => Content(p)' = Content(p)
    <3>1. CASE objects[p].len = 0
      BY <3>1 DEF Content
    <3>2. CASE objects[p].len # 0
      <4>1. objects[p].len > 0
        BY <1>3, <3>2, LengthType
      <4>2. QED
        BY <1>3, <4>1 DEF Content, Readable, Unmoved
    <3>3. QED
      BY <3>1, <3>2
  <2>3. QED
    BY <1>1, <1>3, <2>1, <2>2 DEF ValueOf
<1>4. QED
  BY <1>2, <1>3

\* What another object is worth, and mates may not keep.
OthersKept(o) == \A p \in Objects \ {o} : ValueOf(p)' = ValueOf(p) \/ {o, p} \subseteq mates

\* Another object's block is not the one of o, unless the two are mates.
LEMMA OthersBlocks ==
  ASSUME Intact, NEW o \in Objects, Exists(o),
         \A p \in Objects \ {o} : objects'[p] = objects[p],
         \A p \in Objects \ {o} :
           Exists(p) /\ objects[p].block # objects[o].block => Unmoved(objects[p].block)
  PROVE  OthersKept(o)
<1> SUFFICES ASSUME NEW p \in Objects \ {o}, ~({o, p} \subseteq mates)
             PROVE  ValueOf(p)' = ValueOf(p)
  BY DEF OthersKept
<1>1. Exists(p) => objects[p].block # objects[o].block
  BY DEF Intact, OwnBlock
<1>2. QED
  BY <1>1, ValueKept DEF Intact

\* What a store makes of the value of o: s behind the first at octets, n octets in all, and
\* the rest as it was.
Placed(o, s, at, n) ==
  /\ Len(ValueOf(o)') = n
  /\ \A k \in 1 .. Len(s) : at + k <= n => ValueOf(o)'[at + k] = s[k]
  /\ Readable(o) => \A i \in 1 .. n : i <= Len(ValueOf(o)) /\ i \notin at + 1 .. at + Len(s) =>
                      ValueOf(o)'[i] = ValueOf(o)[i]

Stored(o, s, at, n) ==
  /\ mates' = mates /\ OthersKept(o) /\ Exists(o)'
  /\ s # <<>> => at + Len(s) < Limit
  /\ Readable(o)' => Placed(o, s, at, n)
  /\ ~Readable(o)' => o \in mates

LEMMA ValueIsThen == TypeOK' => \A o \in Objects : Exists(o)' => Worth(o)'
<1>1. (TypeOK => \A o \in Objects : Exists(o) => Worth(o))'
  BY ValueIs, PTL
<1>2. QED
  BY <1>1

OnlyMatesAreLost == \A o \in Objects : Exists(o) /\ ~Readable(o) => o \in mates

LEMMA UnreadableIsMate == Intact => OnlyMatesAreLost
BY DEF OnlyMatesAreLost, Intact, OwnBlock, Readable

\* The same, from the cells of the block after the call.
LEMMA PlacedInCells ==
  ASSUME TypeOK, TypeOK', NEW o \in Objects, Exists(o), Exists(o)', Readable(o)',
         NEW s \in Seq(Cell), NEW at \in Nat, NEW n \in Nat, objects'[o].len = n,
         \A k \in 1 .. Len(s) : at + k \in 1 .. n => heap'[objects'[o].block][at + k] = s[k],
         \A i \in 1 .. n : /\ i <= objects[o].len /\ Readable(o)
                           /\ i \notin at + 1 .. at + Len(s)
                           => heap'[objects'[o].block][i] = heap[objects[o].block][i]
  PROVE  Placed(o, s, at, n)
<1> DEFINE cells == heap'[objects'[o].block]
<1>0. /\ heap'[objects'[o].block] = cells
      /\ \A k \in 1 .. Len(s) : at + k \in 1 .. n => cells[at + k] = s[k]
      /\ \A i \in 1 .. n : i <= objects[o].len /\ Readable(o) /\ i \notin at + 1 .. at + Len(s)
                          => cells[i] = heap[objects[o].block][i]
  OBVIOUS
<1> HIDE DEF cells
<1>1. /\ Len(ValueOf(o)') = n
      /\ \A i \in 1 .. n : ValueOf(o)'[i] = cells[i]
  <2>1. Worth(o)'
    BY ValueIsThen
  <2>2. QED
    BY <1>0, <2>1 DEF Worth
<1>2. \A k \in 1 .. Len(s) : at + k <= n => ValueOf(o)'[at + k] = s[k]
  <2>1. \A k \in 1 .. Len(s) : at + k <= n => at + k \in 1 .. n
    OBVIOUS
  <2>2. QED
    BY <1>0, <1>1, <2>1
<1>3. ASSUME Readable(o), NEW i \in 1 .. n, i <= Len(ValueOf(o)), i \notin at + 1 .. at + Len(s)
      PROVE  ValueOf(o)'[i] = ValueOf(o)[i]
  <2>1. i \in 1 .. objects[o].len /\ objects[o].len \in Nat
    BY <1>3, ValueIs, LengthType DEF Worth
  <2>2. ValueOf(o)[i] = heap[objects[o].block][i]
    BY <1>3, <2>1, ValueIs DEF Worth
  <2>3. cells[i] = heap[objects[o].block][i]
    BY <1>0, <1>3, <2>1
  <2>4. QED
    BY <1>1, <2>2, <2>3
<1>4. QED
  BY <1>1, <1>2, <1>3 DEF Placed

LEMMA UnreadableIsMateThen == Intact' => OnlyMatesAreLost'
BY UnreadableIsMate, PTL

LEMMA BlockType ==
  ASSUME TypeOK, NEW b \in Blocks, Live(b)
  PROVE  heap[b] \in Seq(Cell) /\ Len(heap[b]) \in Nat /\ Len(heap[b]) < Limit
<1>1. heap[b] \in Seq(Cell) /\ Len(heap[b]) \in Capacities
  BY DEF TypeOK, Live
<1>2. QED
  BY <1>1, Constants

LEMMA StoreInPlaceStored ==
  ASSUME Intact, Intact', NEW o \in Objects, Exists(o), NEW from, NEW s \in Seq(Cell),
         NEW at \in Nat, NEW n \in Lengths, StoreInPlace(o, from, s, at, n)
  PROVE  Fail("memory") \/ Stored(o, s, at, n)
<1> DEFINE b == objects[o].block
<1>1. b \in Blocks /\ n \in Nat
  BY Constants DEF Intact, TypeOK, Exists, Buffer
<1> SUFFICES ASSUME s # <<>> => Live(b) /\ at + Len(s) <= Len(heap[b]),
                    heap' = IF s = <<>> THEN heap ELSE [heap EXCEPT ![b] = Written(@, at, s)],
                    objects' = [objects EXCEPT ![o].len = n], mates' = mates
             PROVE  Stored(o, s, at, n)
  BY DEF StoreInPlace
<1>2. /\ Exists(o)' /\ objects'[o].block = b /\ objects'[o].len = n
      /\ \A p \in Objects \ {o} : objects'[p] = objects[p]
  <2>1. objects'[o] = [objects[o] EXCEPT !.len = n]
    BY DEF Intact, TypeOK
  <2>2. objects'[o].block = b /\ objects'[o].len = n
    BY <2>1 DEF Intact, TypeOK, Exists, Buffer
  <2>3. QED
    BY <2>1, <2>2, ChangedIsObject DEF Intact, TypeOK, Exists
<1>3. OthersKept(o)
  <2>1. \A id : id # b => Unmoved(id)
    BY DEF Unmoved, Live
  <2>2. QED
    BY <1>2, <2>1, OthersBlocks
<1>4. s # <<>> => heap[b] \in Seq(Cell) /\ Len(heap[b]) \in Nat /\ Len(heap[b]) < Limit
  BY <1>1, BlockType DEF Intact
<1>5. s # <<>> => at + Len(s) < Limit
  BY <1>4, Constants
<1>6. ASSUME Readable(o)' PROVE Placed(o, s, at, n)
  <2> DEFINE cells == heap'[objects'[o].block]
  <2>1. cells = heap'[b]
    BY <1>2
  <2>2. CASE s = <<>>
    <3>1. cells = heap[b] /\ \A k \in 1 .. Len(s) : FALSE
      BY <2>1, <2>2
    <3> HIDE DEF cells
    <3>2. \A k \in 1 .. Len(s) : at + k \in 1 .. n => cells[at + k] = s[k]
      BY <3>1
    <3>3. QED
      BY <1>1, <1>2, <1>6, <3>1, <3>2, PlacedInCells DEF Intact, cells
  <2>3. CASE s # <<>>
    <3>1. cells = Written(heap[b], at, s)
      BY <2>1, <2>3 DEF Live
    <3> HIDE DEF cells, b
    <3>2. ASSUME NEW k \in 1 .. Len(s) PROVE cells[at + k] = s[k]
      <4>1. at + k \in 1 .. Len(heap[b])
        BY <1>4, <2>3
      <4>2. QED
        BY <1>4, <2>3, <3>1, <4>1, WrittenCells
    <3>3. ASSUME NEW i \in 1 .. n, i <= objects[o].len, Readable(o), i \notin at + 1 .. at + Len(s)
          PROVE  cells[i] = heap[b][i]
      <4>1. i \in 1 .. objects[o].len
        BY <3>3, LengthType DEF Intact
      <4>2. i <= Len(heap[b])
        BY <3>3, <4>1, ValueIs DEF Worth, Intact, b
      <4>3. i \in 1 .. Len(heap[b])
        BY <1>4, <2>3, <4>1, <4>2
      <4>4. QED
        BY <1>4, <2>3, <3>1, <3>3, <4>3, WrittenCells
    <3>4. QED
      BY <1>1, <1>2, <1>6, <3>2, <3>3, PlacedInCells DEF Intact, cells, b
  <2>4. QED
    BY <2>2, <2>3
<1>7. ~Readable(o)' => o \in mates
  BY <1>2, UnreadableIsMateThen DEF OnlyMatesAreLost
<1>8. QED
  BY <1>2, <1>3, <1>5, <1>6, <1>7 DEF Stored

LEMMA StoreReallocatedStored ==
  ASSUME Intact, Intact', NEW o \in Objects, Exists(o), NEW from, NEW s \in Seq(Cell),
         NEW at \in Nat, NEW need \in Lengths, NEW n \in Lengths, n <= need,
         StoreReallocated(o, from, s, at, need, n)
  PROVE  \/ Fail("memory") \/ Fail("hangs")
         \/ Stored(o, s, at, n) /\ Readable(o)'
<1> DEFINE block == objects[o].block
<1> SUFFICES ASSUME NEW c \in Grown(need), NEW b \in Fresh \union {block}, Live(block),
                    s # <<>> => at + Len(s) <= c,
                    heap' = [id \in (DOMAIN heap \ {block}) \union {b} |->
                              IF id = b THEN Written(Resized(heap[block], c), at, s)
                              ELSE heap[id]],
                    objects' = [objects EXCEPT ![o] = [block |-> b, len |-> n, max_len |-> c]],
                    mates' = mates
             PROVE  Stored(o, s, at, n) /\ Readable(o)'
  BY DEF StoreReallocated
<1> DEFINE cells == Written(Resized(heap[block], c), at, s)
           new == [block |-> b, len |-> n, max_len |-> c]
<1>1. c \in Capacities /\ c \in Nat /\ c < Limit /\ n \in Nat /\ n <= c
  BY Constants
<1>2. block \in Blocks /\ b \in Blocks
  BY DEF Fresh, Free, Intact, TypeOK, Exists, Buffer
<1>3. heap[block] \in Seq(Cell) /\ Len(heap[block]) \in Nat
  BY <1>2, BlockType DEF Intact
<1>4. Resized(heap[block], c) \in Seq(Cell) /\ Len(Resized(heap[block], c)) = c
  BY <1>1, <1>3, ResizedType
<1>5. b # block => /\ b \notin DOMAIN heap
                   /\ \A p \in Objects : Exists(p) => objects[p].block # b
  BY DEF Fresh, Free, Live
<1>6. new # None
  BY <1>1, <1>2, NewIsObject
<1>7. /\ objects'[o] = new /\ objects'[o].block = b /\ objects'[o].len = n /\ Exists(o)'
      /\ \A p \in Objects \ {o} : objects'[p] = objects[p]
  BY <1>6 DEF Intact, TypeOK, Exists
<1> HIDE DEF new
<1>8. heap'[b] = cells /\ Live(b)' /\ Len(cells) = c
  <2>1. Len(cells) = c
    BY <1>4, WrittenType
  <2>2. QED
    BY <2>1 DEF Live
<1> HIDE DEF cells
<1>9. OthersKept(o)
  <2>1. ASSUME NEW p \in Objects \ {o}, Exists(p), objects[p].block # block
        PROVE  Unmoved(objects[p].block)
    <3>1. objects[p].block # b
      BY <1>5, <2>1
    <3>2. QED
      BY <2>1, <3>1 DEF Unmoved, Live
  <2>2. QED
    BY <1>7, <2>1, OthersBlocks
<1>10. s # <<>> => at + Len(s) < Limit
  BY <1>1, Constants
<1>11. Readable(o)'
  BY <1>1, <1>7, <1>8 DEF Readable
<1>12. ASSUME NEW k \in 1 .. Len(s), at + k \in 1 .. n PROVE cells[at + k] = s[k]
  <2>1. at + k \in 1 .. Len(Resized(heap[block], c))
    BY <1>1, <1>4, <1>12
  <2>2. QED
    BY <1>4, <2>1, WrittenCells DEF cells
<1> HIDE DEF block
<1>13. ASSUME NEW i \in 1 .. n, i <= objects[o].len, Readable(o), i \notin at + 1 .. at + Len(s)
       PROVE  cells[i] = heap[block][i]
  <2>1. i \in 1 .. objects[o].len /\ i \in 1 .. c
    BY <1>1, <1>13, LengthType DEF Intact
  <2>2. i <= Len(heap[block])
    BY <1>13, <2>1, ValueIs DEF Worth, Intact, block
  <2>3. cells[i] = Resized(heap[block], c)[i]
    BY <1>4, <1>13, <2>1, WrittenCells DEF cells
  <2>4. QED
    BY <1>1, <1>3, <2>1, <2>2, <2>3, ResizedCells
<1>14. Placed(o, s, at, n)
  <2>1. TypeOK /\ TypeOK' /\ Exists(o)' /\ objects'[o].len = n
        /\ heap'[objects'[o].block] = cells
    BY <1>7, <1>8 DEF Intact
  <2>2. \A k \in 1 .. Len(s) : at + k \in 1 .. n => cells[at + k] = s[k]
    BY <1>12
  <2>3. \A i \in 1 .. n : /\ i <= objects[o].len /\ Readable(o)
                          /\ i \notin at + 1 .. at + Len(s)
                          => cells[i] = heap[objects[o].block][i]
    BY <1>13 DEF block
  <2>4. n \in Nat
    BY <1>1
  <2>5. /\ \A k \in 1 .. Len(s) : at + k \in 1 .. n => heap'[objects'[o].block][at + k] = s[k]
        /\ \A i \in 1 .. n : /\ i <= objects[o].len /\ Readable(o)
                             /\ i \notin at + 1 .. at + Len(s)
                             => heap'[objects'[o].block][i] = heap[objects[o].block][i]
    BY <2>1, <2>2, <2>3
  <2> HIDE DEF block, new
  <2>6. QED
    BY <1>11, <2>1, <2>4, <2>5, PlacedInCells
<1>15. QED
  BY <1>7, <1>9, <1>10, <1>11, <1>14 DEF Stored

\* A step of the abstract strings, or none.
Refined == Abstract!Next \/ (mates' = mates /\ \A o \in Objects : ValueOf(o)' = ValueOf(o))

LEMMA FailRefined ==
  ASSUME TypeOK, Fail("memory") \/ Fail("hangs")
  PROVE  Refined
<1>1. mates' = mates /\ heap' = heap /\ objects' = objects
  BY DEF Fail
<1>2. \A p \in Objects : ValueOf(p)' = ValueOf(p)
  BY <1>1, ValueKept DEF Unmoved, Live
<1>3. QED
  BY <1>1, <1>2 DEF Refined

LEMMA KeptAbstractly ==
  ASSUME NEW o \in Objects, OthersKept(o)
  PROVE  Abstract!OthersKeep(o)
BY DEF OthersKept, Abstract!OthersKeep

LEMMA LostIsRefined ==
  ASSUME Intact, NEW o \in Objects, Exists(o), NEW s, NEW at, NEW n, Stored(o, s, at, n),
         ~Readable(o)'
  PROVE  Refined
<1>1. ValueOf(o)' = Lost
  BY DEF Stored, ValueOf
<1>2. ValueOf(o) # None
  BY ValueIs DEF Intact, Worth
<1>3. Abstract!Lose(o)
  BY <1>1, <1>2 DEF Stored, Abstract!Lose, Abstract!Exists
<1>4. QED
  BY <1>3, KeptAbstractly DEF Stored, Refined, Abstract!Next

LEMMA StoredIsPlaced ==
  ASSUME Intact, Intact', NEW o \in Objects, Exists(o), NEW s \in Seq(Cell), NEW at \in Nat,
         NEW n \in Nat, Stored(o, s, at, n), Readable(o)', s # <<>> => at + Len(s) <= n
  PROVE  /\ Abstract!Place(o, s, at) /\ Len(ValueOf(o)') = n
         /\ Abstract!Known(o) => Len(ValueOf(o)) = objects[o].len
<1> DEFINE u == ValueOf(o)
           v == ValueOf(o)'
<1>1. u # None /\ (u # Lost <=> Readable(o)) /\ (Readable(o) => Len(u) = objects[o].len)
  BY ValueIs DEF Intact, Worth
<1>2. v # None /\ v # Lost
  <2>1. Worth(o)'
    BY ValueIsThen DEF Intact, Stored
  <2>2. QED
    BY <2>1 DEF Worth
<1>3. /\ Len(v) = n
      /\ \A k \in 1 .. Len(s) : at + k <= n => v[at + k] = s[k]
      /\ Readable(o) => \A i \in 1 .. n : i <= Len(u) /\ i \notin at + 1 .. at + Len(s) =>
                          v[i] = u[i]
  BY DEF Stored, Placed
<1>4. mates' = mates
  BY DEF Stored
<1>5. /\ [q \in Objects |-> ValueOf(q)][o] = u
      /\ [q \in Objects |-> ValueOf(q)]'[o] = v
  OBVIOUS
<1> HIDE DEF u, v
<1>6. \A k \in 1 .. Len(s) : v[at + k] = s[k]
  <2> SUFFICES ASSUME NEW k \in 1 .. Len(s) PROVE v[at + k] = s[k]
    OBVIOUS
  <2>1. s # <<>> /\ at + k <= at + Len(s)
    OBVIOUS
  <2>2. at + k <= n
    BY <2>1
  <2>3. QED
    BY <1>3, <2>2
<1>7. Abstract!Known(o) <=> Readable(o)
  BY <1>1, <1>5 DEF Abstract!Known
<1>8. Abstract!Exists(o)
  BY <1>1, <1>5 DEF Abstract!Exists
<1>9. Abstract!Place(o, s, at)
  BY <1>2, <1>3, <1>4, <1>5, <1>6, <1>7, <1>8 DEF Abstract!Place
<1>10. QED
  BY <1>1, <1>3, <1>7, <1>9 DEF u, v

LEMMA WriteRefined ==
  ASSUME Intact, Intact', NEW o \in Objects, Exists(o), NEW s \in Seq(Cell),
         s \in Strings \union {<<octet>> : octet \in Octets}, NEW at \in Lengths,
         NEW n \in Nat, n \in {at + Len(s), objects[o].len}, Stored(o, s, at, n),
         s # <<>> => at + Len(s) <= n
  PROVE  Refined
<1>1. CASE ~Readable(o)'
  BY <1>1, LostIsRefined
<1>2. CASE Readable(o)'
  <2>1. at \in Nat
    BY Constants
  <2>2. /\ Abstract!Place(o, s, at) /\ Len(ValueOf(o)') = n
        /\ Abstract!Known(o) => Len(ValueOf(o)) = objects[o].len
    BY <1>2, <2>1, StoredIsPlaced
  <2>3. Abstract!Write(o, s, at)
    BY <2>2 DEF Abstract!Write
  <2>4. Abstract!OthersKeep(o)
    BY KeptAbstractly DEF Stored
  <2>5. QED
    BY <2>3, <2>4 DEF Refined, Abstract!Next
<1>3. QED
  BY <1>1, <1>2

LEMMA StoreStored ==
  ASSUME Intact, Intact', NEW o \in Objects, Exists(o), NEW from, NEW s \in Seq(Cell),
         NEW at \in Nat, NEW need \in Lengths, NEW n \in Lengths,
         n <= need \/ need <= objects[o].max_len,
         Store(o, from, s, at, need, n)
  PROVE  Fail("memory") \/ Fail("hangs") \/ Stored(o, s, at, n)
<1>1. need \in Nat /\ n \in Nat /\ objects[o].max_len \in Nat
  BY Constants, LengthType DEF Intact
<1>2. CASE objects[o].max_len < need
  <2>1. n <= need /\ StoreReallocated(o, from, s, at, need, n)
    BY <1>1, <1>2 DEF Store
  <2>2. QED
    BY <2>1, StoreReallocatedStored
<1>3. CASE ~(objects[o].max_len < need)
  <2>1. StoreInPlace(o, from, s, at, n)
    BY <1>3 DEF Store
  <2>2. QED
    BY <2>1, StoreInPlaceStored
<1>4. QED
  BY <1>2, <1>3

\* What is stored does not reach around the end of the range of a length.
LEMMA NoWrap ==
  ASSUME NEW s \in Seq(Cell), NEW at \in Lengths, s # <<>> => at + Len(s) < Limit
  PROVE  (at + Len(s)) % Limit = at + Len(s)
<1>1. at \in Nat /\ at < Limit /\ Len(s) \in Nat
  BY Constants
<1>2. s = <<>> => Len(s) = 0
  OBVIOUS
<1>3. at + Len(s) \in Nat /\ at + Len(s) < Limit
  BY <1>1, <1>2
<1>4. QED
  BY <1>3, Modulo

LEMMA CopyOctetsRefined ==
  ASSUME Intact, Intact', NEW o \in Objects, NEW s \in Strings, NEW at \in Lengths,
         CopyOctets(o, s, at)
  PROVE  Refined
<1> DEFINE n == (at + Len(s)) % Limit
<1>1. at \in Nat /\ s \in Seq(Cell) /\ Exists(o)
  BY Constants, StringsType DEF CopyOctets
<1>2. n \in Lengths /\ n \in Nat /\ n <= n
  BY <1>1, EndType
<1>3. Store(o, Literal, s, at, n, n)
  BY DEF CopyOctets
<1> HIDE DEF n
<1>4. Fail("memory") \/ Fail("hangs") \/ Stored(o, s, at, n)
  BY <1>1, <1>2, <1>3, StoreStored
<1>5. CASE Stored(o, s, at, n)
  <2>1. n = at + Len(s)
    BY <1>1, <1>5, NoWrap DEF Stored, n
  <2>2. n \in {at + Len(s), objects[o].len} /\ at + Len(s) <= n
    BY <1>2, <2>1
  <2>3. QED
    BY <1>1, <1>2, <1>5, <2>2, WriteRefined
<1>6. QED
  BY <1>4, <1>5, FailRefined DEF Intact

LEMMA SetValueRefined ==
  ASSUME Intact, Intact', NEW o \in Objects, NEW s \in Strings, NEW at \in Lengths,
         SetValue(o, s, at)
  PROVE  Refined
<1> DEFINE end == (at + Len(s)) % Limit
           len == objects[o].len
           n == IF len < end THEN end ELSE len
<1>1. at \in Nat /\ s \in Seq(Cell) /\ Exists(o)
  BY Constants, StringsType DEF SetValue
<1>2. end \in Lengths /\ end \in Nat
  BY <1>1, EndType
<1>3. len \in Lengths /\ len \in Nat /\ objects[o].max_len \in Nat /\ len <= objects[o].max_len
  BY <1>1, LengthType DEF Intact, WithinCapacity
<1>4. Store(o, Literal, s, at, end, n)
  BY DEF SetValue
<1> HIDE DEF end, len
<1>5. n \in Lengths /\ n \in Nat /\ n \in {end, len} /\ end <= n
  BY <1>2, <1>3
<1>6. n <= end \/ end <= objects[o].max_len
  BY <1>2, <1>3
<1> HIDE DEF n
<1>7. Fail("memory") \/ Fail("hangs") \/ Stored(o, s, at, n)
  BY <1>1, <1>2, <1>4, <1>5, <1>6, StoreStored
<1>8. CASE Stored(o, s, at, n)
  <2>1. end = at + Len(s)
    BY <1>1, <1>8, NoWrap DEF Stored, end
  <2>2. n \in {at + Len(s), objects[o].len} /\ at + Len(s) <= n
    BY <1>5, <2>1 DEF len
  <2>3. QED
    BY <1>1, <1>5, <1>8, <2>2, WriteRefined
<1>9. QED
  BY <1>7, <1>8, FailRefined DEF Intact

LEMMA PokeRefined ==
  ASSUME Intact, Intact', NEW o \in Objects, NEW i \in Lengths, NEW octet \in Octets,
         Poke(o, i, octet)
  PROVE  Refined
<1> DEFINE s == <<octet>>
           n == objects[o].len
<1>1. s \in Seq(Cell) /\ Len(s) = 1 /\ i \in Nat /\ Exists(o)
  BY Constants DEF Cell, Poke
<1>2. n \in Lengths /\ n \in Nat /\ i < n
  BY <1>1, LengthType DEF Intact, Poke
<1>3. StoreInPlace(o, Literal, s, i, n)
  BY DEF Poke
<1>4. s \in Strings \union {<<x>> : x \in Octets}
  OBVIOUS
<1> HIDE DEF s
<1>5. Fail("memory") \/ Stored(o, s, i, n)
  BY <1>1, <1>2, <1>3, StoreInPlaceStored
<1>6. CASE Stored(o, s, i, n)
  <2>1. n \in {i + Len(s), objects[o].len} /\ i + Len(s) <= n
    BY <1>1, <1>2
  <2>2. QED
    BY <1>1, <1>2, <1>4, <1>6, <2>1, WriteRefined
<1>7. QED
  BY <1>5, <1>6, FailRefined DEF Intact

LEMMA AssignOctetsRefined ==
  ASSUME Intact, Intact', NEW o \in Objects, NEW s \in Strings, AssignOctets(o, s)
  PROVE  Refined
<1> DEFINE n == Len(s)
<1>1. s \in Seq(Cell) /\ n \in Lengths /\ n \in Nat /\ n <= n /\ 0 \in Lengths /\ Exists(o)
  BY StringsType, Constants DEF AssignOctets, Lengths
<1>2. Fail("memory") \/ Fail("hangs") \/ Stored(o, s, 0, n)
  BY <1>1, StoreReallocatedStored DEF AssignOctets
<1>3. CASE Stored(o, s, 0, n)
  <2>1. n \in {0 + Len(s), objects[o].len} /\ 0 + Len(s) <= n
    BY <1>1
  <2> HIDE DEF n
  <2>2. QED
    BY <1>1, <1>3, <2>1, WriteRefined
<1>4. QED
  BY <1>2, <1>3, FailRefined DEF Intact

LEMMA ResizeRefined ==
  ASSUME Intact, Intact', NEW o \in Objects, NEW n \in Lengths, Resize(o, n)
  PROVE  Refined
<1>1. <<>> \in Seq(Cell) /\ Len(<<>>) = 0 /\ 0 \in Nat /\ n \in Nat /\ n <= n /\ Exists(o)
  BY Constants DEF Resize
<1>2. \/ Fail("memory") \/ Fail("hangs")
      \/ Stored(o, <<>>, 0, n) /\ Readable(o)'
  BY <1>1, StoreReallocatedStored DEF Resize
<1>3. CASE Stored(o, <<>>, 0, n) /\ Readable(o)'
  <2>1. Abstract!Place(o, <<>>, 0) /\ Len(ValueOf(o)') = n
    BY <1>1, <1>3, StoredIsPlaced
  <2>2. Abstract!Resize(o, n)
    BY <2>1 DEF Abstract!Resize
  <2>3. Abstract!OthersKeep(o)
    BY <1>3, KeptAbstractly DEF Stored
  <2>4. QED
    BY <2>2, <2>3 DEF Refined, Abstract!Next
<1>4. QED
  BY <1>2, <1>3, FailRefined DEF Intact

\* What another buffer holds, as it is copied.
LEMMA Source ==
  ASSUME Intact, NEW a \in Objects, Exists(a), Readable(a)
  PROVE  /\ Content(a) \in Seq(Cell) /\ Content(a) = ValueOf(a)
         /\ Len(Content(a)) = objects[a].len
         /\ Abstract!Known(a)
<1>1. /\ Content(a) = ValueOf(a) /\ ValueOf(a) \in Seq(Cell)
      /\ Len(ValueOf(a)) = objects[a].len /\ ValueOf(a) # None /\ ValueOf(a) # Lost
  BY ValueIs DEF Intact, Worth
<1>2. QED
  BY <1>1 DEF Abstract!Known

LEMMA CopyRefined ==
  ASSUME Intact, Intact', NEW o \in Objects, NEW a \in Objects, NEW at \in Lengths,
         Copy(o, a, at)
  PROVE  Refined
<1> DEFINE n == (at + objects[a].len) % Limit
           s == Content(a)
<1>1. Exists(o) /\ Exists(a) /\ at \in Nat /\ objects[a].len \in Nat
  BY Constants, LengthType DEF Copy, Intact
<1>2. n \in Lengths /\ n \in Nat /\ n <= n
  BY <1>1, Modulo, Constants
<1>3. CASE Fail("memory")
  BY <1>3, FailRefined DEF Intact
<1>4. CASE Readable(a) /\ Store(o, a, s, at, n, n)
  <2>1. s \in Seq(Cell) /\ s = ValueOf(a) /\ Len(s) = objects[a].len /\ Abstract!Known(a)
    BY <1>1, <1>4, Source
  <2> HIDE DEF s, n
  <2>2. Fail("memory") \/ Fail("hangs") \/ Stored(o, s, at, n)
    BY <1>1, <1>2, <1>4, <2>1, StoreStored
  <2>3. CASE Stored(o, s, at, n)
    <3>1. n = at + Len(s)
      BY <2>1, <2>3, NoWrap DEF Stored, n
    <3>2. CASE ~Readable(o)'
      BY <1>1, <2>3, <3>2, LostIsRefined
    <3>3. CASE Readable(o)'
      <4>1. at + Len(s) <= n
        BY <1>2, <3>1
      <4>2. Abstract!Place(o, s, at) /\ Len(ValueOf(o)') = n
        BY <1>1, <1>2, <2>1, <2>3, <3>3, <4>1, StoredIsPlaced
      <4>3. Abstract!Copy(o, a, at)
        BY <2>1, <3>1, <4>2 DEF Abstract!Copy
      <4>4. Abstract!OthersKeep(o)
        BY <2>3, KeptAbstractly DEF Stored
      <4>5. QED
        BY <4>3, <4>4 DEF Refined, Abstract!Next
    <3>4. QED
      BY <3>2, <3>3
  <2>4. QED
    BY <2>2, <2>3, FailRefined DEF Intact
<1>5. QED
  BY <1>3, <1>4 DEF Copy

LEMMA AssignRefined ==
  ASSUME Intact, Intact', NEW o \in Objects, NEW a \in Objects, Assign(o, a)
  PROVE  Refined
<1> DEFINE n == objects[a].len
           s == Content(a)
<1>1. Exists(o) /\ Exists(a) /\ n \in Lengths /\ n \in Nat /\ n <= n /\ 0 \in Nat
  BY LengthType DEF Assign, Intact
<1>2. CASE Fail("memory")
  BY <1>2, FailRefined DEF Intact
<1>3. CASE Readable(a) /\ StoreReallocated(o, a, s, 0, n, n)
  <2>1. s \in Seq(Cell) /\ s = ValueOf(a) /\ Len(s) = n /\ Abstract!Known(a)
    BY <1>1, <1>3, Source
  <2> HIDE DEF s, n
  <2>2. Fail("memory") \/ Fail("hangs") \/ (Stored(o, s, 0, n) /\ Readable(o)')
    BY <1>1, <1>3, <2>1, StoreReallocatedStored
  <2>3. CASE Stored(o, s, 0, n) /\ Readable(o)'
    <3>1. ValueOf(o)' \in Seq(Cell)
      BY <2>3, ValueIsThen DEF Intact, Stored, Worth
    <3>2. Len(ValueOf(o)') = Len(s) /\ \A i \in 1 .. Len(s) : ValueOf(o)'[i] = s[i]
      BY <2>1, <2>3 DEF Stored, Placed
    <3>3. ValueOf(o)' = s
      BY <2>1, <3>1, <3>2, SameString
    <3>4. Abstract!Assign(o, a)
      <4>1. ValueOf(o) # None
        BY <1>1, ValueIs DEF Intact, Worth
      <4>2. QED
        BY <2>1, <2>3, <3>3, <4>1 DEF Abstract!Assign, Abstract!Exists, Stored
    <3>5. Abstract!OthersKeep(o)
      BY <2>3, KeptAbstractly DEF Stored
    <3>6. QED
      BY <3>4, <3>5 DEF Refined, Abstract!Next
  <2>4. QED
    BY <2>2, <2>3, FailRefined DEF Intact
<1>4. QED
  BY <1>2, <1>3 DEF Assign

LEMMA CopyConstructRefined ==
  ASSUME Intact, NEW o \in Objects, NEW a \in Objects, CopyConstruct(o, a)
  PROVE  Refined
<1>1. /\ ~Exists(o) /\ Exists(a) /\ a # o /\ heap' = heap /\ mates' = mates \union {o, a}
      /\ objects'[o] = objects[a] /\ \A p \in Objects \ {o} : objects'[p] = objects[p]
  BY DEF CopyConstruct, Intact, TypeOK
<1>2. \A p \in Objects \ {o} : ValueOf(p)' = ValueOf(p)
  BY <1>1, ValueKept DEF Unmoved, Live, Intact
<1>3. ValueOf(o)' = ValueOf(a)
  BY <1>1 DEF ValueOf, Exists, Readable, Content, Live
<1>4. ValueOf(o) = None /\ ValueOf(a) # None
  BY <1>1, ValueIs DEF ValueOf, Worth, Intact
<1>5. Abstract!Share(o, a)
  BY <1>1, <1>3, <1>4 DEF Abstract!Share, Abstract!Exists
<1>6. Abstract!OthersKeep(o)
  BY <1>2, KeptAbstractly DEF OthersKept
<1>7. QED
  BY <1>5, <1>6 DEF Refined, Abstract!Next

LEMMA DestroyRefined ==
  ASSUME Intact, NEW o \in Objects, Destroy(o)
  PROVE  Refined
<1>1. CASE Fail("memory")
  BY <1>1, FailRefined DEF Intact
<1>2. ASSUME heap' = Freed(objects[o].block), objects' = [objects EXCEPT ![o] = None],
             mates' = mates \ {o}
      PROVE  Refined
  <2>1. Exists(o) /\ objects'[o] = None /\ \A p \in Objects \ {o} : objects'[p] = objects[p]
    BY <1>2 DEF Destroy, Intact, TypeOK
  <2>2. \A id : id # objects[o].block => Unmoved(id)
    BY <1>2 DEF Unmoved, Live, Freed
  <2>3. OthersKept(o)
    BY <2>1, <2>2, OthersBlocks
  <2>4. ValueOf(o)' = None /\ ValueOf(o) # None
    BY <2>1, ValueIs DEF ValueOf, Exists, Worth, Intact
  <2>5. Abstract!Destroy(o)
    BY <1>2, <2>4 DEF Abstract!Destroy, Abstract!Exists
  <2>6. QED
    BY <2>3, <2>5, KeptAbstractly DEF Refined, Abstract!Next
<1>3. QED
  BY <1>1, <1>2 DEF Destroy

LEMMA ConstructRefined ==
  ASSUME Intact, Intact', NEW o \in Objects, NEW min \in Lengths, NEW s \in Seq(Cell),
         s \in {<<>>} \union Strings, Len(s) \in Lengths, Len(s) <= min, Construct(o, min, s)
  PROVE  Refined
<1>1. CASE Fail("hangs")
  BY <1>1, FailRefined DEF Intact
<1>2. ASSUME NEW c \in Grown(min), NEW b \in Fresh,
             heap' = [id \in DOMAIN heap \union {b} |->
                        IF id = b THEN Written([i \in 1 .. c |-> 0], 0, s) ELSE heap[id]],
             objects' = [objects EXCEPT ![o] = [block |-> b, len |-> Len(s), max_len |-> c]],
             mates' = mates
      PROVE  Refined
  <2> DEFINE clear == [i \in 1 .. c |-> 0]
             cells == Written(clear, 0, s)
             new == [block |-> b, len |-> Len(s), max_len |-> c]
  <2>1. c \in Capacities /\ c \in Nat /\ min \in Nat /\ min <= c /\ Len(s) <= c
    BY Constants
  <2>2. clear \in Seq(Cell) /\ Len(clear) = c
    <3>1. clear \in [1 .. c -> Cell]
      BY BuffersAssumption DEF Cell
    <3>2. QED
      BY <2>1, <3>1, SeqOfFunction
  <2>3. /\ b \in Blocks /\ b \notin DOMAIN heap
        /\ \A p \in Objects : Exists(p) => objects[p].block # b
    BY DEF Fresh, Free, Live
  <2>4. new # None /\ new.block = b /\ new.len = Len(s)
    BY <2>1, <2>3, NewIsObject
  <2>5. /\ ~Exists(o) /\ objects'[o] = new
        /\ \A p \in Objects \ {o} : objects'[p] = objects[p]
    BY <1>2 DEF Intact, TypeOK, Construct
  <2> HIDE DEF clear
  <2>6. Len(cells) = c
    BY <2>2, WrittenType
  <2>7. heap'[b] = cells /\ Live(b)' /\ \A id : id # b => Unmoved(id)
    BY <1>2 DEF clear, Live, Unmoved
  <2> HIDE DEF cells, new
  <2>8. Exists(o)' /\ objects'[o].block = b /\ objects'[o].len = Len(s)
    BY <2>4, <2>5 DEF Exists
  <2>9. Readable(o)'
    BY <2>1, <2>6, <2>7, <2>8 DEF Readable
  <2>10. /\ ValueOf(o)' \in Seq(Cell) /\ Len(ValueOf(o)') = Len(s)
         /\ \A i \in 1 .. Len(s) : ValueOf(o)'[i] = cells[i]
    BY <2>7, <2>8, <2>9, ValueIsThen DEF Intact, Worth
  <2>11. ASSUME NEW i \in 1 .. Len(s) PROVE cells[i] = s[i]
    <3>1. i \in 1 .. Len(clear) /\ 0 + i = i /\ 0 \in Nat
      BY <2>1, <2>2
    <3>2. \A k \in 1 .. Len(s) : 0 + k = i => Written(clear, 0, s)[i] = s[k]
      BY <2>2, <3>1, WrittenCells
    <3>3. QED
      BY <3>1, <3>2 DEF cells
  <2>12. ValueOf(o)' = s
    BY <2>10, <2>11, SameString
  <2>13. Abstract!Create(o)
    <3>1. ValueOf(o) = None
      BY <2>5 DEF ValueOf
    <3>2. s \in {<<>>} \union (Strings \union {<<octet>> : octet \in Octets})
      OBVIOUS
    <3>3. QED
      BY <1>2, <2>12, <3>1, <3>2 DEF Abstract!Create, Abstract!Exists
  <2>14. \A p \in Objects \ {o} : ValueOf(p)' = ValueOf(p)
    BY <2>3, <2>5, <2>7, ValueKept DEF Intact
  <2>15. Abstract!OthersKeep(o)
    BY <2>14, KeptAbstractly DEF OthersKept
  <2>16. QED
    BY <2>13, <2>15 DEF Refined, Abstract!Next
<1>3. QED
  BY <1>1, <1>2 DEF Construct

LEMMA RefinedStep ==
  ASSUME Intact, Intact', Next
  PROVE  Refined
<1>1. /\ Sizes \subseteq Lengths /\ Offsets \subseteq Lengths /\ MinCapacity \in Lengths
      /\ 0 \in Lengths
  BY BuffersAssumption DEF Lengths
<1>2. ASSUME NEW o \in Objects, NEW n \in Lengths, Construct(o, n, <<>>) PROVE Refined
  <2>1. /\ <<>> \in Seq(Cell) /\ <<>> \in {<<>>} \union Strings
        /\ Len(<<>>) \in Lengths /\ Len(<<>>) <= n
    BY <1>1, Constants
  <2>2. QED
    BY <1>2, <2>1, ConstructRefined
<1>3. ASSUME NEW o \in Objects, NEW s \in Strings, NewFrom(o, s) PROVE Refined
  <2>1. s \in Seq(Cell) /\ Len(s) \in Lengths /\ Len(s) <= Len(s) /\ s \in {<<>>} \union Strings
    BY StringsType, Constants
  <2>2. QED
    BY <1>3, <2>1, ConstructRefined DEF NewFrom
<1>4. ASSUME NEW o \in Objects,
             New(o) \/ \E n \in Sizes : NewWithCapacity(o, n) \/ Resize(o, n)
      PROVE  Refined
  BY <1>1, <1>2, <1>4, ResizeRefined DEF New, NewWithCapacity
<1>5. ASSUME NEW o \in Objects, \E s \in Strings : NewFrom(o, s) \/ AssignOctets(o, s)
      PROVE  Refined
  BY <1>3, <1>5, AssignOctetsRefined
<1>6. ASSUME NEW o \in Objects,
             Destroy(o) \/ \E a \in Objects : CopyConstruct(o, a) \/ Assign(o, a)
      PROVE  Refined
  BY <1>6, DestroyRefined, CopyConstructRefined, AssignRefined
<1>7. ASSUME NEW o \in Objects, NEW a \in Objects,
             AppendBuffer(o, a) \/ \E at \in Offsets : Copy(o, a, at)
      PROVE  Refined
  <2>1. PICK at \in Lengths : Copy(o, a, at)
    BY <1>1, <1>7, LengthType DEF AppendBuffer, Intact
  <2>2. QED
    BY <2>1, CopyRefined
<1>8. ASSUME NEW o \in Objects, NEW s \in Strings,
             AppendOctets(o, s) \/ \E at \in Offsets : CopyOctets(o, s, at) \/ SetValue(o, s, at)
      PROVE  Refined
  <2>1. PICK at \in Lengths : CopyOctets(o, s, at) \/ SetValue(o, s, at)
    BY <1>1, <1>8, LengthType DEF AppendOctets, Intact
  <2>2. QED
    BY <2>1, CopyOctetsRefined, SetValueRefined
<1>9. ASSUME NEW o \in Objects, \E i \in Offsets, octet \in Octets : Poke(o, i, octet)
      PROVE  Refined
  BY <1>1, <1>9, PokeRefined
<1>10. QED
  BY <1>4, <1>5, <1>6, <1>7, <1>8, <1>9 DEF Next

\* A buffer is a string of octets of its own: every call changes the value of its object as
\* the abstract string says and that of no other, unless the compiler has copied both.
THEOREM StringsImplemented == Spec => StringsOfTheirOwn
<1>1. Init => Abstract!Init
  BY DEF Init, Abstract!Init, ValueOf, Exists
<1>2. Intact /\ Intact' /\ [Next]_vars =>
        [Abstract!Next]_<<[o \in Objects |-> ValueOf(o)], mates>>
  <2> SUFFICES ASSUME Intact, Intact', [Next]_vars
               PROVE  [Abstract!Next]_<<[o \in Objects |-> ValueOf(o)], mates>>
    OBVIOUS
  <2>1. CASE UNCHANGED vars
    <3>1. \A o \in Objects : ValueOf(o)' = ValueOf(o)
      BY <2>1, ValueKept DEF vars, Unmoved, Live, Intact
    <3>2. mates' = mates
      BY <2>1 DEF vars
    <3>3. QED
      BY <3>1, <3>2
  <2>2. CASE Next
    BY <2>2, RefinedStep DEF Refined
  <2>3. QED
    BY <2>1, <2>2
<1>3. QED
  BY <1>1, <1>2, AlwaysIntact, PTL DEF Spec, StringsOfTheirOwn, Abstract!Spec

=============================================================================
