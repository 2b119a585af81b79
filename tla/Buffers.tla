------------------------------ MODULE Buffers ------------------------------
(***************************************************************************)
(* struct Buffer (src/buffer/buffer.h, buffer.cc): objects with a pointer, *)
(* a length and a capacity, and the blocks of memory they point to.        *)
(*                                                                         *)
(* An object without a copy constructor is copied member by member: a      *)
(* parameter of type Buffer (the constructors of DataFrame,                *)
(* PushPromisFrame, GoawayFrame) and the result of                         *)
(* ContinuationFrame::EncodeFramePayload are such copies, CopyConstruct    *)
(* here, and their destructor is Destroy.                                  *)
(*                                                                         *)
(* What a call that reads or frees memory which is not the object's leads  *)
(* to is undefined; the model ends there (fault).                          *)
(***************************************************************************)
EXTENDS Integers, Sequences, FiniteSets

CONSTANTS
  Objects,
  Blocks,        \* identifies blocks of memory
  Octets,        \* values of octets; 0 is one of them
  Strings,       \* octets that calls are given
  Sizes,         \* capacities and lengths that calls are given
  Offsets,       \* indices that calls are given
  MinCapacity,   \* 8
  Limit,         \* 2^32: unsigned int
  None, Lost

Lengths == 0 .. Limit - 1

ASSUME BuffersAssumption ==
  /\ Limit \in Nat \ {0} /\ MinCapacity \in Lengths \ {0}
  /\ 0 \in Octets /\ Octets \subseteq Nat
  /\ \A s \in Strings : s \in Seq(Octets) /\ Len(s) \in Lengths
  /\ Sizes \subseteq Lengths /\ Offsets \subseteq Lengths

\* The values that UpdateBufferSize's max_len takes, but 0: once the doubling has
\* come to 0, the loop does not end.
Capacities == {MinCapacity * 2^k : k \in 0 .. Limit} \intersect (Lengths \ {0})
Half == Limit \div 2

\* An octet that nobody has written.
Stale == -1
Cell == Octets \union {Stale}

VARIABLES
  objects,  \* [Objects -> [block, len, max_len]], or None
  heap,     \* the cells of each live block
  mates,    \* objects that were copied by the compiler, and their copies; history
  huge,     \* a call has asked for more than Half octets; history
  fault     \* "none", "hangs", "memory"

vars == <<objects, heap, mates, huge, fault>>

Buffer == [block : Blocks, len : Lengths, max_len : Capacities]

ASSUME NoneAssumption ==
  None \notin Buffer /\ None # Lost /\ None \notin Seq(Cell) /\ Lost \notin Seq(Cell)

TypeOK ==
  /\ objects \in [Objects -> Buffer \union {None}]
  /\ DOMAIN heap \subseteq Blocks
  /\ \A b \in DOMAIN heap : heap[b] \in Seq(Cell) /\ Len(heap[b]) \in Capacities
  /\ mates \subseteq Objects
  /\ huge \in BOOLEAN
  /\ fault \in {"none", "hangs", "memory"}

Init ==
  /\ objects = [o \in Objects |-> None]
  /\ heap = <<>>
  /\ mates = {}
  /\ huge = FALSE
  /\ fault = "none"

Exists(o) == objects[o] # None
Live(block) == block \in DOMAIN heap

\* What malloc returns: a block that is not live.  One that some object still points
\* to is not used again, so that its use after free can be told.
Free == {b \in Blocks : ~Live(b) /\ \A o \in Objects : Exists(o) => objects[o].block # b}
Fresh == IF Free = {} THEN {} ELSE {CHOOSE b \in Free : TRUE}

\* UpdateBufferSize: the first capacity that suffices, if there is one.
GrownNever(min) == {MinCapacity}
Grown(min) == {c \in Capacities : min <= c /\ \A d \in Capacities : d < c => d < min}

\* The doubling reaches half of the range of unsigned int.
ASSUME GrownAssumption == \A n \in 0 .. Half : Grown(n) # {}

ResizedShort(cells, c) == [i \in 1 .. c - 1 |-> IF i <= Len(cells) THEN cells[i] ELSE Stale]
ResizedAnew(cells, c) == [i \in 1 .. c |-> Stale]
Resized(cells, c) == [i \in 1 .. c |-> IF i <= Len(cells) THEN cells[i] ELSE Stale]
Written(cells, at, s) ==
  [i \in 1 .. Len(cells) |-> IF i \in at + 1 .. at + Len(s) THEN s[i - at] ELSE cells[i]]

Fail(what) ==
  /\ fault' = what
  /\ UNCHANGED <<objects, heap, mates>>

Asks(n) ==
  /\ fault = "none"
  /\ huge' = (huge \/ n > Half)

-----------------------------------------------------------------------------
(* Construction and destruction.                                           *)

\* A block of cleared memory that begins with s.
Construct(o, min, s) ==
  /\ ~Exists(o)
  /\ Asks(min)
  /\ \/ /\ Grown(min) = {}
        /\ Fail("hangs")
     \/ \E c \in Grown(min), b \in Fresh :
          /\ heap' = [id \in DOMAIN heap \union {b} |->
                        IF id = b THEN Written([i \in 1 .. c |-> 0], 0, s) ELSE heap[id]]
          /\ objects' = [objects EXCEPT ![o] = [block |-> b, len |-> Len(s), max_len |-> c]]
          /\ UNCHANGED <<mates, fault>>

New(o) == Construct(o, MinCapacity, <<>>)
NewWithCapacity(o, n) == Construct(o, n, <<>>)
NewFrom(o, s) == Construct(o, Len(s), s)

\* The copy that the compiler makes.
CopyConstruct(o, a) ==
  /\ ~Exists(o) /\ Exists(a)
  /\ Asks(0)
  /\ objects' = [objects EXCEPT ![o] = objects[a]]
  /\ mates' = mates \union {o, a}
  /\ UNCHANGED <<heap, fault>>

FreedNever(block) == heap
Freed(block) == [b \in DOMAIN heap \ {block} |-> heap[b]]

Destroy(o) ==
  /\ Exists(o)
  /\ Asks(0)
  /\ \/ /\ ~Live(objects[o].block)
        /\ Fail("memory")
     \/ /\ Live(objects[o].block)
        /\ heap' = Freed(objects[o].block)
        /\ objects' = [objects EXCEPT ![o] = None]
        /\ mates' = mates \ {o}
        /\ UNCHANGED fault

-----------------------------------------------------------------------------
(* Calls that store octets.  Each stores s behind the first at octets of o  *)
(* and sets its length to n, after UpdateBufferSize(need) if it reallocates.*)

Literal == "literal"

\* The octets of o are in its block, or it has none.
Readable(o) ==
  objects[o].len > 0 =>
    Live(objects[o].block) /\ objects[o].len <= Len(heap[objects[o].block])
Content(o) ==
  IF objects[o].len = 0 THEN <<>> ELSE SubSeq(heap[objects[o].block], 1, objects[o].len)

\* from is another object that points to the block of o; then memcpy must not be
\* given octets that overlap.
Shares(o, from) == from \notin {Literal, o} /\ objects[from].block = objects[o].block
Overlaps(o, from, s, at) == Shares(o, from) /\ at < Len(s)

StoreInPlace(o, from, s, at, n) ==
  LET block == objects[o].block
      valid == Live(block) /\ at + Len(s) <= Len(heap[block]) /\ ~Overlaps(o, from, s, at)
  IN \/ /\ s # <<>> /\ ~valid
        /\ Fail("memory")
     \/ /\ s # <<>> => valid
        /\ heap' = IF s = <<>> THEN heap ELSE [heap EXCEPT ![block] = Written(@, at, s)]
        /\ objects' = [objects EXCEPT ![o].len = n]
        /\ UNCHANGED <<mates, fault>>

\* realloc may move the block.
StoreReallocated(o, from, s, at, need, n) ==
  LET block == objects[o].block
      stays(b) == Shares(o, from) => b = block
  IN \/ /\ Grown(need) = {}
        /\ Fail("hangs")
     \/ /\ Grown(need) # {} /\ ~Live(block)
        /\ Fail("memory")
     \/ /\ Live(block)
        /\ \E c \in Grown(need), b \in Fresh \union {block} :
             LET valid == at + Len(s) <= c /\ stays(b) /\ ~Overlaps(o, from, s, at) IN
               \/ /\ s # <<>> /\ ~valid
                  /\ Fail("memory")
               \/ /\ s # <<>> => valid
                  /\ heap' = [id \in (DOMAIN heap \ {block}) \union {b} |->
                                IF id = b THEN Written(Resized(heap[block], c), at, s)
                                ELSE heap[id]]
                  /\ objects' = [objects EXCEPT ![o] = [block |-> b, len |-> n, max_len |-> c]]
                  /\ UNCHANGED <<mates, fault>>

Store(o, from, s, at, need, n) ==
  IF objects[o].max_len < need THEN StoreReallocated(o, from, s, at, need, n)
  ELSE StoreInPlace(o, from, s, at, n)

\* A buffer is not copied into its own octets: memcpy forbids it.
Copy(o, a, at) ==
  /\ Exists(o) /\ Exists(a)
  /\ a = o => at >= objects[o].len
  /\ Asks(at + objects[a].len)
  /\ LET n == (at + objects[a].len) % Limit IN
       \/ /\ ~Readable(a)
          /\ Fail("memory")
       \/ /\ Readable(a)
          /\ Store(o, a, Content(a), at, n, n)

CopyOctets(o, s, at) ==
  /\ Exists(o)
  /\ Asks(at + Len(s))
  /\ LET n == (at + Len(s)) % Limit IN Store(o, Literal, s, at, n, n)

\* Append; operator+ and operator+= do the same.
AppendBuffer(o, a) == Exists(o) /\ Copy(o, a, objects[o].len)
AppendOctets(o, s) == Exists(o) /\ CopyOctets(o, s, objects[o].len)

\* Set and SetValue; a length is only ever extended.
SetValue(o, s, at) ==
  /\ Exists(o)
  /\ Asks(at + Len(s))
  /\ LET end == (at + Len(s)) % Limit
         len == objects[o].len
     IN Store(o, Literal, s, at, end, IF len < end THEN end ELSE len)

\* operator[], within the length.
Poke(o, i, octet) ==
  /\ Exists(o) /\ i < objects[o].len
  /\ Asks(0)
  /\ StoreInPlace(o, Literal, <<octet>>, i, objects[o].len)

Resize(o, n) ==
  /\ Exists(o)
  /\ Asks(n)
  /\ StoreReallocated(o, Literal, <<>>, 0, n, n)

\* operator=
AssignShared(o, a) ==
  /\ Exists(o) /\ Exists(a)
  /\ Asks(objects[a].len)
  /\ objects' = [objects EXCEPT ![o] = objects[a]]
  /\ UNCHANGED <<heap, mates, fault>>
Assign(o, a) ==
  /\ Exists(o) /\ Exists(a)
  /\ Asks(objects[a].len)
  /\ \/ /\ ~Readable(a)
        /\ Fail("memory")
     \/ /\ Readable(a)
        /\ StoreReallocated(o, a, Content(a), 0, objects[a].len, objects[a].len)

AssignOctets(o, s) ==
  /\ Exists(o)
  /\ Asks(Len(s))
  /\ StoreReallocated(o, Literal, s, 0, Len(s), Len(s))

Next ==
  \E o \in Objects :
    \/ New(o)
    \/ \E n \in Sizes : NewWithCapacity(o, n) \/ Resize(o, n)
    \/ \E s \in Strings : NewFrom(o, s) \/ AssignOctets(o, s)
    \/ Destroy(o)
    \/ \E a \in Objects : CopyConstruct(o, a) \/ Assign(o, a) \/ AppendBuffer(o, a)
    \/ \E a \in Objects, at \in Offsets : Copy(o, a, at)
    \/ \E s \in Strings : AppendOctets(o, s)
    \/ \E s \in Strings, at \in Offsets : CopyOctets(o, s, at) \/ SetValue(o, s, at)
    \/ \E i \in Offsets, octet \in Octets : Poke(o, i, octet)

Spec == Init /\ [][Next]_vars

-----------------------------------------------------------------------------

\* An object that was not copied is the only one that points to its block, the block
\* has the capacity the object believes in, and its octets are within it.  Many
\* calls of several objects come between a slip and its effect: a block of the
\* wrong size is written to later, by somebody else.
OwnBlock ==
  \A o \in Objects \ mates :
    Exists(o) =>
      /\ Live(objects[o].block)
      /\ Len(heap[objects[o].block]) = objects[o].max_len
      /\ objects[o].len <= objects[o].max_len
      /\ \A p \in Objects \ {o} : Exists(p) => objects[p].block # objects[o].block

\* Memory is never lost: every block is some object's.
NothingLeaks ==
  \A b \in DOMAIN heap : \E o \in Objects : Exists(o) /\ objects[o].block = b

\* No call hangs, and none touches memory that is not the object's, as long as the
\* compiler copies no buffer and none is made longer than Half (2^31) octets.
SafeUnlessCopiedOrHuge ==
  /\ fault = "hangs" => huge
  /\ fault = "memory" => huge \/ mates # {}

ValueOf(o) ==
  IF ~Exists(o) THEN None
  ELSE IF Readable(o) THEN Content(o) ELSE Lost

Abstract == INSTANCE OctetStrings
  WITH values <- [o \in Objects |-> ValueOf(o)],
       Strings <- Strings \union {<<octet>> : octet \in Octets}

\* A buffer is a string of octets of its own: whatever blocks are shared out and
\* moved about, a call changes the value of no other object, and that of its own as
\* it says; only copies made by the compiler affect one another.
StringsOfTheirOwn == Abstract!Spec

=============================================================================
