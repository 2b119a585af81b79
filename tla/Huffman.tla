------------------------------ MODULE Huffman ------------------------------
(***************************************************************************)
(* The Huffman coder (src/hpack/huffman.cc): the tree that the constructor *)
(* builds, and a call of Encode or of Decode, an iteration of its inner    *)
(* loop per step.  An octet is the sequence of its bits, the highest first.*)
(*                                                                         *)
(* Encode is modelled as it is written: it shifts the bits of the          *)
(* character where those of its code should be, subtracts cur_remain from  *)
(* append_remain after having set it to 0, and drops the last octet.       *)
(***************************************************************************)
EXTENDS Integers, Sequences, SequencesExt

CONSTANTS
  Bits,      \* bits of an octet: 8
  Code,      \* huffman_codes: the code of every octet and of EOS
  EOS,       \* symbol 256
  None,      \* no value
  Texts,     \* strings to encode
  Blocks,    \* octets to decode
  StrayLen   \* lengths found where a negative character indexes huffman_codes

Bit == {0, 1}
Octet == [1 .. Bits -> Bit]
Symbols == DOMAIN Code

PrefixFree == \A s, t \in Symbols : s # t => ~IsPrefix(Code[s], Code[t])
Ones(n) == [i \in 1 .. n |-> 1]

\* No code is the beginning of another, and that of EOS begins with as many ones as
\* an octet has bits: those that fill up the last octet are never a whole code.
ASSUME CodeAssumption ==
  /\ Bits \in Nat \ {0}
  /\ Symbols = Octet \union {EOS} /\ EOS \notin Octet
  /\ \A s \in Symbols : Code[s] \in Seq(Bit) /\ Code[s] # <<>>
  /\ PrefixFree
  /\ IsPrefix(Ones(Bits), Code[EOS])

ASSUME InputAssumption ==
  /\ None \notin Symbols
  /\ Texts \subseteq Seq(Octet) /\ Blocks \subseteq Seq(Octet)
  /\ StrayLen \subseteq Nat

\* The tree.  A node is the path that leads to it; root_ is the empty one.
Nodes == UNION {{SubSeq(Code[s], 1, n) : n \in 0 .. Len(Code[s])} : s \in Symbols}
Value(node) ==
  IF \E s \in Symbols : Code[s] = node THEN CHOOSE s \in Symbols : Code[s] = node ELSE None

\* Every node that has no value has two children.
Complete == \A node \in Nodes : Value(node) = None => \A b \in Bit : Append(node, b) \in Nodes

VARIABLES
  pc,             \* "idle", "encoding", "decoding", "encoded", "decoded"
  input,          \* the text or the block
  text,           \* what a block to be decoded was coded from, or None; history
  i,              \* index in the input: of an octet, or of a bit
  cur_ch,         \* Encode's variables
  cur_remain,
  append_ch,
  append_remain,
  cur,            \* Decode's node
  target,
  result

encodeVars == <<cur_ch, cur_remain, append_ch, append_remain>>
vars == <<pc, input, text, i, encodeVars, cur, target, result>>

TypeOK ==
  /\ pc \in {"idle", "encoding", "decoding", "encoded", "decoded"}
  /\ input \in Seq(Octet) /\ text \in Seq(Octet) \union {None}
  /\ i \in Nat
  /\ cur_ch \in Octet /\ append_ch \in Octet
  /\ cur_remain \in Nat /\ append_remain \in 1 .. Bits
  /\ cur \in Nodes
  /\ target \in Seq(Octet)
  /\ result \in BOOLEAN

Init ==
  /\ pc = "idle" /\ input = <<>> /\ text = None /\ i = 0
  /\ cur_ch = Ones(Bits) /\ cur_remain = 0 /\ append_ch = Ones(Bits) /\ append_remain = Bits
  /\ cur = <<>> /\ target = <<>> /\ result = FALSE

-----------------------------------------------------------------------------
(* What a string is coded as: the codes of its octets, filled up with ones. *)

CodeOf(s) == FlattenSeq([k \in 1 .. Len(s) |-> Code[s[k]]])
OctetsOf(bits) ==
  [k \in 1 .. Len(bits) \div Bits |-> [b \in 1 .. Bits |-> bits[(k - 1) * Bits + b]]]
Coded(s) ==
  LET code == CodeOf(s) IN OctetsOf(code \o Ones((-Len(code)) % Bits))

-----------------------------------------------------------------------------
(* Encode.                                                                 *)

\* A character shifted, as the low bits of an int.
ShiftRight(ch, n) == [b \in 1 .. Bits |-> IF b > n THEN ch[b - n] ELSE ch[1]]
ShiftLeft(ch, n) == [b \in 1 .. Bits |-> IF b + n <= Bits THEN ch[b + n] ELSE 0]
And(c, d) == [b \in 1 .. Bits |-> IF c[b] = 1 THEN d[b] ELSE 0]

CallEncode(s) ==
  /\ pc = "idle"
  /\ pc' = "encoding"
  /\ input' = s
  /\ UNCHANGED <<text, i, encodeVars, cur, target, result>>

\* huffman_codes is indexed with a signed char.
LengthsFor(ch) == IF ch[1] = 1 THEN StrayLen ELSE {Len(Code[ch])}

EncodeNext ==
  /\ pc = "encoding" /\ cur_remain = 0 /\ i < Len(input)
  /\ cur_ch' = input[i + 1]
  /\ cur_remain' \in LengthsFor(input[i + 1])
  /\ i' = i + 1
  /\ UNCHANGED <<pc, input, text, append_ch, append_remain, cur, target, result>>

EncodeWhole ==
  /\ pc = "encoding" /\ cur_remain > 0 /\ cur_remain >= append_remain
  /\ target' = Append(target, And(append_ch, ShiftRight(cur_ch, cur_remain - append_remain)))
  /\ cur_remain' = cur_remain - append_remain
  /\ append_remain' = Bits
  /\ append_ch' = Ones(Bits)
  /\ UNCHANGED <<pc, input, text, i, cur_ch, cur, result>>

EncodePartAppending ==
  /\ pc = "encoding" /\ cur_remain > 0 /\ cur_remain < append_remain
  /\ target' = Append(target, And(append_ch, ShiftLeft(cur_ch, append_remain - cur_remain)))
  /\ cur_remain' = 0
  /\ append_ch' = Ones(Bits)
  /\ UNCHANGED <<pc, input, text, i, cur_ch, append_remain, cur, result>>
EncodePartAgain ==
  /\ pc = "encoding" /\ cur_remain > 0 /\ cur_remain < append_remain
  /\ append_ch' = And(append_ch, ShiftLeft(cur_ch, append_remain - cur_remain))
  /\ UNCHANGED <<pc, input, text, i, cur_ch, cur_remain, append_remain, cur, target, result>>
EncodePart ==
  /\ pc = "encoding" /\ cur_remain > 0 /\ cur_remain < append_remain
  /\ append_ch' = And(append_ch, ShiftLeft(cur_ch, append_remain - cur_remain))
  /\ cur_remain' = 0
  /\ UNCHANGED <<pc, input, text, i, cur_ch, append_remain, cur, target, result>>

EncodeReturn ==
  /\ pc = "encoding" /\ cur_remain = 0 /\ i = Len(input)
  /\ pc' = "encoded"
  /\ result' = TRUE
  /\ UNCHANGED <<input, text, i, encodeVars, cur, target>>

-----------------------------------------------------------------------------
(* Decode.                                                                 *)

CallDecode(block, s) ==
  /\ pc = "idle"
  /\ pc' = "decoding"
  /\ input' = block
  /\ text' = s
  /\ UNCHANGED <<i, encodeVars, cur, target, result>>

Return(value) ==
  /\ pc' = "decoded"
  /\ result' = value

InputBitLowFirst(k) == input[(k \div Bits) + 1][Bits - (k % Bits)]
InputBit(k) == input[(k \div Bits) + 1][(k % Bits) + 1]
OtherChild == Append(cur, 1 - InputBit(i))
Child == Append(cur, InputBit(i))
Ends(node) == Value(node) = EOS
StaysAt(node) == node
RestartsAt(node) == <<>>

DecodeBit ==
  /\ pc = "decoding" /\ i < Len(input) * Bits
  /\ i' = i + 1
  /\ \/ /\ Child \notin Nodes
        /\ Return(FALSE)
        /\ UNCHANGED <<cur, target>>
     \/ /\ Child \in Nodes /\ Value(Child) = None
        /\ cur' = Child
        /\ UNCHANGED <<pc, target, result>>
     \/ /\ Child \in Nodes /\ Ends(Child)
        /\ Return(TRUE)
        /\ cur' = Child
        /\ UNCHANGED target
     \/ /\ Child \in Nodes /\ Value(Child) # None /\ ~Ends(Child)
        /\ target' = Append(target, Value(Child))
        /\ cur' = RestartsAt(Child)
        /\ UNCHANGED <<pc, result>>
  /\ UNCHANGED <<input, text, encodeVars>>

DecodeReturn ==
  /\ pc = "decoding" /\ i = Len(input) * Bits
  /\ Return(TRUE)
  /\ UNCHANGED <<input, text, i, encodeVars, cur, target>>

-----------------------------------------------------------------------------

Routine ==
  \/ EncodeNext \/ EncodeWhole \/ EncodePart \/ EncodeReturn
  \/ DecodeBit \/ DecodeReturn

Next ==
  \/ \E s \in Texts : CallEncode(s) \/ CallDecode(Coded(s), s)
  \/ \E block \in Blocks : CallDecode(block, None)
  \/ Routine

\* The routines are sequential code.
Spec == Init /\ [][Next]_vars /\ WF_vars(Routine)

-----------------------------------------------------------------------------

\* Decode inverts the code: it finds the string again, for the ones that fill up
\* the last octet are never taken for a character or an end.
DecodesTheText ==
  pc = "decoded" /\ text # None => result = TRUE /\ target = text

\* Whatever octets arrive, in every state of Decode the bits read so far are the
\* codes of the characters in target and the path to cur: no bit is skipped,
\* counted twice, or left from the character before.
ReadsEveryBit ==
  pc = "decoding" \/ (pc = "decoded" /\ result) =>
    [k \in 1 .. i |-> InputBit(k - 1)] = CodeOf(target) \o cur

\* With a complete code no octets are refused, and they are all read unless EOS
\* comes before their end.
RefusesNothing ==
  pc = "decoded" /\ Complete =>
    result = TRUE /\ (i = Len(input) * Bits \/ cur = Code[EOS])

\* Of characters up to 127, Encode writes no more octets than their code has.
EncodedFits ==
  pc = "encoding" /\ (\A k \in 1 .. i : input[k][1] = 0) =>
    Len(target) <= Len(Coded(SubSeq(input, 1, i)))

\* Both routines return, whatever they are given.
Returns == pc \in {"encoding", "decoding"} ~> pc \in {"encoded", "decoded"}

=============================================================================
