---------------------------- MODULE HpackFormat ----------------------------
(***************************************************************************)
(* The numbers of the HPACK binary format as src/hpack/hpack.cc uses them: *)
(* the prefix sizes of its integers, the prefix each representation has,   *)
(* and what an integer has become when DecodeInteger has read back what    *)
(* EncodeInteger wrote.                                                    *)
(***************************************************************************)
EXTENDS Integers

\* prefix_max[1..8]: the largest value of an n-bit prefix.
PrefixMax == <<1, 3, 7, 15, 31, 63, 127, 255>>

\* The prefix of the index that starts a representation of each kind, as the
\* calls of EncodeInteger and of DecodeInteger both give it.
IndexPrefix == [indexed     |-> 7,
                incremental |-> 6,
                without     |-> 4,
                never       |-> 4]

\* A char read by Buffer::Get takes part in arithmetic as a signed char.
SignedChar(octet) == IF octet >= 128 THEN octet - 256 ELSE octet

(***************************************************************************)
(* The integer DecodeInteger returns for what EncodeInteger wrote for i    *)
(* under an n-bit prefix, for i below PrefixMax[n] + 256 and within the    *)
(* first 128 octets of a header block.  An integer of two continuation     *)
(* octets loses 128: DecodeInteger adds the whole first octet, its         *)
(* continuation bit and sign included.  Module HpackInteger runs both      *)
(* routines octet by octet and checks that this is their composition.      *)
(***************************************************************************)
CarriedFromOne(i, n) == i - 1
Carried(i, n) == IF i < PrefixMax[n] + 128 THEN i ELSE i - 128

=============================================================================
