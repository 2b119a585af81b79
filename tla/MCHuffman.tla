----------------------------- MODULE MCHuffman -----------------------------
(* Huffman for TLC: octets of three bits; a complete code whose lengths lie  *)
(* below, at and above one and two octets, as those of huffman.cc do.        *)
EXTENDS Huffman

O(n) == <<(n \div 4) % 2, (n \div 2) % 2, n % 2>>

CodeTable ==
  << <<0, 0>>, <<1, 0, 0>>, <<1, 1, 1, 0>>, <<1, 1, 1, 1, 1, 0>>,
     <<0, 1>>, <<1, 0, 1>>, <<1, 1, 0>>, <<1, 1, 1, 1, 0>> >>

MCCode ==
  [s \in {O(n) : n \in 0 .. 7} \union {EOS} |->
     IF s = EOS THEN <<1, 1, 1, 1, 1, 1>>
     ELSE CodeTable[1 + CHOOSE n \in 0 .. 7 : O(n) = s]]

MCTexts == BoundedSeq({O(n) : n \in 0 .. 7}, 3)
MCBlocks == BoundedSeq({O(n) : n \in 0 .. 7}, 3)
=============================================================================
