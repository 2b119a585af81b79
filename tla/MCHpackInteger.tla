--------------------------- MODULE MCHpackInteger ---------------------------
(* HpackInteger for TLC: the integers around every limit of the encoding.  *)
EXTENDS HpackInteger

Block == INSTANCE HeaderBlock

\* Every integer that one octet more or less, and one that overflows the room,
\* can tell apart, for each prefix.
MCInputs ==
  UNION { {0, m - 1, m, m + 1, m + 127, m + 128, m + 129, m + 255, m + 256,
           m + 300, m + 512, m + 16383, m + 16384} : m \in {1, 15, 63, 127, 255} }

MCPositions == {0, 1, 124, 125, 126, 127, 130}

\* Positions and integers inside the range where the codec is exact.
MCMaxInput == 20000

\* The loop of DecodeInteger and the reference IntegerAt, on which the walk through whole
\* header blocks rests (HeaderBlock), find the same integer and the same octet behind it:
\* for every integer, in every position, exact or not, cut or not.  Only a negative sum
\* is left out, whose residue modulo 2^32 TLC cannot compute.
ReadAsReferred ==
  pc = "done" /\ acc >= 0 => Block!IntegerAt(buf, start, n) = [value |-> acc, next |-> offset]

=============================================================================
