--------------------------- MODULE MCFrameObjects ---------------------------
(* FrameObjects for TLC: octets on both sides of 127 in every place.        *)
EXTENDS FrameObjects

\* An ordinary word, one with its highest bit, one with a negative char inside.
MCWords == {<<0, 0, 1, 2>>, <<128, 0, 0, 5>>, <<0, 0, 128, 5>>}

\* Padding is more than an empty block has octets, as much as, or less.
MCOctets == {0, 1}
MCBlocks == {<<1>>, <<200, 8>>}

\* A list is encoded as a literal, or by index once the table has it; the index may
\* be that of another list.  Padding of one octet leaves the value of one literal at
\* the end of the block, and cuts that of the other.
MCEncodings ==
  (<<>> :> {<<>>})
    @@ (<<"a">> :> {<<64, 1, 97, 1, 98>>, <<190>>})
    @@ (<<"b">> :> {<<0, 1, 97, 2, 98, 99>>, <<190>>})

MCSettings ==
  {[Defaults EXCEPT ![INITIAL_WINDOW_SIZE] = <<0, 1, 0, 0>>],
   [Defaults EXCEPT ![ENABLE_PUSH] = Zero, ![MAX_FRAME_SIZE] = One]}

MCFlagChoices == {{ACK}, {PADDED}}
=============================================================================
