----------------------------- MODULE MCBuffers -----------------------------
(* Buffers for TLC: capacities 2 and 4, lengths of three bits, so that both  *)
(* the doubling and the sums of lengths come to their limit.                 *)
EXTENDS Buffers, TLC

CONSTANTS o1, o2, o3, MaxCalls

VARIABLE calls

MCObjects == {o1, o2, o3}
MCBlocks == 1 .. 4
MCStrings == {<<1, 1>>}

MCInit == Init /\ calls = 0
MCNext == Next /\ calls < MaxCalls /\ calls' = calls + 1
MCSpec == MCInit /\ [][MCNext]_<<vars, calls>>

Symmetric == Permutations(MCObjects)
=============================================================================
