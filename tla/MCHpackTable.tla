---------------------------- MODULE MCHpackTable ----------------------------
(* HpackTable for TLC: blocks of up to two representations, every kind with *)
(* indices into both tables and beyond them.                               *)
EXTENDS HpackTable, SequencesExt

MCNames == {"", "a", "b"}
MCValues == {"", "x"}
MCStaticTable == << [name |-> "a", value |-> ""], [name |-> "b", value |-> "x"] >>

Indexed == { [kind |-> "indexed", idx |-> i, name |-> "", value |-> ""] : i \in 0..4 }
Literals ==
  { [kind |-> k, idx |-> i, name |-> IF i = 0 THEN "b" ELSE "", value |-> v] :
      k \in {"incremental", "never"}, i \in {0, 1, 4}, v \in {"", "x"} }
SizeUpdates == { [kind |-> "size", idx |-> s, name |-> "", value |-> ""] : s \in {0, 1} }

MCBlocks == BoundedSeq(Indexed \union Literals \union SizeUpdates, 2)

Plain(t, nm, v) ==
  [type |-> t, name |-> nm, value |-> v, nameHuff |-> FALSE, valueHuff |-> FALSE]
MCLists ==
  BoundedSeq({ Plain("incremental", "a", "x"), Plain("incremental", "b", ""),
               Plain("without", "a", "") }, 2)
=============================================================================
