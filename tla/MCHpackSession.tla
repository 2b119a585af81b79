--------------------------- MODULE MCHpackSession ---------------------------
(* HpackSession for TLC: a static table of two entries and one name that is *)
(* in neither; fields of every type that can miss or hit either table.      *)
EXTENDS HpackSession, SequencesExt

MCNames == {"", "a", "b"}
MCValues == {"", "x", "y"}
MCStaticTable == << [name |-> "a", value |-> "x"] >>

Plain(t, nm, v) ==
  [type |-> t, name |-> nm, value |-> v, nameHuff |-> FALSE, valueHuff |-> FALSE]

\* One direction only: insertions under a static and under a new name, uses of
\* both, and lists that insert and use.
MirrorLists ==
  [e \in Endpoints |->
     IF e = "client"
     THEN BoundedSeq({ Plain("incremental", "b", "x"), Plain("incremental", "a", "y"),
                       Plain("indexed", "b", "x"), Plain("never", "a", "y") }, 2)
     ELSE {}]

\* Both directions: fields that the tables know and fields that they do not.
LooseLists ==
  [e \in Endpoints |->
     IF e = "client"
     THEN BoundedSeq({ Plain("incremental", "b", "x"), Plain("indexed", "a", "x"),
                       Plain("indexed", "b", "x") }, 2)
     ELSE { << Plain("incremental", "b", "y"), Plain("never", "b", "y") >> }]

\* Both directions, each with insertions and with uses of what either has inserted.
TurnLists ==
  [e \in Endpoints |->
     BoundedSeq({ Plain("incremental", "b", IF e = "client" THEN "x" ELSE "y"),
                  Plain("indexed", "b", "x"), Plain("never", "b", "y") }, 2)]
=============================================================================
