--------------------------- MODULE MCFrameStream ---------------------------
(* FrameStream for TLC: the client sends, the server receives.              *)
EXTENDS FrameStream

F(t, length, payload) == [type |-> t, length |-> length, payload |-> payload]

\* The lengths at the ends of what one octet below 128 can say, one between, and
\* a type that the code does not know.
AnyFrames ==
  [e \in Endpoints |->
     IF e = "client" THEN {F(4, 0, 1), F(0, 3, 1), F(9, 127, 2), F(10, 4, 1)} ELSE {}]

\* The next length.
LongFrames ==
  [e \in Endpoints |-> IF e = "client" THEN {F(4, 0, 1), F(0, 128, 1)} ELSE {}]

MCMaxReturned == [e \in Endpoints |-> IF e = "client" THEN 1 ELSE 4]

MCGarbage == {F(1, 2, 2), F(1, 200, 2), F(99, 0, 2)}
=============================================================================
