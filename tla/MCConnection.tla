---------------------------- MODULE MCConnection ----------------------------
(* Connection for TLC: settings at and off their defaults, openings of this *)
(* library and of others.                                                   *)
EXTENDS Connection

With(id, w) == [Defaults EXCEPT ![id] = w]

\* All defaults (an empty payload), and a value of each kind at once.
PortableSettings ==
  {Defaults,
   [Defaults EXCEPT ![HEADER_TABLE_SIZE] = <<200, 0, 0, 1>>, ![ENABLE_PUSH] = Zero,
      ![INITIAL_WINDOW_SIZE] = <<0, 1, 0, 0>>, ![MAX_FRAME_SIZE] = <<0, 0, 127, 0>>]}

\* What is not portable: a frame size below the minimum with a window of 32768
\* octets.
MCClientSettings == PortableSettings \union
  {[With(INITIAL_WINDOW_SIZE, <<0, 0, 128, 0>>) EXCEPT ![MAX_FRAME_SIZE] = One]}

MCNewSettings == {With(HEADER_TABLE_SIZE, Zero)}

\* A client of another protocol, and one that sends another frame than SETTINGS first.
Get == [type |-> -2, length |-> 20, payload |-> Payload(TRUE, <<>>)]
Ping == [type |-> 6, length |-> 8, payload |-> NoPayload]
MCForeign == {<<Get>>, <<Preface, Ping>>}

MCPayloads ==
  {m.payload : m \in {Preface, Ping, Ack, Get}
     \union {SettingsFrameOf(s) : s \in ClientSettings}}

NoFrames == [e \in Endpoints |-> {}]
MCGarbage == {Ping}
MCMaxReturned == [e \in Endpoints |-> 2]
=============================================================================
