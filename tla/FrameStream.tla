---------------------------- MODULE FrameStream ----------------------------
(***************************************************************************)
(* Frame::SendFrame and Frame::RecvFrame of src/frame.cc between two       *)
(* endpoints.  SendFrame is one ::send of a header and a payload.          *)
(* RecvFrame is two reads, of 9 octets and of the length they announce,    *)
(* neither of which is repeated when it returns less: each is a step, so   *)
(* that octets arrive between them.  A frame is its type, the length of    *)
(* its payload, and whatever tells payloads apart.                         *)
(***************************************************************************)
EXTENDS Socket

CONSTANTS
  Payloads,    \* what tells one frame from another of its type and length
  Frames,      \* Frames[e]: the frames that e may send
  Garbage,     \* what 9 octets that are no frame header may be read as
  MaxSent,     \* bound on the messages an endpoint writes
  MaxReturned  \* MaxReturned[e]: bound on the calls of RecvFrame by e

MaxLength == 16777215   \* of 24 bits
Frame == [type : 0 .. 255, length : 0 .. MaxLength, payload : Payloads]

ASSUME FrameStreamAssumption ==
  /\ \A e \in Endpoints : Frames[e] \subseteq Frame
  /\ Garbage \subseteq Frame
  /\ MaxSent \in Nat /\ MaxReturned \in [Endpoints -> Nat]

VARIABLES
  call,      \* where in RecvFrame an endpoint is: "none", "header", "payload"
  incoming,  \* length and type, once the header has been read
  returned   \* what its calls of RecvFrame have returned, a frame or nullptr

receiving == <<call, incoming, returned>>

HEADER_LEN == 9
MAX_TYPE_BUT_ONE == 8
MAX_TYPE == 9

nullptr == [type |-> -1, length |-> 0]

FramesTypeOK ==
  /\ SocketTypeOK
  /\ call \in [Endpoints -> {"none", "header", "payload"}]
  /\ incoming \in [Endpoints -> Frame \union {nullptr}]
  /\ returned \in [Endpoints -> Seq(Frame \union {nullptr})]

FramesInit ==
  /\ SocketInit
  /\ call = [e \in Endpoints |-> "none"]
  /\ incoming = [e \in Endpoints |-> nullptr]
  /\ returned = [e \in Endpoints |-> <<>>]

\* Each of the three octets of a length is a signed char that the shifts widen to
\* 32 bits: an octet above 127 makes the length at least 2^32 - 2^24, more than
\* a read returns.
Huge == 2147483647
LengthOctets(length) == {length % 256, (length \div 256) % 256, length \div 65536}
ReadLengthBelow127(length) == IF length % 256 >= 127 THEN Huge ELSE length
ReadLength(length) ==
  IF \E octet \in LengthOctets(length) : octet >= 128
  THEN Huge
  ELSE length

SendFrame(e, frame) ==
  /\ Len(sent[e]) < MaxSent
  /\ Write(e, HEADER_LEN + frame.length, frame)
  /\ UNCHANGED <<open, receiving>>

-----------------------------------------------------------------------------
(* RecvFrame.                                                              *)

Return(e, frame) ==
  /\ returned' = [returned EXCEPT ![e] = Append(@, frame)]
  /\ call' = [call EXCEPT ![e] = "none"]

Enter(e) ==
  /\ call[e] = "none"
  /\ Len(returned[e]) < MaxReturned[e]
  /\ call' = [call EXCEPT ![e] = "header"]

CallRecvFrame(e) ==
  /\ Enter(e)
  /\ UNCHANGED <<socket, incoming, returned>>

\* The first read.  Less than 9 octets, or a type above 9: return nullptr; what
\* was read is gone, and the payload of an unknown type stays in the stream.
ReadHeader(e) ==
  /\ call[e] = "header"
  /\ Readable(e, HEADER_LEN)
  /\ LET n == Count(e, HEADER_LEN) IN
       /\ Consume(e, n)
       /\ IF n # HEADER_LEN
          THEN Return(e, nullptr) /\ UNCHANGED incoming
          ELSE \E header \in IF AtMessage(e) THEN {MessageAt(e).content} ELSE Garbage :
                 IF header.type > MAX_TYPE
                 THEN Return(e, nullptr) /\ UNCHANGED incoming
                 ELSE /\ incoming' = [incoming EXCEPT ![e] = header]
                      /\ call' = [call EXCEPT ![e] = "payload"]
                      /\ UNCHANGED returned
  /\ UNCHANGED open

\* What a second read of n octets makes of the frame.
FrameReadAnyhow(frame, n, length) == frame
FrameRead(frame, n, length) == IF n = length THEN frame ELSE nullptr

\* The second read, and the frame.
ReadPayload(e) ==
  /\ call[e] = "payload"
  /\ LET length == ReadLength(incoming[e].length) IN
       /\ Readable(e, length)
       /\ Consume(e, Count(e, length))
       /\ Return(e, FrameRead(incoming[e], Count(e, length), length))
  /\ incoming' = [incoming EXCEPT ![e] = nullptr]
  /\ UNCHANGED open

RecvFrame(e) == ReadHeader(e) \/ ReadPayload(e)

\* The application is done with its descriptor.
Close(e) ==
  /\ call[e] = "none"
  /\ open[e]
  /\ open' = [open EXCEPT ![e] = FALSE]
  /\ UNCHANGED <<streams, receiving>>

FramesNext ==
  \E e \in Endpoints :
    \/ \E frame \in Frames[e] : SendFrame(e, frame)
    \/ Arrive(e) /\ UNCHANGED receiving
    \/ CallRecvFrame(e)
    \/ RecvFrame(e)
    \/ Close(e)

frames == <<socket, receiving>>

FramesSpec == FramesInit /\ [][FramesNext]_frames

\* The network delivers what was written, a thread in RecvFrame runs on when its
\* read can return, and the applications keep calling RecvFrame.
FramesFairSpec ==
  /\ FramesSpec
  /\ \A e \in Endpoints :
       /\ WF_frames(Arrive(e) /\ UNCHANGED receiving)
       /\ WF_frames(CallRecvFrame(e))
       /\ WF_frames(RecvFrame(e))

-----------------------------------------------------------------------------

Failed(e) == \E k \in 1 .. Len(returned[e]) : returned[e][k] = nullptr

\* However the stream is cut into pieces, the frames returned before the first
\* nullptr are those sent, in order, and between two calls the stream is at the
\* first octet of a frame: an application that gives up at the first nullptr never
\* takes the middle of a frame for a header.
InOrderUntilFailure ==
  \A e \in Endpoints : ~Failed(e) =>
    /\ Len(returned[e]) <= Len(sent[Peer(e)])
    /\ \A k \in 1 .. Len(returned[e]) : returned[e][k] = sent[Peer(e)][k].content
    /\ call[e] # "payload" =>
         consumed[Peer(e)] = IF Len(returned[e]) < Len(sent[Peer(e)])
                             THEN starts[Peer(e)][Len(returned[e]) + 1]
                             ELSE written[Peer(e)]

\* The stream delivers frames whole, and e has sent only frames of the ten types.
KnownFrames(e) ==
  /\ cuts = {}
  /\ \A k \in 1 .. Len(sent[e]) : sent[e][k].content.type \in 0 .. 9

\* ... and only frames that have no octet above 127 in their length.
OrdinaryFrames(e) ==
  /\ KnownFrames(e)
  /\ \A k \in 1 .. Len(sent[e]) :
       LengthOctets(sent[e][k].content.length) \subseteq 0 .. 127

FailedAtEnd(e) ==
  Failed(e) /\ open[e] =>
    /\ ~open[Peer(e)]
    /\ Len(returned[e]) > Len(sent[Peer(e)])
    /\ \A k \in 1 .. Len(sent[Peer(e)]) : returned[e][k] = sent[Peer(e)][k].content

\* When ordinary frames arrive whole, RecvFrame returns nullptr only at the end of
\* the stream: either side has closed, and if it was the peer, every frame that it
\* sent has been returned.
FailsOnlyAtEnd == \A e \in Endpoints : OrdinaryFrames(Peer(e)) => FailedAtEnd(e)

\* What frame.h says of a length, that it has 24 bits: RecvFrame does the same for
\* every length.
LengthsAreRead == \A e \in Endpoints : KnownFrames(Peer(e)) => FailedAtEnd(e)

\* A frame is returned in the end, unless its receiver closes or the stream stops
\* being one of ordinary frames that arrive whole.
Returned(e, k) ==
  \E j \in (1 .. Len(returned[Peer(e)])) \intersect (1 .. Len(sent[e])) :
    j = k /\ returned[Peer(e)][j] = sent[e][j].content

EveryFrameReturned ==
  \A e \in Endpoints : \A k \in 1 .. MaxSent :
    Len(sent[e]) >= k ~> ~open[Peer(e)] \/ Returned(e, k) \/ ~OrdinaryFrames(e)

=============================================================================
