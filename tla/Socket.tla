------------------------------- MODULE Socket -------------------------------
(***************************************************************************)
(* The connected stream socket under the code, as ::send and ::read of     *)
(* src/frame.cc and src/connection.cc use it.  External: the socket is the *)
(* operating system's.                                                     *)
(*                                                                         *)
(* A stream of octets is kept as the messages written to it, one per call  *)
(* of ::send, and three positions: the octets written, those that have     *)
(* arrived at the reader's side, those it has consumed.  An octet is known *)
(* by its position, so nothing is lost, repeated or reordered; what varies *)
(* is how much of a message a read finds.  A blocking ::send writes all of *)
(* its buffer; a blocking ::read waits for one octet at least and takes as *)
(* many as there are, up to its limit.                                     *)
(***************************************************************************)
EXTENDS Integers, Sequences, Peers

CONSTANT
  CutSets   \* the choices of cuts: {}, when every message arrives as one piece, or
            \* the offsets inside a message at which a piece may end

ASSUME CutSetsAssumption == CutSets \subseteq SUBSET Nat

VARIABLES
  cuts,       \* where this behavior may cut a message
  sent,       \* sent[e]: the messages e has written, [size, content]
  starts,     \* starts[e][k]: the position of the first octet of sent[e][k]
  written,    \* written[e]: the octets that e has written
  arrived,    \* arrived[e]: how many of them have arrived
  consumed,   \* consumed[e]: how many of them the peer has read
  open        \* open[e]: e has not closed its descriptor

streams == <<cuts, sent, starts, written, arrived, consumed>>
socket == <<streams, open>>

SocketTypeOK ==
  /\ cuts \in CutSets
  /\ \A e \in Endpoints :
       /\ Len(starts[e]) = Len(sent[e])
       /\ 0 <= consumed[e] /\ consumed[e] <= arrived[e] /\ arrived[e] <= written[e]
  /\ open \in [Endpoints -> BOOLEAN]

SocketInit ==
  /\ cuts \in CutSets
  /\ sent = [e \in Endpoints |-> <<>>]
  /\ starts = [e \in Endpoints |-> <<>>]
  /\ written = [e \in Endpoints |-> 0]
  /\ arrived = [e \in Endpoints |-> 0]
  /\ consumed = [e \in Endpoints |-> 0]
  /\ open = [e \in Endpoints |-> TRUE]

\* ::send of a message of size octets; SIGPIPE is ignored, and so is the result.
Write(e, size, content) ==
  IF open[e] /\ open[Peer(e)]
  THEN /\ sent' = [sent EXCEPT ![e] = Append(@, [size |-> size, content |-> content])]
       /\ starts' = [starts EXCEPT ![e] = Append(@, written[e])]
       /\ written' = [written EXCEPT ![e] = @ + size]
       /\ UNCHANGED <<cuts, arrived, consumed>>
  ELSE UNCHANGED streams

\* The network brings the next octets of e's stream to the other side.
Arrive(e) ==
  /\ \E n \in (arrived[e] + 1) .. written[e] :
       /\ \/ n = written[e]
          \/ \E k \in 1 .. Len(starts[e]) : n - starts[e][k] \in cuts \union {0}
       /\ arrived' = [arrived EXCEPT ![e] = n]
  /\ UNCHANGED <<cuts, sent, starts, written, consumed, open>>

\* The most octets that one call of ::read returns (Linux).
MaxRead == 2147479552

Lesser(a, b) == IF a <= b THEN a ELSE b

\* ::read by e, for at most limit octets: it can return, and how many it returns.
\* It returns none when its limit is 0, when e has closed its own descriptor (-1),
\* and when the peer has closed and everything written was consumed.
Readable(e, limit) ==
  \/ limit = 0
  \/ ~open[e]
  \/ arrived[Peer(e)] > consumed[Peer(e)]
  \/ ~open[Peer(e)] /\ consumed[Peer(e)] = written[Peer(e)]

Count(e, limit) ==
  LET available == arrived[Peer(e)] - consumed[Peer(e)]
  IN IF ~open[e] THEN 0 ELSE Lesser(limit, Lesser(available, MaxRead))

Consume(e, n) ==
  /\ consumed' = [consumed EXCEPT ![Peer(e)] = @ + n]
  /\ UNCHANGED <<cuts, sent, starts, written, arrived>>

\* The message whose first octet e reads next, if its next octet is the first of
\* a message.
AtMessage(e) == \E k \in 1 .. Len(starts[Peer(e)]) : starts[Peer(e)][k] = consumed[Peer(e)]

MessageAt(e) ==
  sent[Peer(e)][CHOOSE k \in 1 .. Len(starts[Peer(e)]) :
                  starts[Peer(e)][k] = consumed[Peer(e)]]

=============================================================================
