------------------------- MODULE FrameStreamProofs -------------------------
(***************************************************************************)
(* Proofs about FrameStream: frames are returned as they were sent, for    *)
(* any frames, any number of messages and calls, and any cuts.             *)
(*                                                                         *)
(* The invariant is in three parts: the messages of a stream lie one       *)
(* behind the other (Layout), a stream that is not cut arrives in whole    *)
(* messages (Whole), and a reader that has not failed has read as many     *)
(* messages as it has returned frames, or is behind the header of the      *)
(* next (InStep).                                                          *)
(***************************************************************************)
EXTENDS FrameStream, TLAPS

Message == [size : Nat, content : Frame]

StreamsType ==
  /\ sent \in [Endpoints -> Seq(Message)]
  /\ starts \in [Endpoints -> Seq(Nat)]
  /\ written \in [Endpoints -> Nat]
  /\ arrived \in [Endpoints -> Nat]
  /\ consumed \in [Endpoints -> Nat]
  /\ open \in [Endpoints -> BOOLEAN]
  /\ cuts \in CutSets

\* The position of the k-th of the messages m, which begin at s and end at w, or of the
\* one that would come next.
Position(m, s, w, k) == IF k <= Len(m) THEN s[k] ELSE w

\* The messages lie one behind the other.
LaidOut(m, s, w) ==
  /\ Len(s) = Len(m)
  /\ Position(m, s, w, 1) = 0
  /\ \A k \in 1 .. Len(m) :
       /\ m[k].size = HEADER_LEN + m[k].content.length
       /\ Position(m, s, w, k + 1) = s[k] + m[k].size
       /\ Position(m, s, w, k + 1) <= w
       /\ \A j \in k + 1 .. Len(m) : Position(m, s, w, k + 1) <= s[j]

Start(e, k) == Position(sent[e], starts[e], written[e], k)

Layout(e) ==
  /\ LaidOut(sent[e], starts[e], written[e])
  /\ consumed[e] <= arrived[e] /\ arrived[e] <= written[e]

Whole(e) == cuts = {} => \E k \in 1 .. Len(sent[e]) + 1 : arrived[e] = Start(e, k)

ReceivingType ==
  /\ call \in [Endpoints -> {"none", "header", "payload"}]
  /\ incoming \in [Endpoints -> Frame \union {nullptr}]
  /\ returned \in [Endpoints -> Seq(Frame \union {nullptr})]

\* What e has returned are the first messages of its peer.
Faithful(e) ==
  /\ Len(returned[e]) <= Len(sent[Peer(e)])
  /\ \A k \in 1 .. Len(returned[e]) : returned[e][k] = sent[Peer(e)][k].content

InStep(e) ==
  ~Failed(e) =>
    /\ Faithful(e)
    /\ call[e] # "payload" => consumed[Peer(e)] = Start(Peer(e), Len(returned[e]) + 1)
    /\ call[e] = "payload" =>
         /\ Len(returned[e]) < Len(sent[Peer(e)])
         /\ incoming[e] = sent[Peer(e)][Len(returned[e]) + 1].content
         /\ consumed[Peer(e)] = starts[Peer(e)][Len(returned[e]) + 1] + HEADER_LEN

Laid == StreamsType /\ \A e \in Endpoints : Layout(e) /\ Whole(e)

IInv == Laid /\ ReceivingType /\ \A e \in Endpoints : InStep(e)

LEMMA PeerIsOther ==
  \A e \in Endpoints : Peer(e) \in Endpoints /\ Peer(e) # e /\ Peer(Peer(e)) = e
BY DEF Peer, Endpoints

LEMMA FrameType ==
  \A frame \in Frame : frame.type \in 0 .. 255 /\ frame.length \in 0 .. MaxLength
BY DEF Frame

LEMMA NullType == nullptr.type = -1 /\ nullptr.length = 0
BY DEF nullptr

LEMMA ReadRange ==
  /\ MaxRead \in Nat /\ Huge \in Nat /\ MaxLength \in Nat /\ HEADER_LEN \in Nat \ {0}
  /\ MaxRead < Huge /\ MaxLength < MaxRead /\ HEADER_LEN < MaxRead
BY SMT DEF MaxRead, Huge, MaxLength, HEADER_LEN

\* A frame's length can be read at once; Huge cannot.
LEMMA FrameFacts ==
  ASSUME NEW frame \in Frame
  PROVE  /\ frame # nullptr /\ frame.type \in Nat
         /\ frame.length \in Nat /\ frame.length < MaxRead
BY FrameType, NullType, ReadRange

-----------------------------------------------------------------------------
(* The streams.                                                            *)

LEMMA PositionType ==
  ASSUME NEW m \in Seq(Message), NEW s \in Seq(Nat), NEW w \in Nat, Len(s) = Len(m),
         NEW k \in Nat \ {0}
  PROVE  Position(m, s, w, k) \in Nat
<1>1. CASE k <= Len(m)
  <2>1. k \in 1 .. Len(s)
    BY <1>1
  <2>2. QED
    BY <1>1, <2>1 DEF Position
<1>2. CASE ~(k <= Len(m))
  BY <1>2 DEF Position
<1>3. QED
  BY <1>1, <1>2

LEMMA AppendLaidOut ==
  ASSUME NEW m \in Seq(Message), NEW s \in Seq(Nat), NEW w \in Nat, LaidOut(m, s, w),
         NEW x \in Message, x.size = HEADER_LEN + x.content.length
  PROVE  /\ LaidOut(Append(m, x), Append(s, w), w + x.size)
         /\ \A k \in 1 .. Len(m) + 1 :
              Position(Append(m, x), Append(s, w), w + x.size, k) = Position(m, s, w, k)
         /\ Position(Append(m, x), Append(s, w), w + x.size, Len(m) + 2) = w + x.size
<1> DEFINE n == Len(m)
           mm == Append(m, x)
           ss == Append(s, w)
           ww == w + x.size
<1>1. n \in Nat /\ Len(s) = n /\ x.size \in Nat
  BY DEF LaidOut, Message
<1>2. /\ Len(mm) = n + 1 /\ Len(ss) = n + 1
      /\ mm[n + 1] = x /\ ss[n + 1] = w
      /\ \A k \in 1 .. n : mm[k] = m[k] /\ ss[k] = s[k]
  BY <1>1
<1>3. /\ \A k \in 1 .. n + 1 : Position(mm, ss, ww, k) = Position(m, s, w, k)
      /\ Position(mm, ss, ww, n + 2) = ww
      /\ Position(m, s, w, n + 1) = w
  <2> HIDE DEF mm, ss, ww
  <2>1. QED
    BY <1>1, <1>2 DEF Position
<1>4. \A k \in 1 .. n + 1 : Position(m, s, w, k) \in Nat /\ k \in Nat
  <2> TAKE k \in 1 .. n + 1
  <2>1. k \in Nat \ {0}
    BY <1>1
  <2> HIDE DEF n
  <2>2. QED
    BY <1>1, <2>1, PositionType DEF n
<1>5. ww \in Nat /\ w <= ww
  BY <1>1
<1> HIDE DEF mm, ss, n
<1>6. \A k \in 1 .. n : \A j \in k + 1 .. n : Position(m, s, w, k + 1) <= s[j]
  BY DEF LaidOut, n
<1>7. ASSUME NEW k \in 1 .. n + 1
      PROVE  /\ mm[k].size = HEADER_LEN + mm[k].content.length
             /\ Position(mm, ss, ww, k + 1) = ss[k] + mm[k].size
             /\ Position(mm, ss, ww, k + 1) <= ww
             /\ \A j \in k + 1 .. n + 1 : Position(mm, ss, ww, k + 1) <= ss[j]
  <2>1. CASE k = n + 1
    <3>1. k + 1 = n + 2 /\ (k + 1) .. (n + 1) = {}
      BY <1>1, <2>1
    <3>2. QED
      BY <1>2, <1>3, <1>5, <2>1, <3>1
  <2>2. CASE k \in 1 .. n
    <3>1. /\ m[k].size = HEADER_LEN + m[k].content.length
          /\ Position(m, s, w, k + 1) = s[k] + m[k].size
          /\ Position(m, s, w, k + 1) <= w
      BY <2>2 DEF LaidOut, n
    <3>2. k + 1 \in 1 .. n + 1 /\ Position(mm, ss, ww, k + 1) = Position(m, s, w, k + 1)
      <4>1. k + 1 \in 1 .. n + 1
        BY <1>1, <2>2
      <4>2. QED
        BY <1>3, <4>1
    <3>3. Position(m, s, w, k + 1) <= ww
      BY <1>4, <1>5, <3>1, <3>2
    <3>4. \A j \in k + 1 .. n + 1 : Position(m, s, w, k + 1) <= ss[j]
      <4> TAKE j \in k + 1 .. n + 1
      <4>1. CASE j = n + 1
        BY <1>2, <3>1, <4>1
      <4>2. CASE j \in k + 1 .. n
        <5>1. j \in 1 .. n
          BY <1>1, <2>2, <4>2
        <5>2. QED
          BY <1>2, <1>6, <2>2, <4>2, <5>1
      <4>3. QED
        BY <1>1, <4>1, <4>2
    <3>5. QED
      BY <1>2, <2>2, <3>1, <3>2, <3>3, <3>4
  <2>3. QED
    BY <1>1, <2>1, <2>2
<1>8. Position(mm, ss, ww, 1) = 0
  BY <1>1, <1>3 DEF LaidOut
<1>9. LaidOut(mm, ss, ww)
  BY <1>2, <1>7, <1>8 DEF LaidOut
<1>10. QED
  BY <1>3, <1>9 DEF mm, ss, n

\* A step appends to the streams at most.
Grows ==
  /\ cuts' = cuts
  /\ \A e \in Endpoints :
    /\ ~open[e] => sent'[e] = sent[e]
    /\ Len(sent[e]) <= Len(sent'[e])
    /\ \A k \in 1 .. Len(sent[e]) : sent'[e][k] = sent[e][k] /\ starts'[e][k] = starts[e][k]
    /\ \A k \in 1 .. Len(sent[e]) + 1 :
         Position(sent'[e], starts'[e], written'[e], k) = Start(e, k)

LEMMA SentKept ==
  ASSUME Laid, UNCHANGED <<cuts, sent, starts, written>>
  PROVE  Grows
<1>1. \A e \in Endpoints : Len(sent[e]) \in Nat
  BY DEF Laid, StreamsType
<1>2. QED
  BY <1>1 DEF Grows, Start

LEMMA WriteKeeps ==
  ASSUME Laid, NEW e \in Endpoints, NEW frame \in Frame,
         Write(e, HEADER_LEN + frame.length, frame), UNCHANGED open
  PROVE  Laid' /\ Grows /\ consumed' = consumed
<1>1. CASE UNCHANGED streams
  <2>1. Laid'
    BY <1>1 DEF streams, Laid, StreamsType, Layout, Whole, Start
  <2>2. QED
    BY <1>1, <2>1, SentKept DEF streams
<1>2. CASE /\ sent' = [sent EXCEPT ![e] = Append(@, [size |-> HEADER_LEN + frame.length,
                                                     content |-> frame])]
           /\ starts' = [starts EXCEPT ![e] = Append(@, written[e])]
           /\ written' = [written EXCEPT ![e] = @ + (HEADER_LEN + frame.length)]
           /\ UNCHANGED <<cuts, arrived, consumed>>
           /\ open[e]
  <2> DEFINE x == [size |-> HEADER_LEN + frame.length, content |-> frame]
  <2>1. /\ x \in Message /\ x.size = HEADER_LEN + x.content.length
        /\ x.size = HEADER_LEN + frame.length /\ x.size \in Nat
    BY FrameFacts DEF Message, HEADER_LEN
  <2>2. /\ sent[e] \in Seq(Message) /\ starts[e] \in Seq(Nat) /\ written[e] \in Nat
        /\ Len(sent[e]) \in Nat /\ arrived[e] \in Nat /\ consumed[e] \in Nat
        /\ LaidOut(sent[e], starts[e], written[e])
        /\ consumed[e] <= arrived[e] /\ arrived[e] <= written[e]
    BY DEF Laid, StreamsType, Layout
  <2>3. /\ sent'[e] = Append(sent[e], x) /\ starts'[e] = Append(starts[e], written[e])
        /\ written'[e] = written[e] + x.size
        /\ \A p \in Endpoints \ {e} : /\ sent'[p] = sent[p] /\ starts'[p] = starts[p]
                                      /\ written'[p] = written[p]
    BY <1>2 DEF Laid, StreamsType
  <2> HIDE DEF x
  <2>4. /\ LaidOut(sent'[e], starts'[e], written'[e])
        /\ \A k \in 1 .. Len(sent[e]) + 1 :
             Position(sent'[e], starts'[e], written'[e], k) = Start(e, k)
    <3>1. /\ LaidOut(Append(sent[e], x), Append(starts[e], written[e]), written[e] + x.size)
          /\ \A k \in 1 .. Len(sent[e]) + 1 :
               Position(Append(sent[e], x), Append(starts[e], written[e]),
                        written[e] + x.size, k) = Start(e, k)
      BY <2>1, <2>2, AppendLaidOut DEF Start
    <3>2. QED
      BY <2>3, <3>1
  <2>5. /\ Len(sent'[e]) = Len(sent[e]) + 1
        /\ \A k \in 1 .. Len(sent[e]) : sent'[e][k] = sent[e][k] /\ starts'[e][k] = starts[e][k]
    BY <2>1, <2>2, <2>3 DEF LaidOut
  <2>6. Grows
    <3>1. \A p \in Endpoints : Len(sent[p]) \in Nat
      BY DEF Laid, StreamsType
    <3>2. SUFFICES ASSUME NEW p \in Endpoints
                   PROVE  /\ Len(sent[p]) <= Len(sent'[p])
                          /\ \A k \in 1 .. Len(sent[p]) :
                               sent'[p][k] = sent[p][k] /\ starts'[p][k] = starts[p][k]
                          /\ \A k \in 1 .. Len(sent[p]) + 1 :
                               Position(sent'[p], starts'[p], written'[p], k) = Start(p, k)
      <4>1. \A p \in Endpoints : ~open[p] => sent'[p] = sent[p]
        BY <1>2, <2>3
      <4>2. QED
        BY <1>2, <4>1 DEF Grows
    <3>3. CASE p = e
      BY <2>4, <2>5, <3>1, <3>3
    <3>4. CASE p # e
      BY <2>3, <3>1, <3>4 DEF Start
    <3>5. QED
      BY <3>3, <3>4
  <2>7. StreamsType'
    <3>1. sent'[e] \in Seq(Message) /\ starts'[e] \in Seq(Nat) /\ written'[e] \in Nat
      BY <2>1, <2>2, <2>3
    <3>2. /\ sent' \in [Endpoints -> Seq(Message)]
          /\ starts' \in [Endpoints -> Seq(Nat)]
          /\ written' \in [Endpoints -> Nat]
      BY <1>2, <2>1, <2>2, <3>1 DEF Laid, StreamsType
    <3>3. QED
      BY <1>2, <3>2 DEF Laid, StreamsType
  <2>8. Layout(e)'
    BY <1>2, <2>1, <2>2, <2>3, <2>4 DEF Layout
  <2>9. Whole(e)'
    <3>1. \A k \in 1 .. Len(sent[e]) + 1 : k \in 1 .. Len(sent'[e]) + 1
      BY <2>2, <2>5
    <3>2. QED
      BY <1>2, <2>4, <3>1 DEF Laid, Whole, Start
  <2>10. \A p \in Endpoints \ {e} : Layout(p)' /\ Whole(p)'
    BY <1>2, <2>3 DEF Laid, Layout, Whole, Start
  <2>11. QED
    BY <1>2, <2>6, <2>7, <2>8, <2>9, <2>10 DEF Laid
<1>3. QED
  BY <1>1, <1>2 DEF Write

LEMMA ArriveKeeps ==
  ASSUME Laid, NEW e \in Endpoints, Arrive(e)
  PROVE  Laid' /\ Grows /\ consumed' = consumed
<1>1. PICK n \in (arrived[e] + 1) .. written[e] :
        /\ \/ n = written[e]
           \/ \E k \in 1 .. Len(starts[e]) : n - starts[e][k] \in cuts \union {0}
        /\ arrived' = [arrived EXCEPT ![e] = n]
  BY DEF Arrive
<1>2. UNCHANGED <<cuts, sent, starts, written, consumed, open>>
  BY DEF Arrive
<1>3. n \in Nat /\ arrived[e] <= n /\ n <= written[e] /\ arrived'[e] = n
      /\ \A p \in Endpoints \ {e} : arrived'[p] = arrived[p]
  BY <1>1 DEF Laid, StreamsType
<1>4. StreamsType'
  BY <1>1, <1>2, <1>3 DEF Laid, StreamsType
<1>5. \A p \in Endpoints : Layout(p)'
  <2>1. consumed[e] <= n
    BY <1>3 DEF Laid, StreamsType, Layout
  <2>2. Layout(e)'
    BY <1>2, <1>3, <2>1 DEF Laid, Layout
  <2>3. \A p \in Endpoints \ {e} : Layout(p)'
    BY <1>2, <1>3 DEF Laid, Layout
  <2>4. QED
    BY <2>2, <2>3
<1>6. Whole(e)'
  <2> SUFFICES ASSUME cuts = {} PROVE \E k \in 1 .. Len(sent[e]) + 1 : n = Start(e, k)
    BY <1>2, <1>3 DEF Whole, Start
  <2>1. Len(sent[e]) \in Nat /\ Len(starts[e]) = Len(sent[e]) /\ starts[e] \in Seq(Nat)
    BY DEF Laid, StreamsType, Layout, LaidOut
  <2>2. CASE n = written[e]
    <3>1. Start(e, Len(sent[e]) + 1) = written[e]
      BY <2>1 DEF Start, Position
    <3>2. Len(sent[e]) + 1 \in 1 .. Len(sent[e]) + 1
      BY <2>1
    <3>3. QED
      BY <2>2, <3>1, <3>2
  <2>3. ASSUME NEW k \in 1 .. Len(starts[e]), n - starts[e][k] = 0
        PROVE  \E j \in 1 .. Len(sent[e]) + 1 : n = Start(e, j)
    BY <1>3, <2>1, <2>3 DEF Start, Position
  <2>4. QED
    BY <1>1, <2>2, <2>3
<1>7. \A p \in Endpoints \ {e} : Whole(p)'
  BY <1>2, <1>3 DEF Laid, Whole, Start
<1>8. QED
  BY <1>2, <1>4, <1>5, <1>6, <1>7, SentKept DEF Laid

LEMMA ConsumeKeeps ==
  ASSUME Laid, NEW e \in Endpoints, NEW n \in Nat,
         n <= arrived[Peer(e)] - consumed[Peer(e)],
         Consume(e, n), UNCHANGED open
  PROVE  /\ Laid' /\ Grows
         /\ consumed'[Peer(e)] = consumed[Peer(e)] + n
         /\ consumed'[e] = consumed[e]
<1>1. /\ consumed' = [consumed EXCEPT ![Peer(e)] = consumed[Peer(e)] + n]
      /\ UNCHANGED <<cuts, sent, starts, written, arrived>>
  BY DEF Consume
<1>2. StreamsType'
  <2>1. consumed[Peer(e)] + n \in Nat /\ consumed \in [Endpoints -> Nat]
    BY PeerIsOther DEF Laid, StreamsType
  <2>2. consumed' \in [Endpoints -> Nat]
    BY <1>1, <2>1
  <2>3. QED
    BY <1>1, <2>2 DEF Laid, StreamsType
<1>3. \A p \in Endpoints : consumed'[p] <= arrived[p]
  BY <1>1, PeerIsOther DEF Laid, StreamsType, Layout
<1>4. \A p \in Endpoints : Layout(p)' /\ Whole(p)'
  BY <1>1, <1>3 DEF Laid, Layout, Whole, Start
<1>5. consumed'[Peer(e)] = consumed[Peer(e)] + n /\ consumed'[e] = consumed[e]
  BY <1>1, PeerIsOther DEF Laid, StreamsType
<1>6. QED
  BY <1>1, <1>2, <1>4, <1>5, SentKept DEF Laid

\* What one read returns.
LEMMA CountType ==
  ASSUME Laid, NEW e \in Endpoints, NEW limit \in Nat
  PROVE  /\ Count(e, limit) \in Nat
         /\ Count(e, limit) <= arrived[Peer(e)] - consumed[Peer(e)]
         /\ Count(e, limit) <= limit
         /\ Count(e, limit) <= MaxRead
         /\ open[e] /\ limit <= arrived[Peer(e)] - consumed[Peer(e)] /\ limit <= MaxRead
              => Count(e, limit) = limit
<1>1. /\ arrived[Peer(e)] \in Nat /\ consumed[Peer(e)] \in Nat
      /\ consumed[Peer(e)] <= arrived[Peer(e)]
  BY PeerIsOther DEF Laid, StreamsType, Layout
<1>2. QED
  BY <1>1, ReadRange DEF Count, Lesser

LEMMA GrowsType ==
  ASSUME Laid, Laid', Grows, NEW p \in Endpoints
  PROVE  /\ Len(sent[p]) \in Nat /\ Len(sent'[p]) \in Nat /\ Len(sent[p]) <= Len(sent'[p])
         /\ \A k \in 1 .. Len(sent[p]) : sent'[p][k] = sent[p][k] /\ starts'[p][k] = starts[p][k]
         /\ \A k \in 1 .. Len(sent[p]) + 1 :
              Position(sent'[p], starts'[p], written'[p], k) = Start(p, k)
<1>1. Len(sent[p]) \in Nat /\ Len(sent'[p]) \in Nat
  BY DEF Laid, StreamsType
<1>2. QED
  BY <1>1 DEF Grows

LEMMA PositionsAscend ==
  ASSUME NEW m \in Seq(Message), NEW s \in Seq(Nat), NEW w \in Nat, LaidOut(m, s, w),
         NEW j \in 1 .. Len(m)
  PROVE  /\ s[j] \in Nat /\ m[j].size \in Nat /\ m[j].size >= HEADER_LEN
         /\ Position(m, s, w, j) = s[j]
         /\ Position(m, s, w, j + 1) = s[j] + m[j].size
         /\ \A k \in j + 1 .. Len(m) + 1 : s[j] + m[j].size <= Position(m, s, w, k)
<1>1. /\ Len(s) = Len(m) /\ Len(m) \in Nat /\ s[j] \in Nat
      /\ m[j] \in Message
  BY DEF LaidOut
<1>2. m[j].size >= HEADER_LEN /\ m[j].size \in Nat
  <2>1. m[j].content \in Frame /\ m[j].size = HEADER_LEN + m[j].content.length
    BY <1>1 DEF LaidOut, Message
  <2>2. m[j].content.length \in Nat
    BY <2>1, FrameFacts
  <2>3. QED
    BY <2>1, <2>2 DEF HEADER_LEN
<1>3. /\ Position(m, s, w, j + 1) = s[j] + m[j].size
      /\ s[j] + m[j].size <= w
      /\ \A k \in j + 1 .. Len(m) : s[j] + m[j].size <= s[k]
  BY DEF LaidOut
<1>4. \A k \in j + 1 .. Len(m) + 1 : s[j] + m[j].size <= Position(m, s, w, k)
  <2> TAKE k \in j + 1 .. Len(m) + 1
  <2>1. CASE k <= Len(m)
    BY <1>1, <1>3, <2>1 DEF Position
  <2>2. CASE ~(k <= Len(m))
    BY <1>3, <2>2 DEF Position
  <2>3. QED
    BY <2>1, <2>2
<1>5. QED
  BY <1>1, <1>2, <1>3, <1>4 DEF Position

\* A stream that is not cut has brought all of a message or none of it.
LEMMA WholeArrives ==
  ASSUME Laid, NEW e \in Endpoints, cuts = {}, NEW j \in 1 .. Len(sent[e]),
         arrived[e] > starts[e][j]
  PROVE  arrived[e] >= starts[e][j] + sent[e][j].size
<1> DEFINE m == sent[e]
           s == starts[e]
           w == written[e]
<1>1. m \in Seq(Message) /\ s \in Seq(Nat) /\ w \in Nat /\ LaidOut(m, s, w)
  BY DEF Laid, StreamsType, Layout
<1>2. PICK k \in 1 .. Len(m) + 1 : arrived[e] = Position(m, s, w, k)
  BY DEF Laid, Whole, Start
<1>3. Len(m) \in Nat /\ j \in 1 .. Len(m)
  BY <1>1
<1> HIDE DEF m, s, w
<1>4. arrived[e] > s[j]
  BY DEF s
<1>5. CASE k \in j + 1 .. Len(m) + 1
  <2>1. s[j] \in Nat /\ m[j].size \in Nat /\ s[j] + m[j].size <= arrived[e]
    BY <1>1, <1>2, <1>3, <1>5, PositionsAscend
  <2>2. arrived[e] \in Nat
    BY DEF Laid, StreamsType
  <2>3. QED
    BY <2>1, <2>2 DEF m, s
<1>6. CASE k \in 1 .. j
  <2>1. k \in 1 .. Len(m) /\ j \in k .. Len(m)
    BY <1>3, <1>6
  <2>2. s[k] \in Nat /\ s[j] \in Nat /\ Position(m, s, w, k) = s[k]
    BY <1>1, <1>3, <2>1, PositionsAscend
  <2>3. s[k] <= s[j]
    <3>1. CASE k = j
      BY <2>2, <3>1
    <3>2. CASE k < j
      <4>1. j \in k + 1 .. Len(m) + 1
        BY <1>3, <2>1, <3>2
      <4>2. /\ s[k] + m[k].size <= Position(m, s, w, j) /\ Position(m, s, w, j) = s[j]
            /\ m[k].size \in Nat
        BY <1>1, <1>3, <2>1, <4>1, PositionsAscend
      <4>3. QED
        BY <2>2, <4>2
    <3>3. QED
      BY <1>6, <3>1, <3>2
  <2>4. QED
    BY <1>2, <1>4, <2>2, <2>3
<1>7. QED
  BY <1>2, <1>3, <1>5, <1>6

-----------------------------------------------------------------------------
(* The readers.                                                            *)

LEMMA ReaderType ==
  ASSUME IInv, NEW e \in Endpoints
  PROVE  /\ returned[e] \in Seq(Frame \union {nullptr}) /\ Len(returned[e]) \in Nat
         /\ incoming[e] \in Frame \union {nullptr}
         /\ call[e] \in {"none", "header", "payload"}
         /\ Peer(e) \in Endpoints
         /\ sent[Peer(e)] \in Seq(Message) /\ Len(sent[Peer(e)]) \in Nat
         /\ starts[Peer(e)] \in Seq(Nat) /\ Len(starts[Peer(e)]) = Len(sent[Peer(e)])
         /\ written[Peer(e)] \in Nat /\ arrived[Peer(e)] \in Nat
         /\ consumed[Peer(e)] \in Nat /\ consumed[Peer(e)] <= arrived[Peer(e)]
         /\ arrived[Peer(e)] <= written[Peer(e)]
         /\ LaidOut(sent[Peer(e)], starts[Peer(e)], written[Peer(e)])
<1>1. Peer(e) \in Endpoints
  BY PeerIsOther
<1>2. /\ returned[e] \in Seq(Frame \union {nullptr}) /\ Len(returned[e]) \in Nat
      /\ incoming[e] \in Frame \union {nullptr}
      /\ call[e] \in {"none", "header", "payload"}
  BY DEF IInv, ReceivingType
<1>3. ASSUME NEW p \in Endpoints
      PROVE  /\ sent[p] \in Seq(Message) /\ Len(sent[p]) \in Nat /\ starts[p] \in Seq(Nat)
             /\ written[p] \in Nat /\ arrived[p] \in Nat /\ consumed[p] \in Nat
  BY DEF IInv, Laid, StreamsType
<1>4. ASSUME NEW p \in Endpoints
      PROVE  /\ Len(starts[p]) = Len(sent[p])
             /\ consumed[p] <= arrived[p] /\ arrived[p] <= written[p]
             /\ LaidOut(sent[p], starts[p], written[p])
  BY DEF IInv, Laid, Layout, LaidOut
<1>5. QED
  BY <1>1, <1>2, <1>3, <1>4

\* A reader that does nothing stays in step.
LEMMA InStepKept ==
  ASSUME IInv, Grows, NEW e \in Endpoints, returned'[e] = returned[e],
         consumed'[Peer(e)] = consumed[Peer(e)],
         \/ call'[e] = call[e] /\ incoming'[e] = incoming[e]
         \/ call[e] # "payload" /\ call'[e] # "payload"
  PROVE  InStep(e)'
<1> DEFINE p == Peer(e)
           n == Len(returned[e])
<1>1. /\ p \in Endpoints /\ n \in Nat /\ Len(sent[p]) \in Nat
      /\ Len(sent[p]) <= Len(sent'[p])
  BY ReaderType DEF Grows
<1> HIDE DEF p, n
<1>2. SUFFICES ASSUME ~Failed(e)
               PROVE  /\ n <= Len(sent'[p])
                      /\ \A k \in 1 .. n : returned[e][k] = sent'[p][k].content
                      /\ call'[e] # "payload" =>
                           consumed[p] = Position(sent'[p], starts'[p], written'[p], n + 1)
                      /\ call'[e] = "payload" =>
                           /\ n < Len(sent'[p])
                           /\ incoming'[e] = sent'[p][n + 1].content
                           /\ consumed[p] = starts'[p][n + 1] + HEADER_LEN
  BY DEF InStep, Failed, Faithful, Start, p, n
<1>3. /\ n <= Len(sent[p])
      /\ \A k \in 1 .. n : returned[e][k] = sent[p][k].content
      /\ call[e] # "payload" => consumed[p] = Start(p, n + 1)
      /\ call[e] = "payload" =>
           /\ n < Len(sent[p])
           /\ incoming[e] = sent[p][n + 1].content
           /\ consumed[p] = starts[p][n + 1] + HEADER_LEN
  BY <1>2 DEF IInv, InStep, Faithful, p, n
<1>4. /\ \A k \in 1 .. Len(sent[p]) : sent'[p][k] = sent[p][k] /\ starts'[p][k] = starts[p][k]
      /\ \A k \in 1 .. Len(sent[p]) + 1 :
           Position(sent'[p], starts'[p], written'[p], k) = Start(p, k)
  BY <1>1 DEF Grows
<1>5. /\ n <= Len(sent'[p])
      /\ \A k \in 1 .. n : returned[e][k] = sent'[p][k].content
  BY <1>1, <1>3, <1>4
<1>6. Position(sent'[p], starts'[p], written'[p], n + 1) = Start(p, n + 1)
  BY <1>1, <1>3, <1>4
<1>7. n < Len(sent[p]) =>
        /\ sent'[p][n + 1] = sent[p][n + 1] /\ starts'[p][n + 1] = starts[p][n + 1]
        /\ n < Len(sent'[p])
  BY <1>1, <1>4
<1>8. QED
  BY <1>3, <1>5, <1>6, <1>7

\* What a reader that is between two frames, and for which octets have arrived, finds.
LEMMA NextMessage ==
  ASSUME IInv, NEW e \in Endpoints, ~Failed(e), call[e] # "payload",
         arrived[Peer(e)] > consumed[Peer(e)]
  PROVE  /\ Len(returned[e]) < Len(sent[Peer(e)])
         /\ consumed[Peer(e)] = starts[Peer(e)][Len(returned[e]) + 1]
         /\ AtMessage(e) /\ MessageAt(e) = sent[Peer(e)][Len(returned[e]) + 1]
<1> DEFINE m == sent[Peer(e)]
           s == starts[Peer(e)]
           w == written[Peer(e)]
           n == Len(returned[e])
<1>1. /\ m \in Seq(Message) /\ s \in Seq(Nat) /\ w \in Nat /\ LaidOut(m, s, w)
      /\ Len(m) \in Nat /\ Len(s) = Len(m) /\ n \in Nat
      /\ arrived[Peer(e)] \in Nat /\ consumed[Peer(e)] \in Nat /\ arrived[Peer(e)] <= w
  BY ReaderType
<1>2. consumed[Peer(e)] = Position(m, s, w, n + 1) /\ n <= Len(m)
  BY DEF IInv, InStep, Faithful, Start
<1> HIDE DEF m, s, w, n
<1>3. n < Len(m) /\ n + 1 \in 1 .. Len(m) /\ consumed[Peer(e)] = s[n + 1]
  <2>1. CASE n + 1 <= Len(m)
    BY <1>1, <1>2, <2>1 DEF Position
  <2>2. CASE ~(n + 1 <= Len(m))
    <3>1. consumed[Peer(e)] = w
      BY <1>2, <2>2 DEF Position
    <3>2. QED
      BY <1>1, <3>1
  <2>3. QED
    BY <2>1, <2>2
<1>4. \A k \in 1 .. Len(m) : s[k] = s[n + 1] => k = n + 1
  <2> SUFFICES ASSUME NEW k \in 1 .. Len(m), k # n + 1 PROVE s[k] # s[n + 1]
    OBVIOUS
  <2>1. /\ s[k] \in Nat /\ s[n + 1] \in Nat
        /\ m[k].size \in Nat /\ m[k].size >= 9 /\ m[n + 1].size \in Nat /\ m[n + 1].size >= 9
        /\ Position(m, s, w, k) = s[k] /\ Position(m, s, w, n + 1) = s[n + 1]
        /\ \A j \in k + 1 .. Len(m) + 1 : s[k] + m[k].size <= Position(m, s, w, j)
        /\ \A j \in n + 1 + 1 .. Len(m) + 1 :
             s[n + 1] + m[n + 1].size <= Position(m, s, w, j)
    BY <1>1, <1>3, PositionsAscend DEF HEADER_LEN
  <2>2. CASE k < n + 1
    <3>1. n + 1 \in k + 1 .. Len(m) + 1
      BY <1>1, <1>3, <2>2
    <3>2. QED
      BY <2>1, <3>1
  <2>3. CASE n + 1 < k
    <3>1. k \in n + 1 + 1 .. Len(m) + 1
      BY <1>1, <1>3, <2>3
    <3>2. QED
      BY <2>1, <3>1
  <2>4. QED
    BY <1>1, <2>2, <2>3
<1>5. \E k \in 1 .. Len(s) : s[k] = consumed[Peer(e)]
  BY <1>1, <1>3
<1>6. (CHOOSE k \in 1 .. Len(s) : s[k] = consumed[Peer(e)]) = n + 1
  BY <1>1, <1>3, <1>4, <1>5
<1>7. QED
  BY <1>3, <1>5, <1>6 DEF AtMessage, MessageAt, m, s, n

LEMMA ReturnFails ==
  ASSUME IInv, NEW e \in Endpoints, NEW frame \in Frame \union {nullptr}, Return(e, frame)
  PROVE  /\ returned' \in [Endpoints -> Seq(Frame \union {nullptr})]
         /\ call' \in [Endpoints -> {"none", "header", "payload"}]
         /\ call'[e] = "none"
         /\ Len(returned'[e]) = Len(returned[e]) + 1
         /\ returned'[e][Len(returned[e]) + 1] = frame
         /\ \A k \in 1 .. Len(returned[e]) : returned'[e][k] = returned[e][k]
         /\ Failed(e)' <=> Failed(e) \/ frame = nullptr
         /\ \A q \in Endpoints \ {e} : returned'[q] = returned[q] /\ call'[q] = call[q]
<1>1. /\ returned' = [returned EXCEPT ![e] = Append(@, frame)]
      /\ call' = [call EXCEPT ![e] = "none"]
  BY DEF Return
<1>2. /\ returned[e] \in Seq(Frame \union {nullptr}) /\ Len(returned[e]) \in Nat
      /\ returned \in [Endpoints -> Seq(Frame \union {nullptr})]
      /\ call \in [Endpoints -> {"none", "header", "payload"}]
  BY DEF IInv, ReceivingType
<1>3. /\ returned'[e] = Append(returned[e], frame) /\ call'[e] = "none"
      /\ \A q \in Endpoints \ {e} : returned'[q] = returned[q] /\ call'[q] = call[q]
      /\ call' \in [Endpoints -> {"none", "header", "payload"}]
  BY <1>1, <1>2
<1>4. returned' \in [Endpoints -> Seq(Frame \union {nullptr})]
  BY <1>1, <1>2
<1>5. /\ Len(returned'[e]) = Len(returned[e]) + 1
      /\ returned'[e][Len(returned[e]) + 1] = frame
      /\ \A k \in 1 .. Len(returned[e]) : returned'[e][k] = returned[e][k]
  BY <1>2, <1>3
<1>6. Failed(e)' <=> Failed(e) \/ frame = nullptr
  <2>1. \A k : k \in 1 .. Len(returned'[e]) <=>
                 k \in 1 .. Len(returned[e]) \/ k = Len(returned[e]) + 1
    BY <1>2, <1>5
  <2>2. QED
    BY <1>5, <2>1 DEF Failed
<1>7. QED
  BY <1>3, <1>4, <1>5, <1>6

LEMMA HeaderType ==
  ASSUME IInv, NEW e \in Endpoints
  PROVE  (IF AtMessage(e) THEN {MessageAt(e).content} ELSE Garbage) \subseteq Frame
<1>1. CASE AtMessage(e)
  <2>1. \E k \in 1 .. Len(sent[Peer(e)]) : MessageAt(e) = sent[Peer(e)][k]
    <3>1. Len(starts[Peer(e)]) = Len(sent[Peer(e)])
      BY ReaderType
    <3>2. QED
      BY <1>1, <3>1 DEF AtMessage, MessageAt
  <2>2. MessageAt(e) \in Message
    BY <2>1, ReaderType
  <2>3. QED
    BY <1>1, <2>2 DEF Message
<1>2. CASE ~AtMessage(e)
  BY <1>2, FrameStreamAssumption
<1>3. QED
  BY <1>1, <1>2

\* The two ways that the first read can end.
HeaderFails(e) ==
  /\ Return(e, nullptr)
  /\ UNCHANGED incoming

HeaderRead(e) ==
  \E header \in IF AtMessage(e) THEN {MessageAt(e).content} ELSE Garbage :
    /\ header.type <= MAX_TYPE
    /\ incoming' = [incoming EXCEPT ![e] = header]
    /\ call' = [call EXCEPT ![e] = "payload"]
    /\ UNCHANGED returned

\* One step of a reader, and what becomes of its stream.
LEMMA HeaderCases ==
  ASSUME IInv, NEW e \in Endpoints, ReadHeader(e)
  PROVE  /\ HeaderFails(e) \/ HeaderRead(e)
         /\ Laid' /\ Grows /\ UNCHANGED open
         /\ call[e] = "header"
         /\ consumed'[Peer(e)] = consumed[Peer(e)] + Count(e, HEADER_LEN)
         /\ consumed'[e] = consumed[e]
         /\ HeaderRead(e) /\ ~HeaderFails(e) => Count(e, HEADER_LEN) = HEADER_LEN
<1> DEFINE n == Count(e, HEADER_LEN)
<1>1. n \in Nat /\ n <= arrived[Peer(e)] - consumed[Peer(e)]
  BY CountType DEF IInv, HEADER_LEN
<1>2. Consume(e, n) /\ UNCHANGED open /\ call[e] = "header"
  BY DEF ReadHeader
<1>3. /\ Laid' /\ Grows /\ consumed'[Peer(e)] = consumed[Peer(e)] + n
      /\ consumed'[e] = consumed[e]
  BY <1>1, <1>2, ConsumeKeeps DEF IInv
<1>4. CASE n # HEADER_LEN
  BY <1>2, <1>3, <1>4 DEF ReadHeader, HeaderFails
<1>5. CASE n = HEADER_LEN
  <2>1. PICK header \in IF AtMessage(e) THEN {MessageAt(e).content} ELSE Garbage :
          IF header.type > MAX_TYPE
          THEN Return(e, nullptr) /\ UNCHANGED incoming
          ELSE /\ incoming' = [incoming EXCEPT ![e] = header]
               /\ call' = [call EXCEPT ![e] = "payload"]
               /\ UNCHANGED returned
    BY <1>5 DEF ReadHeader
  <2>2. header.type \in Nat
    <3>1. header \in Frame
      BY <2>1, HeaderType
    <3>2. QED
      BY <3>1, FrameFacts
  <2>3. HeaderFails(e) \/ HeaderRead(e)
    <3>1. CASE header.type > MAX_TYPE
      BY <2>1, <3>1 DEF HeaderFails
    <3>2. CASE ~(header.type > MAX_TYPE)
      <4>1. header.type <= MAX_TYPE
        BY <2>2, <3>2 DEF MAX_TYPE
      <4>2. QED
        BY <2>1, <3>2, <4>1 DEF HeaderRead
    <3>3. QED
      BY <3>1, <3>2
  <2>4. QED
    BY <1>2, <1>3, <1>5, <2>3
<1>6. QED
  BY <1>4, <1>5

LEMMA HeaderKeeps ==
  ASSUME IInv, NEW e \in Endpoints, ReadHeader(e)
  PROVE  IInv'
<1> DEFINE n == Len(returned[e])
           p == Peer(e)
<1>1. /\ Laid' /\ Grows /\ call[e] = "header" /\ consumed'[e] = consumed[e]
      /\ p \in Endpoints /\ p # e /\ n \in Nat
  BY HeaderCases, ReaderType, PeerIsOther
<1>2. ASSUME /\ \A q \in Endpoints \ {e} : /\ returned'[q] = returned[q]
                                           /\ call'[q] = call[q]
                                           /\ incoming'[q] = incoming[q]
      PROVE  \A q \in Endpoints \ {e} : InStep(q)'
  <2> SUFFICES ASSUME NEW q \in Endpoints \ {e} PROVE InStep(q)'
    OBVIOUS
  <2>1. Peer(q) = e
    BY DEF Peer, Endpoints
  <2>2. QED
    BY <1>1, <1>2, <2>1, InStepKept
<1>3. CASE HeaderFails(e)
  <2>1. Return(e, nullptr) /\ incoming' = incoming
    BY <1>3 DEF HeaderFails
  <2>2. ReceivingType' /\ Failed(e)'
    BY <2>1, ReturnFails DEF IInv, ReceivingType
  <2>3. \A q \in Endpoints \ {e} : returned'[q] = returned[q] /\ call'[q] = call[q]
    BY <2>1, ReturnFails
  <2>4. InStep(e)'
    BY <2>2 DEF InStep
  <2>5. QED
    BY <1>1, <1>2, <2>1, <2>2, <2>3, <2>4 DEF IInv
<1>4. CASE HeaderRead(e) /\ ~HeaderFails(e)
  <2>1. PICK header \in IF AtMessage(e) THEN {MessageAt(e).content} ELSE Garbage :
          /\ header.type <= MAX_TYPE
          /\ incoming' = [incoming EXCEPT ![e] = header]
          /\ call' = [call EXCEPT ![e] = "payload"]
          /\ returned' = returned
    BY <1>4 DEF HeaderRead
  <2>2. header \in Frame
    BY <2>1, HeaderType
  <2>3. /\ ReceivingType' /\ incoming'[e] = header /\ call'[e] = "payload"
        /\ \A q \in Endpoints \ {e} : call'[q] = call[q] /\ incoming'[q] = incoming[q]
    BY <2>1, <2>2 DEF IInv, ReceivingType
  <2>4. InStep(e)'
    <3> SUFFICES ASSUME ~Failed(e) PROVE InStep(e)'
      BY <2>1 DEF InStep, Failed
    <3>1. /\ Count(e, HEADER_LEN) = HEADER_LEN
          /\ consumed'[p] = consumed[p] + HEADER_LEN
      BY <1>4, HeaderCases
    <3>2. arrived[p] > consumed[p]
      <4>1. HEADER_LEN <= arrived[p] - consumed[p]
        BY <3>1, CountType DEF IInv, HEADER_LEN
      <4>2. arrived[p] \in Nat /\ consumed[p] \in Nat
        BY ReaderType
      <4>3. QED
        BY <4>1, <4>2 DEF HEADER_LEN
    <3>3. /\ n < Len(sent[p]) /\ consumed[p] = starts[p][n + 1]
          /\ AtMessage(e) /\ MessageAt(e) = sent[p][n + 1]
      BY <1>1, <3>2, NextMessage
    <3>4. /\ Len(sent[p]) \in Nat /\ Len(sent[p]) <= Len(sent'[p]) /\ Len(sent'[p]) \in Nat
          /\ \A k \in 1 .. Len(sent[p]) :
               sent'[p][k] = sent[p][k] /\ starts'[p][k] = starts[p][k]
      BY <1>1, GrowsType DEF IInv
    <3>5. n < Len(sent'[p]) /\ sent'[p][n + 1] = sent[p][n + 1]
          /\ starts'[p][n + 1] = starts[p][n + 1]
      <4>1. n < Len(sent'[p]) /\ n + 1 \in 1 .. Len(sent[p])
        BY <1>1, <3>3, <3>4
      <4>2. QED
        BY <3>4, <4>1
    <3>6. \A k \in 1 .. n : returned[e][k] = sent'[p][k].content
      <4>1. \A k \in 1 .. n : returned[e][k] = sent[p][k].content
        BY DEF IInv, InStep, Faithful
      <4>2. QED
        BY <1>1, <3>3, <3>4, <4>1
    <3>7. header = sent'[p][n + 1].content
      BY <2>1, <3>3, <3>5
    <3>8. n <= Len(sent'[p])
      BY <1>1, <3>4, <3>5
    <3> HIDE DEF n, p
    <3>9. QED
      BY <2>1, <2>3, <3>1, <3>3, <3>5, <3>6, <3>7, <3>8 DEF InStep, Faithful, n, p
  <2>5. QED
    BY <1>1, <1>2, <2>1, <2>3, <2>4 DEF IInv
<1>5. QED
  BY <1>3, <1>4, HeaderCases

LEMMA ReadLengthType ==
  ASSUME NEW frame \in Frame \union {nullptr}
  PROVE  /\ ReadLength(frame.length) \in Nat
         /\ ReadLength(frame.length) \in {frame.length, Huge}
<1>1. frame.length \in Nat
  BY FrameFacts, NullType
<1>2. QED
  BY <1>1, ReadRange DEF ReadLength

\* The second read, and what becomes of the stream.
LEMMA PayloadCases ==
  ASSUME IInv, NEW e \in Endpoints, ReadPayload(e)
  PROVE  \E frame \in {nullptr, incoming[e]} :
           /\ Return(e, frame)
           /\ frame # nullptr =>
                consumed'[Peer(e)] = consumed[Peer(e)] + incoming[e].length
           /\ frame = nullptr =>
                Count(e, ReadLength(incoming[e].length)) # ReadLength(incoming[e].length)
                  \/ incoming[e] = nullptr
           /\ Laid' /\ Grows /\ UNCHANGED open
           /\ call[e] = "payload"
           /\ incoming' = [incoming EXCEPT ![e] = nullptr]
           /\ consumed'[e] = consumed[e]
<1> DEFINE length == ReadLength(incoming[e].length)
           n == Count(e, length)
<1>1. length \in Nat /\ length \in {incoming[e].length, Huge}
  BY ReaderType, ReadLengthType
<1>2. n \in Nat /\ n <= arrived[Peer(e)] - consumed[Peer(e)] /\ n <= MaxRead
  BY <1>1, CountType DEF IInv
<1>3. /\ Consume(e, n) /\ UNCHANGED open /\ call[e] = "payload"
      /\ Return(e, FrameRead(incoming[e], n, length))
      /\ incoming' = [incoming EXCEPT ![e] = nullptr]
  BY DEF ReadPayload
<1> HIDE DEF n, length
<1>4. /\ Laid' /\ Grows /\ consumed'[Peer(e)] = consumed[Peer(e)] + n
      /\ consumed'[e] = consumed[e]
  BY <1>2, <1>3, ConsumeKeeps DEF IInv
<1>5. CASE n = length
  <2>1. n = incoming[e].length
    BY <1>1, <1>2, <1>5, ReadRange
  <2>2. Return(e, incoming[e])
    BY <1>3, <1>5 DEF FrameRead
  <2>3. QED
    BY <1>3, <1>4, <2>1, <2>2
<1>6. CASE n # length
  <2>1. Return(e, nullptr)
    BY <1>3, <1>6 DEF FrameRead
  <2>2. QED
    BY <1>3, <1>4, <1>6, <2>1 DEF n, length
<1>7. QED
  BY <1>5, <1>6

LEMMA PayloadKeeps ==
  ASSUME IInv, NEW e \in Endpoints, ReadPayload(e)
  PROVE  IInv'
<1> DEFINE n == Len(returned[e])
           p == Peer(e)
<1>1. PICK frame \in {nullptr, incoming[e]} :
        /\ Return(e, frame)
        /\ frame # nullptr => consumed'[p] = consumed[p] + incoming[e].length
        /\ Laid' /\ Grows /\ UNCHANGED open
        /\ call[e] = "payload"
        /\ incoming' = [incoming EXCEPT ![e] = nullptr]
        /\ consumed'[e] = consumed[e]
  BY PayloadCases
<1>2. /\ p \in Endpoints /\ p # e /\ n \in Nat /\ frame \in Frame \union {nullptr}
      /\ incoming \in [Endpoints -> Frame \union {nullptr}]
  BY ReaderType, PeerIsOther DEF IInv, ReceivingType
<1>3. /\ returned' \in [Endpoints -> Seq(Frame \union {nullptr})]
      /\ call' \in [Endpoints -> {"none", "header", "payload"}]
      /\ call'[e] = "none"
      /\ Len(returned'[e]) = n + 1
      /\ returned'[e][n + 1] = frame
      /\ \A k \in 1 .. n : returned'[e][k] = returned[e][k]
      /\ Failed(e)' <=> Failed(e) \/ frame = nullptr
      /\ \A q \in Endpoints \ {e} : returned'[q] = returned[q] /\ call'[q] = call[q]
  BY <1>1, <1>2, ReturnFails
<1>4. ReceivingType' /\ \A q \in Endpoints \ {e} : incoming'[q] = incoming[q]
  BY <1>1, <1>2, <1>3 DEF ReceivingType
<1>5. ASSUME NEW q \in Endpoints \ {e} PROVE InStep(q)'
  <2>1. Peer(q) = e
    BY DEF Peer, Endpoints
  <2>2. QED
    BY <1>1, <1>3, <1>4, <2>1, InStepKept
<1>6. InStep(e)'
  <2> SUFFICES ASSUME ~Failed(e), frame # nullptr PROVE InStep(e)'
    BY <1>3 DEF InStep
  <2>1. /\ n < Len(sent[p]) /\ incoming[e] = sent[p][n + 1].content
        /\ consumed[p] = starts[p][n + 1] + HEADER_LEN
        /\ \A k \in 1 .. n : returned[e][k] = sent[p][k].content
    BY <1>1 DEF IInv, InStep, Faithful
  <2>2. frame = incoming[e] /\ consumed'[p] = consumed[p] + incoming[e].length
    BY <1>1
  <2>3. /\ Len(sent[p]) \in Nat /\ Len(sent[p]) <= Len(sent'[p]) /\ Len(sent'[p]) \in Nat
        /\ \A k \in 1 .. Len(sent[p]) : sent'[p][k] = sent[p][k]
        /\ \A k \in 1 .. Len(sent[p]) + 1 :
             Position(sent'[p], starts'[p], written'[p], k) = Start(p, k)
    BY <1>1, <1>2, GrowsType DEF IInv
  <2>4. n + 1 \in 1 .. Len(sent[p]) /\ n + 2 \in 1 .. Len(sent[p]) + 1
    BY <1>2, <2>1, <2>3
  <2>5. consumed'[p] = Start(p, n + 2)
    <3>1. /\ sent[p] \in Seq(Message) /\ starts[p] \in Seq(Nat) /\ written[p] \in Nat
          /\ LaidOut(sent[p], starts[p], written[p])
      BY ReaderType
    <3>2. /\ sent[p][n + 1].size = HEADER_LEN + sent[p][n + 1].content.length
          /\ Position(sent[p], starts[p], written[p], n + 1 + 1)
               = starts[p][n + 1] + sent[p][n + 1].size
      BY <2>4, <3>1 DEF LaidOut
    <3>3. starts[p][n + 1] \in Nat
      BY <2>4, <3>1, PositionsAscend
    <3>4. incoming[e].length \in Nat
      BY <1>2, <2>2, FrameFacts, NullType
    <3>5. n + 1 + 1 = n + 2
      BY <1>2
    <3>6. sent[p][n + 1].size = HEADER_LEN + incoming[e].length
      BY <2>1, <3>2
    <3>7. Start(p, n + 2) = starts[p][n + 1] + sent[p][n + 1].size
      BY <3>2, <3>5 DEF Start
    <3>8. consumed'[p] = (starts[p][n + 1] + HEADER_LEN) + incoming[e].length
      BY <2>1, <2>2
    <3>9. HEADER_LEN \in Nat
      BY DEF HEADER_LEN
    <3>10. QED
      BY <3>3, <3>4, <3>6, <3>7, <3>8, <3>9
  <2>6. consumed'[p] = Position(sent'[p], starts'[p], written'[p], n + 1 + 1)
    BY <1>2, <2>3, <2>4, <2>5
  <2>7. \A k \in 1 .. n + 1 : returned'[e][k] = sent'[p][k].content
    <3> SUFFICES ASSUME NEW k \in 1 .. n + 1 PROVE returned'[e][k] = sent'[p][k].content
      OBVIOUS
    <3>1. CASE k = n + 1
      BY <1>3, <2>1, <2>2, <2>3, <2>4, <3>1
    <3>2. CASE k \in 1 .. n
      <4>1. k \in 1 .. Len(sent[p])
        BY <1>2, <2>3, <2>4, <3>2
      <4>2. returned'[e][k] = returned[e][k] /\ returned[e][k] = sent[p][k].content
        BY <1>3, <2>1, <3>2
      <4>3. QED
        BY <2>3, <4>1, <4>2
    <3>3. QED
      BY <1>2, <3>1, <3>2
  <2>8. n + 1 <= Len(sent'[p])
    BY <1>2, <2>3, <2>4
  <2> HIDE DEF n, p
  <2>9. QED
    BY <1>3, <2>6, <2>7, <2>8 DEF InStep, Faithful, Start, p
<1>7. QED
  BY <1>1, <1>4, <1>5, <1>6 DEF IInv

LEMMA IInvInductive == IInv /\ [FramesNext]_frames => IInv'
<1> SUFFICES ASSUME IInv, [FramesNext]_frames PROVE IInv'
  OBVIOUS
<1>1. ASSUME Laid', Grows, consumed' = consumed, UNCHANGED receiving PROVE IInv'
  <2>1. \A e \in Endpoints : InStep(e)'
    BY <1>1, InStepKept DEF receiving
  <2>2. QED
    BY <1>1, <2>1 DEF IInv, ReceivingType, receiving
<1>2. ASSUME UNCHANGED socket PROVE Laid' /\ Grows /\ consumed' = consumed
  BY <1>2, SentKept DEF socket, streams, IInv, Laid, StreamsType, Layout, Whole, Start
<1>3. CASE UNCHANGED frames
  BY <1>1, <1>2, <1>3 DEF frames
<1>4. ASSUME NEW e \in Endpoints, NEW frame \in Frames[e], SendFrame(e, frame) PROVE IInv'
  <2>1. frame \in Frame
    BY FrameStreamAssumption
  <2>2. QED
    BY <1>1, <1>4, <2>1, WriteKeeps DEF SendFrame, IInv
<1>5. ASSUME NEW e \in Endpoints, Arrive(e), UNCHANGED receiving PROVE IInv'
  BY <1>1, <1>5, ArriveKeeps DEF IInv
<1>6. ASSUME NEW e \in Endpoints, CallRecvFrame(e) PROVE IInv'
  <2>1. /\ Laid' /\ Grows /\ consumed' = consumed /\ UNCHANGED <<incoming, returned>>
        /\ call[e] = "none" /\ call' = [call EXCEPT ![e] = "header"]
    BY <1>2, <1>6 DEF CallRecvFrame, Enter
  <2>2. /\ call' \in [Endpoints -> {"none", "header", "payload"}]
        /\ call'[e] = "header" /\ \A q \in Endpoints \ {e} : call'[q] = call[q]
    BY <2>1 DEF IInv, ReceivingType
  <2>3. \A q \in Endpoints : InStep(q)'
    BY <2>1, <2>2, InStepKept
  <2>4. QED
    BY <2>1, <2>2, <2>3 DEF IInv, ReceivingType
<1>7. ASSUME NEW e \in Endpoints, Close(e) PROVE IInv'
  <2>1. open' = [open EXCEPT ![e] = FALSE] /\ UNCHANGED <<streams, receiving>>
    BY <1>7 DEF Close
  <2>2. Laid'
    BY <2>1 DEF streams, IInv, Laid, StreamsType, Layout, Whole, Start
  <2>3. Grows
    BY <2>1, SentKept DEF streams, IInv
  <2>4. QED
    BY <1>1, <2>1, <2>2, <2>3 DEF streams
<1>8. QED
  BY <1>3, <1>4, <1>5, <1>6, <1>7, HeaderKeeps, PayloadKeeps DEF FramesNext, RecvFrame

LEMMA IInvInit == FramesInit => IInv
<1> SUFFICES ASSUME FramesInit PROVE IInv
  OBVIOUS
<1>1. <<>> \in Seq(Message) /\ <<>> \in Seq(Nat) /\ <<>> \in Seq(Frame \union {nullptr})
      /\ Len(<<>>) = 0
  OBVIOUS
<1>2. StreamsType /\ ReceivingType
  BY <1>1 DEF FramesInit, SocketInit, StreamsType, ReceivingType
<1>3. ASSUME NEW e \in Endpoints
      PROVE  /\ sent[e] = <<>> /\ starts[e] = <<>> /\ written[e] = 0 /\ arrived[e] = 0
             /\ consumed[e] = 0 /\ returned[e] = <<>> /\ call[e] = "none"
  BY <1>3 DEF FramesInit, SocketInit
<1>4. Position(<<>>, <<>>, 0, 1) = 0
  BY <1>1 DEF Position
<1>5. ASSUME NEW e \in Endpoints PROVE Layout(e) /\ Whole(e)
  BY <1>1, <1>3, <1>4 DEF Layout, LaidOut, Whole, Start
<1>6. ASSUME NEW e \in Endpoints PROVE InStep(e)
  BY <1>1, <1>3, <1>4, PeerIsOther DEF InStep, Faithful, Start
<1>7. QED
  BY <1>2, <1>5, <1>6 DEF IInv, Laid

LEMMA AlwaysIInv == FramesSpec => []IInv
BY IInvInit, IInvInductive, PTL DEF FramesSpec

\* However a stream is cut into pieces, and whatever is sent, the frames that RecvFrame
\* returns before the first nullptr are those sent, in order.
THEOREM FramesInOrder == FramesSpec => []InOrderUntilFailure
<1>1. IInv => InOrderUntilFailure
  <2> SUFFICES ASSUME IInv, NEW e \in Endpoints, ~Failed(e)
               PROVE  /\ Len(returned[e]) <= Len(sent[Peer(e)])
                      /\ \A k \in 1 .. Len(returned[e]) :
                           returned[e][k] = sent[Peer(e)][k].content
                      /\ call[e] # "payload" =>
                           consumed[Peer(e)] = IF Len(returned[e]) < Len(sent[Peer(e)])
                                               THEN starts[Peer(e)][Len(returned[e]) + 1]
                                               ELSE written[Peer(e)]
    BY DEF InOrderUntilFailure
  <2>1. Len(returned[e]) \in Nat /\ Len(sent[Peer(e)]) \in Nat
    BY ReaderType
  <2>2. Len(returned[e]) + 1 <= Len(sent[Peer(e)]) <=> Len(returned[e]) < Len(sent[Peer(e)])
    BY <2>1
  <2>3. QED
    BY <2>2 DEF IInv, InStep, Faithful, Start, Position
<1>2. QED
  BY <1>1, AlwaysIInv, PTL

-----------------------------------------------------------------------------
(* What makes RecvFrame fail.                                              *)

\* The first read of a whole stream of ordinary frames fails at its end only.
LEMMA HeaderFailsAtEnd ==
  ASSUME IInv, NEW e \in Endpoints, ReadHeader(e), ~Failed(e), Failed(e)', open[e],
         OrdinaryFrames(Peer(e))
  PROVE  ~open[Peer(e)] /\ Len(returned[e]) = Len(sent[Peer(e)])
<1> DEFINE n == Len(returned[e])
           p == Peer(e)
<1>1. /\ n \in Nat /\ Len(sent[p]) \in Nat /\ arrived[p] \in Nat /\ consumed[p] \in Nat
      /\ written[p] \in Nat /\ consumed[p] <= arrived[p] /\ arrived[p] <= written[p]
      /\ sent[p] \in Seq(Message) /\ starts[p] \in Seq(Nat) /\ p \in Endpoints
      /\ LaidOut(sent[p], starts[p], written[p])
  BY ReaderType
<1>2. cuts = {} /\ \A k \in 1 .. Len(sent[p]) : sent[p][k].content.type \in 0 .. 9
  BY DEF OrdinaryFrames, KnownFrames
<1>3. call[e] = "header" /\ Readable(e, HEADER_LEN)
  BY DEF ReadHeader
<1>4. arrived[p] <= consumed[p]
  <2> SUFFICES ASSUME arrived[p] > consumed[p] PROVE FALSE
    BY <1>1
  <2>1. /\ n < Len(sent[p]) /\ consumed[p] = starts[p][n + 1]
        /\ AtMessage(e) /\ MessageAt(e) = sent[p][n + 1]
    BY <1>3, NextMessage
  <2>2. n + 1 \in 1 .. Len(sent[p])
    BY <1>1, <2>1
  <2>3. arrived[p] >= starts[p][n + 1] + sent[p][n + 1].size
    BY <1>1, <1>2, <2>1, <2>2, WholeArrives DEF IInv
  <2>4. /\ starts[p][n + 1] \in Nat /\ sent[p][n + 1].size \in Nat
        /\ sent[p][n + 1].size >= HEADER_LEN
    BY <1>1, <2>2, PositionsAscend
  <2>5. HEADER_LEN <= arrived[p] - consumed[p] /\ HEADER_LEN \in Nat /\ HEADER_LEN <= MaxRead
    <3>1. arrived[p] >= consumed[p] + sent[p][n + 1].size
      BY <2>1, <2>3
    <3> HIDE DEF n, p
    <3>2. QED
      BY <1>1, <2>4, <3>1, ReadRange
  <2>6. Count(e, HEADER_LEN) = HEADER_LEN
    BY <2>5, CountType DEF IInv
  <2>7. MessageAt(e).content.type \in 0 .. 9
    BY <1>2, <2>1, <2>2
  <2>8. returned' = returned
    <3>1. ~(MessageAt(e).content.type > MAX_TYPE)
      BY <2>7 DEF MAX_TYPE
    <3>2. QED
      BY <2>1, <2>6, <3>1 DEF ReadHeader
  <2>9. QED
    BY <2>8 DEF Failed
<1>5. ~open[p] /\ consumed[p] = written[p]
  BY <1>1, <1>3, <1>4 DEF Readable, HEADER_LEN
<1>6. n <= Len(sent[p]) /\ consumed[p] = Start(p, n + 1)
  BY <1>3 DEF IInv, InStep, Faithful
<1>7. ~(n + 1 <= Len(sent[p]))
  <2> DEFINE j == n + 1
             m == sent[p]
             s == starts[p]
             w == written[p]
  <2> SUFFICES ASSUME j \in 1 .. Len(m) PROVE FALSE
    BY <1>1
  <2>1. m \in Seq(Message) /\ s \in Seq(Nat) /\ w \in Nat /\ LaidOut(m, s, w)
    BY <1>1
  <2>2. Position(m, s, w, j) = w
    BY <1>5, <1>6 DEF Start
  <2> HIDE DEF j, m, s, w
  <2>3. s[j] \in Nat /\ m[j].size \in Nat /\ m[j].size >= HEADER_LEN
    BY <2>1, PositionsAscend
  <2>4. Position(m, s, w, j) = s[j] /\ Position(m, s, w, j + 1) = s[j] + m[j].size
    BY <2>1, PositionsAscend
  <2>5. Position(m, s, w, j + 1) <= w
    BY <2>1 DEF LaidOut
  <2>6. QED
    BY <2>1, <2>2, <2>3, <2>4, <2>5, ReadRange
<1>8. n = Len(sent[p])
  BY <1>1, <1>6, <1>7
<1>9. QED
  BY <1>5, <1>8

\* The second one does not fail.
LEMMA PayloadIsRead ==
  ASSUME IInv, NEW e \in Endpoints, ReadPayload(e), ~Failed(e), open[e],
         OrdinaryFrames(Peer(e))
  PROVE  ~Failed(e)'
<1> DEFINE n == Len(returned[e])
           p == Peer(e)
<1>1. /\ n \in Nat /\ Len(sent[p]) \in Nat /\ arrived[p] \in Nat /\ consumed[p] \in Nat
      /\ sent[p] \in Seq(Message) /\ starts[p] \in Seq(Nat) /\ written[p] \in Nat
      /\ LaidOut(sent[p], starts[p], written[p]) /\ p \in Endpoints
      /\ consumed[p] <= arrived[p]
  BY ReaderType
<1>2. call[e] = "payload"
  BY DEF ReadPayload
<1>3. /\ n < Len(sent[p]) /\ incoming[e] = sent[p][n + 1].content
      /\ consumed[p] = starts[p][n + 1] + HEADER_LEN
  BY <1>2 DEF IInv, InStep
<1>4. n + 1 \in 1 .. Len(sent[p])
  BY <1>1, <1>3
<1>5. /\ incoming[e] \in Frame /\ incoming[e] # nullptr
      /\ incoming[e].length \in Nat /\ incoming[e].length < MaxRead
  <2>1. sent[p][n + 1] \in Message
    BY <1>1, <1>4
  <2>2. incoming[e] \in Frame
    BY <1>3, <2>1 DEF Message
  <2>3. QED
    BY <2>2, FrameFacts
<1>6. ReadLength(incoming[e].length) = incoming[e].length
  <2>1. LengthOctets(incoming[e].length) \subseteq 0 .. 127
    BY <1>3, <1>4 DEF OrdinaryFrames
  <2>2. ~ \E octet \in LengthOctets(incoming[e].length) : octet >= 128
    BY <2>1
  <2>3. QED
    BY <2>2 DEF ReadLength
<1> DEFINE start == starts[p][n + 1]
           size == sent[p][n + 1].size
           length == incoming[e].length
<1>7. start \in Nat /\ size \in Nat /\ size = HEADER_LEN + length
  <2>1. size = HEADER_LEN + sent[p][n + 1].content.length
    BY <1>1, <1>4 DEF LaidOut
  <2>2. size = HEADER_LEN + length
    BY <1>3, <2>1
  <2>3. start \in Nat /\ size \in Nat
    BY <1>1, <1>4, PositionsAscend
  <2>4. QED
    BY <2>2, <2>3
<1>8. consumed[p] = start + HEADER_LEN /\ length \in Nat
  BY <1>3, <1>5
<1>9. length <= arrived[p] - consumed[p]
  <2>1. arrived[p] > start
    <3> HIDE DEF start
    <3>1. QED
      BY <1>1, <1>7, <1>8, ReadRange
  <2>2. arrived[p] >= start + size
    BY <1>1, <1>4, <2>1, WholeArrives DEF IInv, OrdinaryFrames, KnownFrames
  <2>3. arrived[p] \in Nat
    BY <1>1
  <2> HIDE DEF start, size, length
  <2>4. QED
    BY <1>7, <1>8, <2>2, <2>3, ReadRange
<1>10. Count(e, incoming[e].length) = incoming[e].length
  BY <1>5, <1>9, CountType, ReadRange DEF IInv
<1>11. Return(e, incoming[e])
  BY <1>6, <1>10 DEF ReadPayload, FrameRead
<1>12. QED
  BY <1>5, <1>11, ReturnFails

\* Once it has failed, a reader does not change its mind.
LEMMA EndKept ==
  ASSUME IInv, Laid', Grows, FailsOnlyAtEnd, NEW e \in Endpoints, Failed(e),
         OrdinaryFrames(Peer(e))', open'[e] => open[e], open'[Peer(e)] => open[Peer(e)],
         Len(returned'[e]) \in Nat, Len(returned[e]) <= Len(returned'[e]),
         \A k \in 1 .. Len(returned[e]) : returned'[e][k] = returned[e][k]
  PROVE  FailedAtEnd(e)'
<1> DEFINE p == Peer(e)
<1>1. /\ p \in Endpoints /\ Len(returned[e]) \in Nat /\ Len(sent[p]) \in Nat
      /\ Len(sent[p]) <= Len(sent'[p]) /\ Len(sent'[p]) \in Nat
      /\ \A k \in 1 .. Len(sent[p]) : sent'[p][k] = sent[p][k]
      /\ ~open[p] => sent'[p] = sent[p]
      /\ cuts' = cuts
  BY ReaderType, GrowsType DEF IInv, Grows
<1>2. OrdinaryFrames(p)
  <2>1. \A k \in 1 .. Len(sent[p]) : k \in 1 .. Len(sent'[p])
    BY <1>1
  <2>2. /\ cuts' = {}
        /\ \A k \in 1 .. Len(sent'[p]) : sent'[p][k].content.type \in 0 .. 9
        /\ \A k \in 1 .. Len(sent'[p]) :
             LengthOctets(sent'[p][k].content.length) \subseteq 0 .. 127
    <3>1. Peer(e)' = p
      BY DEF Peer
    <3>2. QED
      BY <3>1 DEF OrdinaryFrames, KnownFrames
  <2>3. QED
    BY <1>1, <2>1, <2>2 DEF OrdinaryFrames, KnownFrames
<1>3. SUFFICES ASSUME open'[e]
               PROVE  /\ ~open'[p]
                      /\ Len(returned'[e]) > Len(sent'[p])
                      /\ \A k \in 1 .. Len(sent'[p]) :
                           returned'[e][k] = sent'[p][k].content
  BY DEF FailedAtEnd
<1>4. /\ ~open[p] /\ Len(returned[e]) > Len(sent[p])
      /\ \A k \in 1 .. Len(sent[p]) : returned[e][k] = sent[p][k].content
  BY <1>2, <1>3 DEF FailsOnlyAtEnd, FailedAtEnd
<1>5. \A k \in 1 .. Len(sent[p]) : k \in 1 .. Len(returned[e])
  BY <1>1, <1>4
<1>6. QED
  BY <1>1, <1>4, <1>5

LEMMA RecvExtends ==
  ASSUME IInv, NEW e \in Endpoints, RecvFrame(e)
  PROVE  /\ Grows /\ UNCHANGED open
         /\ Len(returned[e]) \in Nat /\ Len(returned'[e]) \in Nat
         /\ Len(returned[e]) <= Len(returned'[e])
         /\ \A k \in 1 .. Len(returned[e]) : returned'[e][k] = returned[e][k]
         /\ \A q \in Endpoints \ {e} : returned'[q] = returned[q]
         /\ Len(returned'[e]) <= Len(returned[e]) + 1
         /\ returned' # returned => Len(returned'[e]) = Len(returned[e]) + 1
<1>1. Len(returned[e]) \in Nat /\ incoming[e] \in Frame \union {nullptr}
  BY ReaderType
<1>2. Grows /\ UNCHANGED open
  BY HeaderCases, PayloadCases DEF RecvFrame
<1>3. ASSUME NEW frame \in Frame \union {nullptr}, Return(e, frame)
      PROVE  /\ Len(returned'[e]) = Len(returned[e]) + 1
             /\ \A k \in 1 .. Len(returned[e]) : returned'[e][k] = returned[e][k]
             /\ \A q \in Endpoints \ {e} : returned'[q] = returned[q]
  BY <1>3, ReturnFails
<1>4. (\E frame \in Frame \union {nullptr} : Return(e, frame)) \/ returned' = returned
  BY <1>1, HeaderCases, PayloadCases DEF RecvFrame, HeaderFails, HeaderRead
<1>5. CASE returned' = returned
  BY <1>1, <1>2, <1>5
<1>6. CASE \E frame \in Frame \union {nullptr} : Return(e, frame)
  BY <1>1, <1>2, <1>3, <1>6
<1>7. QED
  BY <1>4, <1>5, <1>6

LEMMA FailureIsEnd ==
  ASSUME IInv, IInv', NEW e \in Endpoints, RecvFrame(e), ~Failed(e), Failed(e)',
         OrdinaryFrames(Peer(e))'
  PROVE  FailedAtEnd(e)'
<1> DEFINE p == Peer(e)
<1>1. /\ Len(returned[e]) \in Nat /\ p \in Endpoints /\ Grows /\ UNCHANGED open
      /\ returned' # returned => Len(returned'[e]) = Len(returned[e]) + 1
      /\ \A k \in 1 .. Len(returned[e]) : returned'[e][k] = returned[e][k]
  BY ReaderType, RecvExtends
<1>2. UNCHANGED <<cuts, sent>>
  BY DEF RecvFrame, ReadHeader, ReadPayload, Consume
<1>3. SUFFICES ASSUME open[e]
               PROVE  /\ ~open[p]
                      /\ Len(returned'[e]) > Len(sent[p])
                      /\ \A k \in 1 .. Len(sent[p]) : returned'[e][k] = sent[p][k].content
  BY <1>1, <1>2 DEF FailedAtEnd
<1>4. OrdinaryFrames(p)
  BY <1>2 DEF OrdinaryFrames, KnownFrames
<1>5. ~open[p] /\ Len(returned[e]) = Len(sent[p])
  BY <1>3, <1>4, HeaderFailsAtEnd, PayloadIsRead DEF RecvFrame
<1>6. Len(returned'[e]) = Len(returned[e]) + 1
  BY <1>1 DEF Failed
<1>7. \A k \in 1 .. Len(returned[e]) : returned[e][k] = sent[p][k].content
  BY DEF IInv, InStep, Faithful
<1>8. QED
  BY <1>1, <1>5, <1>6, <1>7

\* As long as ordinary frames arrive whole, RecvFrame returns nullptr only when a side
\* has closed, and not before every frame of a peer that closed has been returned.
THEOREM FailuresAtEnd == FramesSpec => []FailsOnlyAtEnd
<1>1. FramesInit => FailsOnlyAtEnd
  <2>1. FramesInit => \A e \in Endpoints : ~Failed(e)
    <3>1. 1 .. Len(<<>>) = {}
      OBVIOUS
    <3>2. QED
      BY <3>1 DEF FramesInit, Failed
  <2>2. QED
    BY <2>1 DEF FailsOnlyAtEnd, FailedAtEnd
<1>2. IInv /\ FailsOnlyAtEnd /\ [FramesNext]_frames => FailsOnlyAtEnd'
  <2> SUFFICES ASSUME IInv, IInv', FailsOnlyAtEnd, [FramesNext]_frames PROVE FailsOnlyAtEnd'
    BY IInvInductive
  <2>1. ASSUME Grows, UNCHANGED returned,
               \A e \in Endpoints : open'[e] => open[e]
        PROVE  FailsOnlyAtEnd'
    <3> SUFFICES ASSUME NEW e \in Endpoints, OrdinaryFrames(Peer(e))', Failed(e)
                 PROVE  FailedAtEnd(e)'
      BY <2>1 DEF FailsOnlyAtEnd, FailedAtEnd, Failed
    <3>1. Len(returned[e]) \in Nat /\ Peer(e) \in Endpoints
      BY ReaderType
    <3>2. QED
      BY <2>1, <3>1, EndKept DEF IInv
  <2>2. ASSUME NEW e \in Endpoints, RecvFrame(e) PROVE FailsOnlyAtEnd'
    <3>1. /\ Grows /\ UNCHANGED open
          /\ Len(returned[e]) \in Nat /\ Len(returned'[e]) \in Nat
          /\ Len(returned[e]) <= Len(returned'[e])
          /\ \A k \in 1 .. Len(returned[e]) : returned'[e][k] = returned[e][k]
          /\ \A q \in Endpoints \ {e} : returned'[q] = returned[q]
      BY <2>2, RecvExtends
    <3>2. SUFFICES ASSUME NEW q \in Endpoints, OrdinaryFrames(Peer(q))', Failed(q)'
                   PROVE  FailedAtEnd(q)'
      BY DEF FailsOnlyAtEnd, FailedAtEnd
    <3>3. CASE Failed(q)
      <4>1. /\ Len(returned'[q]) \in Nat /\ Len(returned[q]) <= Len(returned'[q])
            /\ \A k \in 1 .. Len(returned[q]) : returned'[q][k] = returned[q][k]
        <5>1. Len(returned[q]) \in Nat
          BY ReaderType
        <5>2. CASE q = e
          BY <3>1, <5>2
        <5>3. CASE q # e
          BY <3>1, <5>1, <5>3
        <5>4. QED
          BY <5>2, <5>3
      <4>2. QED
        BY <3>1, <3>2, <3>3, <4>1, EndKept DEF IInv
    <3>4. CASE ~Failed(q)
      <4>1. q = e
        BY <3>1, <3>2, <3>4 DEF Failed
      <4>2. QED
        BY <2>2, <3>2, <3>4, <4>1, FailureIsEnd
    <3>5. QED
      BY <3>3, <3>4
  <2>3. ASSUME NEW e \in Endpoints, NEW frame \in Frames[e], SendFrame(e, frame)
        PROVE  FailsOnlyAtEnd'
    <3>1. frame \in Frame /\ UNCHANGED <<open, receiving>>
      BY <2>3, FrameStreamAssumption DEF SendFrame
    <3>2. Grows
      BY <2>3, <3>1, WriteKeeps DEF SendFrame, IInv
    <3>3. QED
      BY <2>1, <3>1, <3>2 DEF receiving
  <2>4. ASSUME NEW e \in Endpoints, Arrive(e), UNCHANGED receiving PROVE FailsOnlyAtEnd'
    <3>1. Grows /\ UNCHANGED open
      BY <2>4, ArriveKeeps DEF IInv, Arrive
    <3>2. QED
      BY <2>1, <2>4, <3>1 DEF receiving
  <2>5. ASSUME NEW e \in Endpoints, CallRecvFrame(e) PROVE FailsOnlyAtEnd'
    <3>1. Grows /\ UNCHANGED <<open, returned>>
      BY <2>5, SentKept DEF IInv, CallRecvFrame, socket, streams
    <3>2. QED
      BY <2>1, <3>1
  <2>6. ASSUME NEW e \in Endpoints, Close(e) PROVE FailsOnlyAtEnd'
    <3>1. Grows /\ UNCHANGED returned
      BY <2>6, SentKept DEF IInv, Close, streams, receiving
    <3>2. \A q \in Endpoints : open'[q] => open[q]
      BY <2>6 DEF IInv, Laid, StreamsType, Close
    <3>3. QED
      BY <2>1, <3>1, <3>2
  <2>7. CASE UNCHANGED frames
    <3>1. Grows /\ UNCHANGED <<open, returned>>
      BY <2>7, SentKept DEF IInv, frames, socket, streams, receiving
    <3>2. QED
      BY <2>1, <3>1
  <2>8. QED
    BY <2>2, <2>3, <2>4, <2>5, <2>6, <2>7 DEF FramesNext
<1>3. QED
  BY <1>1, <1>2, AlwaysIInv, PTL DEF FramesSpec

=============================================================================
