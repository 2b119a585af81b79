---------------------------- MODULE HpackSession ----------------------------
(***************************************************************************)
(* Two endpoints that exchange HEADERS frames: Frame::SendFrame encodes a  *)
(* header list with one hpack::Table, Frame::RecvFrame of the peer decodes *)
(* it with another, and Table::Update is what the application may do to    *)
(* keep the two alike.  The loops of Update and of Decode take a step for  *)
(* an iteration, so that the two endpoints interleave between them.        *)
(*                                                                         *)
(* An endpoint is one thread.  SendFrame writes the frame before Update    *)
(* runs; here the frame joins the stream when Update returns.  The peer    *)
(* sees of the sender only the frame, Update reads and writes only the     *)
(* sender's table, and the frame holds what Encode computed from the table *)
(* before Update, so the order of the two cannot be observed.              *)
(*                                                                         *)
(* The code leaves to its callers how the tables are used.  Discipline is  *)
(* the set of rules that the application keeps to:                         *)
(*   "separate"  one Table to encode with, another to decode with (class   *)
(*               Connection has a single one for both);                    *)
(*   "update"    Update is called with every header list after sending it; *)
(*   "agree"     a Table has the size of the peer's Table it works with,   *)
(*               and neither size is changed once frames flow;             *)
(*   "plain"     no string is sent with Huffman coding;                    *)
(*   "valued"    a field of type "indexed" has a value;                    *)
(*   "known"     a field of type "indexed" is in the table;                *)
(*   "fixed"     within a list, a field that is preceded by an incremental *)
(*               one is not encoded with an index of the dynamic table;    *)
(*   "turns"     an endpoint sends a header list only when nothing is in   *)
(*               flight and its peer is not sending.                       *)
(***************************************************************************)
EXTENDS HpackOps, Peers

CONSTANTS
  Lists,         \* Lists[e]: the header lists that the application of e sends
  Sizes,         \* the sizes of the tables
  MaxInFlight,   \* bound on the frames in flight in one direction
  Discipline

Rules == {"separate", "update", "agree", "plain", "valued", "known", "fixed", "turns"}

ASSUME SessionAssumption ==
  /\ \A e \in Endpoints : Lists[e] \subseteq Seq(HeaderField)
  /\ Sizes \subseteq Nat
  /\ MaxInFlight \in Nat
  /\ Discipline \subseteq Rules

VARIABLES
  table,        \* dynamic_table_ of each Table
  max,          \* dynamic_table_size_max_ of each Table
  status,       \* what each endpoint is doing: "idle", "updating", "decoding"
  pos,          \* the iterations done of the loop it is in
  outgoing,     \* the frame it has encoded and is calling Update for
  wire,         \* wire[e]: the HEADERS frames e has sent and its peer not decoded
  header_list,  \* the list its Decode is pushing to
  delivered     \* the header list of the last HEADERS frame it received

vars == <<table, max, status, pos, outgoing, wire, header_list, delivered>>

\* The Table an endpoint encodes with, and the one it decodes with.
Out(e) == IF "separate" \in Discipline THEN <<e, "out">> ELSE <<e, "both">>
In(e) == IF "separate" \in Discipline THEN <<e, "in">> ELSE <<e, "both">>
Tables == {Out(e) : e \in Endpoints} \union {In(e) : e \in Endpoints}

\* What a field means to the application that receives it.
Header == [name : Names, value : Values, sensitive : BOOLEAN]

Meaning(f) == [name |-> f.name, value |-> f.value, sensitive |-> f.type = "never"]

Meanings(list) == [k \in 1 .. Len(list) |-> Meaning(list[k])]

Decoded(t, r) ==
  [name |-> DecodedEntry(t, r).name, value |-> DecodedEntry(t, r).value,
   sensitive |-> r.kind = "never"]

\* A frame on its way: its header block, and two history components, the list it
\* stands for and the sender's table before and after each iteration of Update.
\* Encode never announces a size.
FieldRepresentation == {r \in Representation : r.kind # "size"}

Frame ==
  [block : Seq(FieldRepresentation), list : Seq(HeaderField), tables : Seq(Seq(Entry))]

NoFrame == [block |-> <<>>, list |-> <<>>, tables |-> <<>>]

TypeOK ==
  /\ table \in [Tables -> Seq(Entry)]
  /\ max \in [Tables -> Nat]
  /\ status \in [Endpoints -> {"idle", "updating", "decoding"}]
  /\ pos \in [Endpoints -> Nat]
  /\ outgoing \in [Endpoints -> Frame]
  /\ wire \in [Endpoints -> Seq(Frame)]
  /\ header_list \in [Endpoints -> Seq(Header)]
  /\ delivered \in [Endpoints -> Seq(Header)]

Init ==
  /\ table = [t \in Tables |-> <<>>]
  /\ max \in [Tables -> Sizes]
  /\ "agree" \in Discipline => \A e \in Endpoints : max[Out(e)] = max[In(Peer(e))]
  /\ status = [e \in Endpoints |-> "idle"]
  /\ pos = [e \in Endpoints |-> 0]
  /\ outgoing = [e \in Endpoints |-> NoFrame]
  /\ wire = [e \in Endpoints |-> <<>>]
  /\ header_list = [e \in Endpoints |-> <<>>]
  /\ delivered = [e \in Endpoints |-> <<>>]

-----------------------------------------------------------------------------
(* Sending.                                                                *)

IndexUsed(t, f) ==
  IF EncodedKind(t, f) = "indexed" THEN Find(t, f.name, f.value)
  ELSE Find(t, f.name, "")

FieldPermitted(t, f) ==
  /\ "plain" \in Discipline => ~f.nameHuff /\ ~f.valueHuff
  /\ "valued" \in Discipline /\ f.type = "indexed" => f.value # ""
  /\ "known" \in Discipline /\ f.type = "indexed" => Find(t, f.name, f.value) # 0

Permitted(t, list) ==
  /\ \A k \in 1 .. Len(list) : FieldPermitted(t, list[k])
  /\ "fixed" \in Discipline =>
       \A k \in 1 .. Len(list) : \A j \in 1 .. (k - 1) :
         list[j].type = "incremental" => IndexUsed(t, list[k]) < STATIC_TABLE_SIZE

\* Nothing is on its way, in either direction.
Quiet == \A e \in Endpoints : status[e] = "idle" /\ wire[e] = <<>>

\* Frame::SendFrame of a HEADERS frame, then the call of Update.
SendHeaders(e, list) ==
  /\ status[e] = "idle"
  /\ Len(wire[e]) < MaxInFlight
  /\ Permitted(table[Out(e)], list)
  /\ "turns" \in Discipline => Quiet
  /\ outgoing' = [outgoing EXCEPT ![e] = [block  |-> Encode(table[Out(e)], list),
                                          list   |-> list,
                                          tables |-> <<table[Out(e)]>>]]
  /\ status' = [status EXCEPT ![e] = "updating"]
  /\ pos' = [pos EXCEPT ![e] = 0]
  /\ UNCHANGED <<table, max, wire, header_list, delivered>>

\* An iteration of Update; nothing happens if the application does not call it.
UpdateField(e) ==
  /\ status[e] = "updating"
  /\ pos[e] < Len(outgoing[e].list)
  /\ LET f == outgoing[e].list[pos[e] + 1]
         t == IF "update" \in Discipline
              THEN UpdatedTable(table[Out(e)], max[Out(e)], f)
              ELSE table[Out(e)]
     IN /\ table' = [table EXCEPT ![Out(e)] = t]
        /\ outgoing' = [outgoing EXCEPT ![e].tables = Append(@, t)]
  /\ pos' = [pos EXCEPT ![e] = @ + 1]
  /\ UNCHANGED <<max, status, wire, header_list, delivered>>

UpdateReturn(e) ==
  /\ status[e] = "updating"
  /\ pos[e] = Len(outgoing[e].list)
  /\ wire' = [wire EXCEPT ![e] = Append(@, outgoing[e])]
  /\ outgoing' = [outgoing EXCEPT ![e] = NoFrame]
  /\ status' = [status EXCEPT ![e] = "idle"]
  /\ UNCHANGED <<table, max, pos, header_list, delivered>>

-----------------------------------------------------------------------------
(* Receiving: e decodes the first frame of wire[Peer(e)].                  *)

Incoming(e) == Head(wire[Peer(e)])

RecvHeaders(e) ==
  /\ status[e] = "idle"
  /\ wire[Peer(e)] # <<>>
  /\ status' = [status EXCEPT ![e] = "decoding"]
  /\ pos' = [pos EXCEPT ![e] = 0]
  /\ header_list' = [header_list EXCEPT ![e] = <<>>]
  /\ UNCHANGED <<table, max, outgoing, wire, delivered>>

\* The representation that the next iteration of Decode reads.
Reading(e) == status[e] = "decoding" /\ pos[e] < Len(Incoming(e).block)
NextField(e) == Incoming(e).block[pos[e] + 1]

DecodeField(e) ==
  /\ Reading(e)
  /\ ~Undecodable(table[In(e)], NextField(e))
  /\ header_list' = [header_list EXCEPT ![e] = Append(@, Decoded(table[In(e)], NextField(e)))]
  /\ table' = [table EXCEPT ![In(e)] = TableAfter(@, max[In(e)], NextField(e))]
  /\ pos' = [pos EXCEPT ![e] = @ + 1]
  /\ UNCHANGED <<max, status, outgoing, wire, delivered>>

\* The application has the frame: RecvFrame ignores what Decode returns.
Deliver(e) ==
  /\ delivered' = [delivered EXCEPT ![e] = header_list[e]]
  /\ header_list' = [header_list EXCEPT ![e] = <<>>]
  /\ wire' = [wire EXCEPT ![Peer(e)] = Tail(@)]
  /\ status' = [status EXCEPT ![e] = "idle"]
  /\ UNCHANGED <<table, max, pos, outgoing>>

DecodeFail(e) ==
  /\ Reading(e)
  /\ Undecodable(table[In(e)], NextField(e))
  /\ Deliver(e)

DecodeReturn(e) ==
  /\ status[e] = "decoding"
  /\ pos[e] = Len(Incoming(e).block)
  /\ Deliver(e)

-----------------------------------------------------------------------------

\* Table::UpdateSize, called by the application that has table t.
UpdateSize(e, t, size) ==
  /\ "agree" \notin Discipline
  /\ status[e] = "idle"
  /\ t \in {Out(e), In(e)}
  /\ max' = [max EXCEPT ![t] = size]
  /\ table' = [table EXCEPT ![t] = Fit(@, size)]
  /\ UNCHANGED <<status, pos, outgoing, wire, header_list, delivered>>

Next ==
  \E e \in Endpoints :
    \/ \E list \in Lists[e] : SendHeaders(e, list)
    \/ UpdateField(e)
    \/ UpdateReturn(e)
    \/ RecvHeaders(e)
    \/ DecodeField(e)
    \/ DecodeFail(e)
    \/ DecodeReturn(e)
    \/ \E t \in Tables, size \in Sizes : UpdateSize(e, t, size)

Spec == Init /\ [][Next]_vars

-----------------------------------------------------------------------------

\* A representation that is about to be decoded yields the field it was encoded
\* from: the receiver's table gives its index the meaning the sender's table had
\* when the list was encoded, whatever has happened to both since.
DecodesAsSent ==
  \A e \in Endpoints : Reading(e) =>
    /\ ~Undecodable(table[In(e)], NextField(e))
    /\ Decoded(table[In(e)], NextField(e)) = Meaning(Incoming(e).list[pos[e] + 1])

\* Whatever the tables have come to hold, a field encoded as a literal or with an
\* index of the static table is decoded as it was sent: when the tables are out of
\* step, only what is encoded with an index of the dynamic table suffers.
OnlyDynamicFieldsSuffer ==
  \A e \in Endpoints : Reading(e) /\ NextField(e).idx < STATIC_TABLE_SIZE =>
    Decoded(table[In(e)], NextField(e)) = Meaning(Incoming(e).list[pos[e] + 1])

\* Once everything sent has been decoded, the two tables of a direction are equal.
QuiescentTablesAgree ==
  \A e \in Endpoints :
    /\ status[e] # "updating" /\ status[Peer(e)] # "decoding"
    /\ wire[e] = <<>>
    => table[Out(e)] = table[In(Peer(e))]

\* When nothing is on its way at all, the tables of both directions are equal.
TablesAgreeWhenQuiet == Quiet => \A e \in Endpoints : table[Out(e)] = table[In(Peer(e))]

\* The history of a frame of e, with n fields of its list passed to Update: its
\* block was encoded with the first of its tables, each further one is the last
\* one updated, and they differ only after an incremental field.
FrameInStep(e, frame, n) ==
  /\ n <= Len(frame.list) /\ Len(frame.tables) = n + 1
  /\ frame.block = Encode(frame.tables[1], frame.list)
  /\ Permitted(frame.tables[1], frame.list)
  /\ \A j \in 1 .. (n + 1) : Len(frame.tables[j]) <= max[Out(e)]
  /\ \A j \in 1 .. n :
       frame.tables[j + 1] = UpdatedTable(frame.tables[j], max[Out(e)], frame.list[j])
  /\ \A j \in 1 .. (n + 1) :
       \/ frame.tables[j] = frame.tables[1]
       \/ \E i \in 1 .. (j - 1) : frame.list[i].type = "incremental"

\* The table of e that all its frames in flight lead to.
Settled(e) == IF status[e] = "updating" THEN outgoing[e].tables[1] ELSE table[Out(e)]

After(frame) == frame.tables[Len(frame.tables)]

SenderInStep(e) ==
  /\ max[Out(e)] = max[In(Peer(e))] /\ max[Out(e)] \in Sizes
  /\ Len(table[Out(e)]) <= max[Out(e)]
  /\ status[e] = "updating" =>
       FrameInStep(e, outgoing[e], pos[e]) /\ table[Out(e)] = outgoing[e].tables[pos[e] + 1]

WireInStep(e) ==
  /\ \A k \in 1 .. Len(wire[e]) : FrameInStep(e, wire[e][k], Len(wire[e][k].list))
  /\ \A k \in 1 .. (Len(wire[e]) - 1) : After(wire[e][k]) = wire[e][k + 1].tables[1]
  /\ wire[e] # <<>> => After(wire[e][Len(wire[e])]) = Settled(e)

\* The peer's table is where the sender's was after as many fields.
ReceiverInStep(e) ==
  LET p == Peer(e) IN
    IF status[p] = "decoding"
    THEN /\ wire[e] # <<>> /\ pos[p] <= Len(wire[e][1].list)
         /\ table[In(p)] = wire[e][1].tables[pos[p] + 1]
         /\ Len(header_list[p]) = pos[p]
         /\ \A k \in 1 .. pos[p] : header_list[p][k] = Meaning(wire[e][1].list[k])
    ELSE table[In(p)] = IF wire[e] = <<>> THEN Settled(e) ELSE wire[e][1].tables[1]

\* In every state the receiver's table is one that the sender's table has been,
\* and the frames in flight take the one to the other.
TablesInStep ==
  \A e \in Endpoints : SenderInStep(e) /\ WireInStep(e) /\ ReceiverInStep(e)

\* The header lists in flight.
Flight(e) == [k \in 1 .. Len(wire[e]) |-> Meanings(wire[e][k].list)]

Flights == [e \in Endpoints |-> Flight(e)]

\* The frames between two endpoints are a channel of header lists: every list
\* arrives once, in order, with the names, values and sensitivity it was sent with.
Channel ==
  INSTANCE HeaderChannel WITH
    HeaderLists <- {Meanings(list) : list \in UNION {Lists[e] : e \in Endpoints}},
    inflight <- Flights

DeliversLists == Channel!Spec

=============================================================================
