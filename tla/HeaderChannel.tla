--------------------------- MODULE HeaderChannel ---------------------------
(***************************************************************************)
(* What sending HEADERS frames promises two endpoints, without tables,     *)
(* indices or octets: every header list arrives once, in the order sent,   *)
(* as it was sent.                                                         *)
(***************************************************************************)
EXTENDS Peers, Sequences

CONSTANT HeaderLists

VARIABLES
  inflight,   \* inflight[e]: the lists e has sent and its peer has not received
  delivered   \* delivered[e]: the list that e received last

channel == <<inflight, delivered>>

Init ==
  /\ inflight = [e \in Endpoints |-> <<>>]
  /\ delivered = [e \in Endpoints |-> <<>>]

Send(e) ==
  /\ \E headers \in HeaderLists :
       inflight' = [inflight EXCEPT ![e] = Append(@, headers)]
  /\ UNCHANGED delivered

Deliver(e) ==
  /\ inflight[Peer(e)] # <<>>
  /\ delivered' = [delivered EXCEPT ![e] = Head(inflight[Peer(e)])]
  /\ inflight' = [inflight EXCEPT ![Peer(e)] = Tail(@)]

Next == \E e \in Endpoints : Send(e) \/ Deliver(e)

Spec == Init /\ [][Next]_channel

=============================================================================
