------------------------------- MODULE Peers -------------------------------
(***************************************************************************)
(* The two ends of a connection: enum ENDPOINT_TYPE of src/connection.h.   *)
(***************************************************************************)

Endpoints == {"client", "server"}

Peer(e) == IF e = "client" THEN "server" ELSE "client"

=============================================================================
