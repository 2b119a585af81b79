----------------------------- MODULE Connection -----------------------------
(***************************************************************************)
(* class Connection of src/connection.h, connection.cc: a client and a     *)
(* server construct a Connection each on the two ends of a socket, and     *)
(* their applications use them.  The server's constructor blocks in two    *)
(* calls, RecvPreface and Frame::RecvFrame; the client's sends two         *)
(* messages and returns.  The client may also be another implementation,   *)
(* which opens with other messages.                                        *)
(***************************************************************************)
EXTENDS FrameStream, SettingsCodec

CONSTANTS
  ClientSettings,   \* the settings a client may be constructed with
  NewSettings,      \* the settings an application may pass to SetSettings
  Foreign,          \* the openings of clients that are not this library's
  StreamIds,        \* the stream identifiers passed to Connection::SendFrame
  MaxRequests       \* bound on the calls of Connection::SendFrame

TYPE_PRIORITY_FRAME == 2
TYPE_SETTINGS_FRAME == 4

Payload(ack, list) == [ack |-> ack, settings |-> list]
NoPayload == Payload(FALSE, <<>>)

PREFACE_LEN == 24
Preface == [type |-> -2, length |-> PREFACE_LEN - HEADER_LEN, payload |-> NoPayload]

SettingsFrameOf(s) ==
  [type |-> TYPE_SETTINGS_FRAME, length |-> SettingsLength(s),
   payload |-> Payload(FALSE, EncodeSettings(s))]

\* set_ack_flag empties the payload.
Ack == [type |-> TYPE_SETTINGS_FRAME, length |-> 0, payload |-> Payload(TRUE, <<>>)]
PriorityFrame == [type |-> TYPE_PRIORITY_FRAME, length |-> 5, payload |-> NoPayload]

\* What a stream is made of: the preface of this library, and frames.
Content == [type : Int, length : Nat, payload : Payloads]

\* Whatever a client opens with, what follows its first message can be read as frames.
ASSUME ConnectionAssumption ==
  /\ ClientSettings \subseteq Settings
  /\ NewSettings \subseteq Settings
  /\ \A o \in Foreign : o \in Seq(Content) /\ \A k \in 2 .. Len(o) : o[k] \in Frame
  /\ StreamIds \subseteq Nat
  /\ MaxRequests \in Nat

\* Payloads that list settings list each once, and those of the handshake are among
\* them.
ASSUME PayloadsAssumption ==
  /\ {NoPayload, Ack.payload} \union {SettingsFrameOf(s).payload : s \in ClientSettings}
       \subseteq Payloads
  /\ \A payload \in Payloads :
       /\ DOMAIN payload.settings \subseteq SettingIds
       /\ \A id \in DOMAIN payload.settings : payload.settings[id] \in Word

VARIABLES
  pc,          \* where an endpoint is with its Connection
  opening,     \* the messages the client has still to send
  constructed, \* the settings the client was constructed with, <<>> if the client
               \* is not this library's; history
  settings,    \* settings_
  table_max,   \* the size that hpack_table_ was given, <<>> before
  stream_list, \* streams_: the status of each
  requested    \* the frames passed to SendFrame; history

connection == <<pc, opening, constructed, settings, table_max, stream_list, requested>>
vars == <<frames, connection>>

pcs == {"constructing", "preface", "settings", "ready", "closed", "crashed"}

TypeOK ==
  /\ FramesTypeOK
  /\ pc \in [Endpoints -> pcs]
  /\ constructed \in Settings \union {<<>>}
  /\ settings \in [Endpoints -> Settings]
  /\ \A e \in Endpoints : table_max[e] \in Word \union {<<>>}
  /\ \A e \in Endpoints : Len(requested[e]) <= MaxRequests

OpeningSwapped(s) == <<SettingsFrameOf(s), Preface>>
OpeningBare(s) == <<Preface>>
OpeningOf(s) == <<Preface, SettingsFrameOf(s)>>

Init ==
  /\ FramesInit
  /\ settings \in [Endpoints -> {Defaults} \union ClientSettings]
  /\ settings["server"] = Defaults
  /\ \/ /\ settings["client"] \in ClientSettings
        /\ constructed = settings["client"]
        /\ opening = OpeningOf(constructed)
     \/ /\ settings["client"] = Defaults
        /\ constructed = <<>>
        /\ opening \in Foreign
  /\ pc = [e \in Endpoints |-> IF e = "client" THEN "constructing" ELSE "preface"]
  /\ table_max = [e \in Endpoints |-> <<>>]
  /\ stream_list = [e \in Endpoints |-> <<>>]
  /\ requested = [e \in Endpoints |-> <<>>]

-----------------------------------------------------------------------------
(* The constructors.                                                       *)

\* The client's: the preface, then SETTINGS, a ::send each.
Open ==
  /\ pc["client"] = "constructing"
  /\ opening # <<>>
  /\ Write("client", HEADER_LEN + Head(opening).length, Head(opening))
  /\ opening' = Tail(opening)
  /\ pc' = [pc EXCEPT !["client"] = IF Len(opening) = 1 THEN "ready" ELSE @]
  /\ UNCHANGED <<open, receiving, constructed, settings, table_max, stream_list, requested>>

\* The server's: one read of 24 octets; anything else than the preface closes the
\* descriptor, and the constructor returns all the same.
RecvPreface ==
  /\ pc["server"] = "preface"
  /\ Readable("server", PREFACE_LEN)
  /\ LET n == Count("server", PREFACE_LEN)
         accepted == n = PREFACE_LEN /\ AtMessage("server") /\ MessageAt("server") =
                       [size |-> PREFACE_LEN, content |-> Preface]
     IN /\ Consume("server", n)
        /\ pc' = [pc EXCEPT !["server"] = IF accepted THEN "settings" ELSE "closed"]
        /\ open' = [open EXCEPT !["server"] = accepted]
        /\ call' = [call EXCEPT !["server"] = IF accepted THEN "header" ELSE @]
  /\ UNCHANGED <<incoming, returned, opening, constructed, settings, table_max,
                 stream_list, requested>>

RejectAfterAck ==
  /\ pc["server"] = "settings"
  /\ call["server"] = "none"
  /\ LET frame == returned["server"][1] IN
       /\ frame.type # TYPE_SETTINGS_FRAME
       /\ pc' = [pc EXCEPT !["server"] = IF frame = nullptr THEN "crashed" ELSE "closed"]
  /\ Write("server", HEADER_LEN, Ack)
  /\ open' = [open EXCEPT !["server"] = FALSE]
  /\ UNCHANGED <<receiving, opening, constructed, settings, table_max,
                 stream_list, requested>>

\* frame->type() of what RecvFrame returned: of nullptr, the process dies; of
\* another frame, the descriptor is closed.
RejectFirstFrame ==
  /\ pc["server"] = "settings"
  /\ call["server"] = "none"
  /\ LET frame == returned["server"][1] IN
       /\ frame.type # TYPE_SETTINGS_FRAME
       /\ pc' = [pc EXCEPT !["server"] = IF frame = nullptr THEN "crashed" ELSE "closed"]
  /\ open' = [open EXCEPT !["server"] = FALSE]
  /\ UNCHANGED <<streams, receiving, opening, constructed, settings, table_max,
                 stream_list, requested>>

\* The settings are adopted and acknowledged; hpack_table_ is not told of them.
AdoptSettings ==
  /\ pc["server"] = "settings"
  /\ call["server"] = "none"
  /\ LET frame == returned["server"][1] IN
       /\ frame.type = TYPE_SETTINGS_FRAME
       /\ settings' = [settings EXCEPT !["server"] =
                         DecodeSettings(frame.payload.settings)]
  /\ Write("server", HEADER_LEN, Ack)
  /\ pc' = [pc EXCEPT !["server"] = "ready"]
  /\ UNCHANGED <<open, receiving, opening, constructed, table_max, stream_list, requested>>

-----------------------------------------------------------------------------
(* What an application does with its Connection, whether or not the         *)
(* constructor has closed the descriptor: it cannot tell.                   *)

Usable(e) == pc[e] \in {"ready", "closed"}

\* Connection::RecvFrame
CallConnectionRecvFrame(e) ==
  /\ Usable(e)
  /\ CallRecvFrame(e)
  /\ UNCHANGED connection

\* Connection::SendFrame: streams_[streamId] is looked up, its status changes
\* nothing.
ConnectionSendFrame(e, streamId, frame) ==
  /\ Usable(e) /\ call[e] = "none"
  /\ Len(requested[e]) < MaxRequests
  /\ requested' = [requested EXCEPT ![e] = Append(@, frame)]
  /\ IF streamId >= Len(stream_list[e])
     THEN UNCHANGED streams
     ELSE Write(e, HEADER_LEN + frame.length, frame)
  /\ UNCHANGED <<open, receiving, pc, opening, constructed, settings, table_max, stream_list>>

\* The idle streams but the first are closed, and none is allocated.
AllocateStream(e) ==
  /\ Usable(e) /\ call[e] = "none"
  /\ stream_list' = [stream_list EXCEPT ![e] =
       [k \in 1 .. Len(@) |-> IF k > 1 /\ @[k] = "idle" THEN "closed" ELSE @[k]]]
  /\ UNCHANGED <<frames, pc, opening, constructed, settings, table_max, requested>>

\* The setters of what Settings() returns, a reference: the table is not told.
ChangeSettings(e, s) ==
  /\ Usable(e) /\ call[e] = "none"
  /\ settings' = [settings EXCEPT ![e] = s]
  /\ UNCHANGED <<frames, pc, opening, constructed, table_max, stream_list, requested>>

\* The peer is not told.
SetSettings(e, s) ==
  /\ Usable(e) /\ call[e] = "none"
  /\ settings' = [settings EXCEPT ![e] = s]
  /\ table_max' = [table_max EXCEPT ![e] = s[HEADER_TABLE_SIZE]]
  /\ UNCHANGED <<frames, pc, opening, constructed, stream_list, requested>>

\* The application closes its descriptor.
CloseDescriptor(e) ==
  /\ Usable(e)
  /\ Close(e)
  /\ UNCHANGED connection

Next ==
  \/ Open
  \/ RecvPreface
  \/ RejectFirstFrame
  \/ AdoptSettings
  \/ \E e \in Endpoints :
       \/ Arrive(e) /\ UNCHANGED <<receiving, connection>>
       \/ RecvFrame(e) /\ UNCHANGED connection
       \/ CallConnectionRecvFrame(e)
       \/ \E streamId \in StreamIds : ConnectionSendFrame(e, streamId, PriorityFrame)
       \/ AllocateStream(e)
       \/ \E s \in NewSettings : SetSettings(e, s) \/ ChangeSettings(e, s)
       \/ CloseDescriptor(e)

Spec == Init /\ [][Next]_vars

\* The network delivers, and a constructor runs on when it can.
FairSpec ==
  /\ Spec
  /\ WF_vars(Open)
  /\ WF_vars(RecvPreface \/ RejectFirstFrame \/ AdoptSettings)
  /\ \A e \in Endpoints :
       /\ WF_vars(Arrive(e) /\ UNCHANGED <<receiving, connection>>)
       /\ WF_vars(RecvFrame(e) /\ UNCHANGED connection)

-----------------------------------------------------------------------------

\* When the server's constructor succeeds, the client has opened with the preface
\* and SETTINGS, and the server has the settings that the client was constructed
\* with, if they are portable, however the stream was cut and whatever either
\* application did meanwhile.
AdoptsWhatTheClientHas ==
  [][pc["server"] # "ready" /\ pc'["server"] = "ready" =>
       /\ Len(sent["client"]) >= 2
       /\ sent["client"][1].content = Preface
       /\ sent["client"][2].content.type = TYPE_SETTINGS_FRAME
       /\ constructed # <<>> /\ Portable(constructed) => settings'["server"] = constructed]_vars

\* A client whose first frame is the acknowledgement deals with a server that has
\* adopted its settings, and never sees another frame before it.
AckMeansAdopted ==
  Len(returned["client"]) >= 1 =>
    \/ returned["client"][1] = nullptr
    \/ returned["client"][1] = Ack /\ pc["server"] = "ready"

\* Messages arrive whole and the client is this library's.
GoodClient == cuts = {} /\ constructed # <<>>

\* A good client is never turned away, and the server's constructor does not die
\* of it.
ClientIsAccepted == GoodClient => pc["server"] \notin {"closed", "crashed"}

\* With a good client the server's constructor ends, the connection established.
HandshakeCompletes == GoodClient ~> pc["server"] = "ready"

\* However the stream is cut, a client that sends a preface and a frame, or anything
\* else than a preface, does not leave the server in its constructor.
ConstructorEnds == <>(pc["server"] \in {"ready", "closed", "crashed"})

\* PRIORITY "can be sent in any stream state, including idle or closed streams"
\* (frame.h): between two Connections that are ready and open, the frame that an
\* application has passed to SendFrame is on the stream.
PriorityIsSent ==
  \A e \in Endpoints :
    (\A x \in Endpoints : pc[x] = "ready" /\ open[x]) /\ requested[e] # <<>>
      => \E k \in DOMAIN sent[e] : sent[e][k].content = PriorityFrame

=============================================================================
