--------------------------- MODULE TcpLuaTransport ---------------------------
(***************************************************************************)
(* The assistant's end of the bridge (TcpLuaTransport.cpp).  It serves one *)
(* client, turns away the others, matches result frames with the requests  *)
(* it sent, and hands results to whoever polls it.  PollResults is a       *)
(* sequence of the steps below; module Bridge puts them in order.          *)
(***************************************************************************)
EXTENDS BridgeWire

CONSTANTS
  MaxQueue,         \* FrameWriter: MaximumQueuedFrames
  MaxClosingPeers   \* MaximumClosingPeers

ASSUME TransportAssumption == MaxQueue \in Nat \ {0} /\ MaxClosingPeers \in Nat

VARIABLES
  tState,        \* m_State
  client,        \* m_Client: its connection, NoConn when there is none
  handshake,     \* m_Client->handshakeAccepted
  closing,       \* m_Client->closeAfterWrite
  writer,        \* writer[c]: frames queued for the client or a closing peer
  tPending,      \* m_Pending
  tResults,      \* m_Results
  closingPeers   \* m_ClosingPeers

transportVars == <<tState, client, handshake, closing, writer, tPending, tResults, closingPeers>>

Statuses == {"Ok", "ProtocolError", "Disconnected", "Failed"}

\* One entry of m_Results.  CompletePending appends a result with the same
\* status for every pending request, in the order of an unordered_map: that is
\* one entry here, and whoever reads it meets its requests in any order.
\* `by` is the tag carried by the frame that produced the result.
Results == [status : Statuses, reqs : SUBSET Requests, by : Tags \cup {NoTag}]

TransportTypeOK ==
  /\ tState \in {"Listening", "Connected", "Stopped"}
  /\ client \in Conns \cup {NoConn}
  /\ handshake \in BOOLEAN /\ closing \in BOOLEAN
  /\ writer \in Streams
  /\ tPending \subseteq Requests
  /\ tResults \in Seq(Results)
  /\ closingPeers \subseteq Conns

TransportInit ==
  /\ tState = "Listening"
  /\ client = NoConn
  /\ handshake = FALSE /\ closing = FALSE
  /\ writer = [c \in Conns |-> << >>]
  /\ tPending = {}
  /\ tResults = << >>
  /\ closingPeers = {}

-----------------------------------------------------------------------------
\* What m_Results becomes when every pending request gets `status`.
CompletePending(results, reqs, status) ==
  IF reqs = {} THEN results
  ELSE Append(results, [status |-> status, reqs |-> reqs, by |-> NoTag])

HasRoom(c, n) == Len(writer[c]) + n <= MaxQueue

\* Drop the client at once.  What it has sent and nobody has read is lost.
CloseClient(status) ==
  /\ tResults' = CompletePending(tResults, tPending, status)
  /\ tPending' = {}
  /\ appOpen' = [appOpen EXCEPT ![client] = FALSE]
  /\ toApp' = [toApp EXCEPT ![client] = << >>]
  /\ writer' = [writer EXCEPT ![client] = << >>]
  /\ client' = NoConn /\ handshake' = FALSE /\ closing' = FALSE
  /\ tState' = "Listening"
  /\ UNCHANGED <<opened, backlog, toPeer, peerOpen, closingPeers>>

\* Say goodbye: queue `frames`, read no more, close once they are sent.
BeginClose(frames, status) ==
  /\ tResults' = CompletePending(tResults, tPending, status)
  /\ tPending' = {}
  /\ handshake' = FALSE
  /\ tState' = "Listening"
  /\ toApp' = [toApp EXCEPT ![client] = << >>]
  /\ UNCHANGED <<opened, backlog, toPeer, peerOpen, closingPeers>>
  /\ IF HasRoom(client, Len(frames))
     THEN /\ writer' = [writer EXCEPT ![client] = @ \o frames]
          /\ closing' = TRUE
          /\ UNCHANGED <<client, appOpen>>
     ELSE /\ writer' = [writer EXCEPT ![client] = << >>]
          /\ appOpen' = [appOpen EXCEPT ![client] = FALSE]
          /\ client' = NoConn /\ closing' = FALSE

BeginProtocolClose == BeginClose(<<Control("Error"), Control("Close")>>, "ProtocolError")

BeginOrderlyClose == BeginClose(<<Control("Close")>>, "Disconnected")

-----------------------------------------------------------------------------
\* AcceptClients, one connection: the first becomes the client.
AcceptClient ==
  /\ backlog # << >> /\ client = NoConn
  /\ backlog' = Tail(backlog)
  /\ client' = Head(backlog)
  /\ UNCHANGED <<tState, handshake, closing, writer, tPending, tResults, closingPeers>>
  /\ UNCHANGED <<opened, toApp, toPeer, appOpen, peerOpen>>

\* AcceptClients with a client already there.
RejectBusyClient ==
  /\ backlog # << >> /\ client # NoConn
  /\ backlog' = Tail(backlog)
  /\ LET c == Head(backlog) IN
     IF Cardinality(closingPeers) >= MaxClosingPeers
     THEN /\ appOpen' = [appOpen EXCEPT ![c] = FALSE]
          /\ toApp' = [toApp EXCEPT ![c] = << >>]
          /\ UNCHANGED <<writer, closingPeers>>
     ELSE /\ writer' = [writer EXCEPT ![c] = <<Control("Rejected"), Control("Error"), Control("Close")>>]
          /\ closingPeers' = closingPeers \cup {c}
          /\ UNCHANGED <<toApp, appOpen>>
  /\ UNCHANGED <<tState, client, handshake, closing, tPending, tResults>>
  /\ UNCHANGED <<opened, toPeer, peerOpen>>

\* One send for every closing peer: it takes a frame, would block, or fails
\* because the peer has gone; a peer with nothing left to send is closed.
FlushClosingPeers ==
  \E sent \in SUBSET {c \in closingPeers : writer[c] # << >>} :
    LET gone == {c \in closingPeers : writer[c] = << >> \/ (c \in sent /\ ~peerOpen[c])}
        took == sent \ gone
    IN
    /\ toPeer' = [c \in Conns |-> IF c \in took THEN Append(toPeer[c], Head(writer[c])) ELSE toPeer[c]]
    /\ writer' = [c \in Conns |-> IF c \in gone THEN << >>
                                  ELSE IF c \in took THEN Tail(writer[c]) ELSE writer[c]]
    /\ closingPeers' = closingPeers \ gone
    /\ appOpen' = [c \in Conns |-> appOpen[c] /\ c \notin gone]
    /\ toApp' = [c \in Conns |-> IF c \in gone THEN << >> ELSE toApp[c]]
    /\ UNCHANGED <<tState, client, handshake, closing, tPending, tResults>>
    /\ UNCHANGED <<opened, backlog, peerOpen>>

-----------------------------------------------------------------------------
\* ReceiveClient reads only while the client is not being closed.
CanReceive == client # NoConn /\ ~closing
Arriving == CanReceive /\ toApp[client] # << >>
Frame == Head(toApp[client])

\* The frame leaves the socket; the rest of the wire is as it was.
Take ==
  /\ toApp' = [toApp EXCEPT ![client] = Tail(@)]
  /\ UNCHANGED <<opened, backlog, toPeer, appOpen, peerOpen, closingPeers>>

\* A client hello this release accepts.
AcceptHello ==
  /\ Arriving /\ ~handshake /\ Frame.type = "ClientHello"
  /\ IF HasRoom(client, 1)
     THEN /\ Take
          /\ writer' = [writer EXCEPT ![client] = Append(@, Control("ServerHello"))]
          /\ handshake' = TRUE
          /\ tState' = "Connected"
          /\ UNCHANGED <<client, closing, tPending, tResults>>
     ELSE CloseClient("Disconnected")

\* A hello of another protocol or script version.
RejectHello ==
  /\ Arriving /\ ~handshake /\ Frame.type = "OldHello"
  /\ BeginClose(<<Control("Rejected"), Control("Error"), Control("Close")>>, "ProtocolError")

\* The answer to a pending read or write.
ReceiveResult ==
  /\ Arriving /\ handshake /\ Frame.type = "Result"
  /\ \E p \in tPending :
       /\ p.id = Frame.id /\ p.op = Frame.op
       /\ tResults' = Append(tResults, [status |-> "Ok", reqs |-> {p}, by |-> Frame.tag])
       /\ tPending' = tPending \ {p}
  /\ Take
  /\ UNCHANGED <<tState, client, handshake, closing, writer>>

\* The script could not do the work: the connection is given up.
ReceiveError ==
  /\ Arriving /\ handshake /\ Frame.type = "Error"
  /\ \E p \in tPending :
       /\ p.id = Frame.id
       /\ tResults' = CompletePending(Append(tResults, [status |-> "Failed", reqs |-> {p}, by |-> Frame.tag]),
                                      tPending \ {p}, "Disconnected")
  /\ tPending' = {}
  /\ writer' = [writer EXCEPT ![client] = IF HasRoom(client, 1) THEN Append(@, Control("Close")) ELSE @]
  /\ handshake' = FALSE /\ closing' = TRUE
  /\ tState' = "Listening"
  /\ toApp' = [toApp EXCEPT ![client] = << >>]
  /\ UNCHANGED <<client, closingPeers, opened, backlog, toPeer, appOpen, peerOpen>>

ReceiveClose ==
  /\ Arriving /\ handshake /\ Frame.type = "Close"
  /\ BeginOrderlyClose

\* Anything else: bytes that are no frame, work before the hello, a result or
\* an error nobody waits for, a message only the assistant may send.
ReceiveUnexpected ==
  /\ Arriving
  /\ \/ Frame.type = "Malformed"
     \/ ~handshake /\ Frame.type \notin {"ClientHello", "OldHello"}
     \/ handshake /\ Frame.type \in {"ClientHello", "OldHello", "ServerHello", "Rejected", "Request"}
     \/ handshake /\ Frame.type = "Result" /\ ~\E p \in tPending : p.id = Frame.id /\ p.op = Frame.op
     \/ handshake /\ Frame.type = "Error" /\ ~\E p \in tPending : p.id = Frame.id
  /\ BeginProtocolClose

\* End of stream or a socket error.
ReceiveClosed ==
  /\ CanReceive /\ toApp[client] = << >> /\ ~peerOpen[client]
  /\ CloseClient("Disconnected")

-----------------------------------------------------------------------------
\* FlushClient, one frame.  A send may still succeed after the peer has gone.
FlushFrame ==
  /\ client # NoConn /\ writer[client] # << >> /\ Len(toPeer[client]) < WireCap
  /\ toPeer' = IF peerOpen[client] THEN [toPeer EXCEPT ![client] = Append(@, Head(writer[client]))] ELSE toPeer
  /\ writer' = [writer EXCEPT ![client] = Tail(@)]
  /\ UNCHANGED <<tState, client, handshake, closing, tPending, tResults, closingPeers>>
  /\ UNCHANGED <<opened, backlog, toApp, appOpen, peerOpen>>

FlushError ==
  /\ client # NoConn /\ writer[client] # << >> /\ ~peerOpen[client]
  /\ CloseClient("Disconnected")

\* The end of FlushClient: a client that was only waiting for its last frames.
FlushEnd ==
  IF client # NoConn /\ closing /\ writer[client] = << >>
  THEN CloseClient("Disconnected")
  ELSE UNCHANGED <<transportVars, wireVars>>

-----------------------------------------------------------------------------
\* Submit for a request that is within the address ranges.  Only a read or
\* write that does not fit a frame is answered at once.
CanSend == tState = "Connected" /\ client # NoConn /\ handshake /\ ~closing

SubmitQueued(r) ==
  /\ CanSend /\ (\A p \in tPending : p.id # r.id) /\ HasRoom(client, 1)
  /\ writer' = [writer EXCEPT ![client] = Append(@, Work("Request", r))]
  /\ tPending' = tPending \cup {r}
  /\ UNCHANGED <<tState, client, handshake, closing, tResults, closingPeers>>

SubmitOversize(r) ==
  /\ CanSend /\ (\A p \in tPending : p.id # r.id)
  /\ tResults' = Append(tResults, [status |-> "Failed", reqs |-> {r}, by |-> NoTag])
  /\ UNCHANGED <<tState, client, handshake, closing, writer, tPending, closingPeers>>

\* Stop: forget queued work, try to send Close for a short while, close every
\* socket.  The results of CompletePending stay in m_Results.
StopSockets ==
  /\ \E sent \in BOOLEAN :
       /\ sent => client # NoConn /\ handshake /\ peerOpen[client]
       /\ toPeer' = IF sent THEN [toPeer EXCEPT ![client] = Append(@, Control("Close"))] ELSE toPeer
  /\ appOpen' = [c \in Conns |-> FALSE]
  /\ toApp' = [c \in Conns |-> << >>]
  /\ backlog' = << >>
  /\ client' = NoConn /\ handshake' = FALSE /\ closing' = FALSE
  /\ writer' = [c \in Conns |-> << >>]
  /\ closingPeers' = {}
  /\ tPending' = {}
  /\ UNCHANGED <<opened, peerOpen>>
=============================================================================
