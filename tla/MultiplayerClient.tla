--------------------------- MODULE MultiplayerClient ---------------------------
(***************************************************************************)
(* MultiplayerBehaviour of the clients, each with its game.  An update is  *)
(* a start, the events of PollConnection one by one, and an end, as in     *)
(* MultiplayerHost.  The host is an assistant and keeps the protocol.      *)
(***************************************************************************)
EXTENDS MultiplayerHost

VARIABLES
  cState,        \* m_ConnState; "off" without an open connection
  cPeer,         \* the host's entry in m_PeerStates
  cHandshake,    \* m_ClientState.m_PendingHandshakeData is not empty
  cProfiles,     \* m_ClientState.m_PendingPlayerProfiles: the version, 0 for empty
  cRemove,       \* the behaviour is in m_BehavioursToRemove
  cPc,
  cBlob,         \* the observed state has a handshake to send to the host
  cSent,         \* memory requests that have not run yet
  cRom,          \* the client's ROM: it has its answer; the profiles it was given
  mistaken       \* history: connections on which the host was rejected for an invalid message

clientVars == <<cState, cPeer, cHandshake, cProfiles, cRemove, cPc, cBlob, cSent, cRom, mistaken>>

Waiting == {"Connecting", "AwaitingCompatibility", "AwaitingHandshake", "AwaitingResponse"}
NoHost == [known |-> FALSE, compatible |-> FALSE, romConnected |-> FALSE]
BlankClientRom == [answered |-> FALSE, version |-> 0]

ClientTypeOK ==
  /\ cState \in [Clients -> Waiting \cup {"off", "ConnectionConfirmed", "Connected"}]
  /\ cPeer \in [Clients -> [known : BOOLEAN, compatible : BOOLEAN, romConnected : BOOLEAN]]
  /\ cHandshake \in [Clients -> BOOLEAN] /\ cProfiles \in [Clients -> 0..MaxVersions]
  /\ cRemove \in [Clients -> BOOLEAN] /\ cPc \in [Clients -> {"idle", "poll"}] /\ cBlob \in [Clients -> BOOLEAN]
  /\ \A c \in Clients : Len(cSent[c]) <= MaxOutstanding
  /\ cSent \in [Clients -> Seq([kind : Kinds, of : 0..MaxVersions])]
  /\ cRom \in [Clients -> [answered : BOOLEAN, version : 0..MaxVersions]]
  /\ mistaken \subseteq Numbers

ClientInit ==
  /\ cState = [c \in Clients |-> "off"] /\ cPeer = [c \in Clients |-> NoHost]
  /\ cHandshake = [c \in Clients |-> FALSE] /\ cProfiles = [c \in Clients |-> 0]
  /\ cRemove = [c \in Clients |-> FALSE] /\ cPc = [c \in Clients |-> "idle"]
  /\ cBlob = [c \in Clients |-> FALSE] /\ cSent = [c \in Clients |-> << >>]
  /\ cRom = [c \in Clients |-> BlankClientRom]
  /\ mistaken = {}

-----------------------------------------------------------------------------
\* OnAttach and OpenClientConnection.  The game has made a new request, so what
\* is observed of it starts afresh.
OpenClientConnection(c) ==
  /\ cState[c] = "off" /\ connects + 1 \notin Foreign
  /\ Connect(c)
  /\ cState' = [cState EXCEPT ![c] = "Connecting"]
  /\ cBlob' = [cBlob EXCEPT ![c] = FALSE] /\ cRom' = [cRom EXCEPT ![c] = BlankClientRom]
  /\ UNCHANGED <<cPeer, cHandshake, cProfiles, cRemove, cPc, cSent, mistaken>>

\* Mutant: profiles that find no room are dropped.
SubmitProfilesOnce(c, q, version) ==
  /\ cSent' = [cSent EXCEPT ![c] = IF version = 0 THEN q ELSE Offer(q, Request("profiles", version))]
  /\ cProfiles' = [cProfiles EXCEPT ![c] = 0]

\* TrySubmitClientPlayerProfiles, after requests q
SubmitProfiles(c, q, version) ==
  /\ cSent' = [cSent EXCEPT ![c] = IF version = 0 THEN q ELSE Offer(q, Request("profiles", version))]
  /\ cProfiles' = [cProfiles EXCEPT ![c] = IF HasRoom(q) THEN 0 ELSE version]

\* TrySubmitClientHandshake, if there is an answer, after requests q
SubmitAnswer(c, q, answer) ==
  LET submits == answer /\ HasRoom(q) IN
  /\ cHandshake' = [cHandshake EXCEPT ![c] = answer /\ ~submits]
  /\ cState' = [cState EXCEPT ![c] = IF submits THEN "ConnectionConfirmed" ELSE @]
  /\ cPeer' = [cPeer EXCEPT ![c].romConnected = @ \/ submits]

AfterAnswer(q, answer) == IF answer THEN Offer(q, Request("handshake", 0)) ELSE q

\* The update starts: the observer's read, and what had found no room.
ClientBegin(c) ==
  /\ cPc[c] = "idle" /\ cState[c] # "off"
  /\ cPc' = [cPc EXCEPT ![c] = "poll"]
  /\ LET q == Offer(cSent[c], Request("read", 0)) IN
     /\ SubmitAnswer(c, q, cHandshake[c])
     /\ SubmitProfiles(c, AfterAnswer(q, cHandshake[c]), cProfiles[c])
  /\ UNCHANGED <<linkVars, cRemove, cBlob, cRom, mistaken>>

-----------------------------------------------------------------------------
(* PollConnection *)

\* RejectPeer: a client gives up.
RejectHost(c, invalid) ==
  /\ ClientDrops(c)
  /\ cPeer' = [cPeer EXCEPT ![c] = NoHost]
  /\ cRemove' = [cRemove EXCEPT ![c] = TRUE]
  /\ mistaken' = IF invalid THEN mistaken \cup {number[c]} ELSE mistaken
  /\ UNCHANGED <<cState, cHandshake, cProfiles, cSent>>

ClientConnect(c) ==
  /\ cEnd[c] = "connect"
  /\ cEnd' = [cEnd EXCEPT ![c] = "up"]
  /\ cPeer' = [cPeer EXCEPT ![c] = [NoHost EXCEPT !.known = TRUE]]
  /\ cState' = [cState EXCEPT ![c] = IF @ = "Connecting" THEN "AwaitingCompatibility" ELSE @]
  /\ toHost' = SentToHost(c, "Control", Message(Matches(c), 0, 0))
  /\ UNCHANGED <<hEnd, toClient, number, connects, cHandshake, cProfiles, cRemove, cSent, mistaken>>

ClientHello(c) ==
  /\ cEnd[c] = "up" /\ toClient[c]["Control"] # << >>
  /\ LET accepts == ~cPeer[c].compatible /\ Head(toClient[c]["Control"]).ok IN
     \/ ~accepts /\ RejectHost(c, TRUE)
     \/ /\ accepts
        /\ cPeer' = [cPeer EXCEPT ![c].compatible = TRUE]
        /\ cState' = [cState EXCEPT ![c] = IF @ = "AwaitingCompatibility" THEN "AwaitingHandshake" ELSE @]
        /\ toClient' = Received(toClient, c, "Control")
        /\ UNCHANGED <<hEnd, cEnd, toHost, number, connects, cHandshake, cProfiles, cRemove, cSent, mistaken>>

\* The host answers only after this client has seen its hello, so there is no
\* early handshake here.
ClientHandshake(c) ==
  /\ cEnd[c] = "up" /\ toClient[c]["Handshake"] # << >>
  /\ LET m == Head(toClient[c]["Handshake"])
         accepts == cPeer[c].compatible /\ cState[c] = "AwaitingResponse" /\ ~cHandshake[c] /\ m.ok /\ m.id # 0
     IN
     \/ ~accepts /\ RejectHost(c, TRUE)
     \/ /\ accepts
        /\ SubmitAnswer(c, cSent[c], TRUE)
        /\ cSent' = [cSent EXCEPT ![c] = AfterAnswer(@, TRUE)]
        /\ toClient' = Received(toClient, c, "Handshake")
        /\ UNCHANGED <<hEnd, cEnd, toHost, number, connects, cProfiles, cRemove, mistaken>>

\* Profiles are kept until there is room; game and player state are not.
ClientGameplay(c, ch) ==
  /\ cEnd[c] = "up" /\ ch \in {"PlayerProfiles", "State"} /\ toClient[c][ch] # << >>
  /\ \/ ~cPeer[c].romConnected /\ RejectHost(c, TRUE)
     \/ /\ cPeer[c].romConnected
        /\ \/ ch = "PlayerProfiles" /\ SubmitProfiles(c, cSent[c], Head(toClient[c][ch]).of)
           \/ ch = "State" /\ cSent' = [cSent EXCEPT ![c] = Offer(@, Request("other", 0))] /\ UNCHANGED cProfiles
        /\ toClient' = Received(toClient, c, ch)
        /\ UNCHANGED <<hEnd, cEnd, toHost, number, connects, cState, cPeer, cHandshake, cRemove, mistaken>>

\* HandlePeerDisconnect; a connection that never came about is left to the
\* deadline.
ClientDisconnected(c) ==
  /\ cEnd[c] = "lost"
  /\ cEnd' = [cEnd EXCEPT ![c] = "none"]
  /\ cPeer' = [cPeer EXCEPT ![c] = NoHost]
  /\ cRemove' = [cRemove EXCEPT ![c] = cPeer[c].known]
  /\ UNCHANGED <<hEnd, toHost, toClient, number, connects, cState, cHandshake, cProfiles, cSent, mistaken>>

ClientEvent(c) ==
  /\ cPc[c] = "poll"
  /\ ClientConnect(c) \/ ClientHello(c) \/ ClientHandshake(c) \/ ClientDisconnected(c)
  /\ UNCHANGED <<cPc, cBlob, cRom>>

ClientGameplayEvent(c) ==
  /\ cPc[c] = "poll"
  /\ \E ch \in Channels : ClientGameplay(c, ch)
  /\ UNCHANGED <<cPc, cBlob, cRom>>

-----------------------------------------------------------------------------
(* The rest of OnUpdate, and removal *)

\* CloseConnection; the other end is told nothing.
CloseClientConnection(c) ==
  /\ cState' = [cState EXCEPT ![c] = "off"]
  /\ cPeer' = [cPeer EXCEPT ![c] = NoHost]
  /\ cHandshake' = [cHandshake EXCEPT ![c] = FALSE] /\ cProfiles' = [cProfiles EXCEPT ![c] = 0]
  /\ cRemove' = [cRemove EXCEPT ![c] = FALSE]
  /\ cEnd' = [cEnd EXCEPT ![c] = "none"] /\ toClient' = [toClient EXCEPT ![c] = Quiet]
  /\ UNCHANGED <<hEnd, number, connects>>

\* The update ends with the behaviour in the list to remove: its last step still
\* confirms the connection to the game if that was due.
ClientRemoved(c) ==
  /\ CloseClientConnection(c)
  /\ cSent' = [cSent EXCEPT ![c] = IF cState[c] = "ConnectionConfirmed" THEN Offer(@, Request("other", 0)) ELSE @]
  /\ UNCHANGED <<toHost, mistaken>>

\* No connection or no hello in time: m_ConnectDeadline, and the deadline of
\* PollConnection, which also tells the host (here that is LinkLost).
ClientTimesOut(c) ==
  /\ cState[c] \in {"Connecting", "AwaitingCompatibility"}
  /\ CloseClientConnection(c)
  /\ UNCHANGED <<toHost, cSent, mistaken>>

\* The switch on m_ConnState.  SendPacket fails only for a host that was lost
\* or rejected in this update, and then the behaviour is being removed anyway.
ClientGoesOn(c) ==
  /\ ~cRemove[c]
  /\ LET sends == cState[c] = "AwaitingHandshake" /\ cBlob[c]
         confirms == cState[c] = "ConnectionConfirmed" /\ HasRoom(cSent[c])
     IN
     /\ cState' = [cState EXCEPT ![c] = IF sends THEN "AwaitingResponse" ELSE IF confirms THEN "Connected" ELSE @]
     /\ cSent' = [cSent EXCEPT ![c] = IF confirms THEN Append(@, Request("other", 0)) ELSE @]
     /\ \/ toHost' = IF sends THEN SentToHost(c, "Handshake", Message(TRUE, number[c], 0)) ELSE toHost
        \/ cState[c] = "Connected" /\ toHost' = SentToHost(c, "State", Message(TRUE, 0, 0))
  /\ UNCHANGED <<hEnd, cEnd, toClient, number, connects, cPeer, cHandshake, cProfiles, cRemove, mistaken>>

ClientEnd(c) ==
  /\ cPc[c] = "poll" /\ cPc' = [cPc EXCEPT ![c] = "idle"]
  /\ \/ cRemove[c] /\ ClientRemoved(c)
     \/ ClientTimesOut(c)
     \/ ClientGoesOn(c)
  /\ UNCHANGED <<cBlob, cRom>>

\* The ROM's request changed, its state went away or its game disconnected.
ClientDetached(c) ==
  /\ cPc[c] = "idle" /\ cState[c] # "off"
  /\ CloseClientConnection(c)
  /\ cSent' \in {cSent, [cSent EXCEPT ![c] = << >>]}
  /\ UNCHANGED <<toHost, cPc, cBlob, cRom, mistaken>>

-----------------------------------------------------------------------------
\* The client's game (external).  Its ROM has prepared its handshake.
ClientExecute(c) ==
  /\ cSent[c] # << >> /\ cPc[c] = "idle"
  /\ LET r == Head(cSent[c]) IN
     /\ cBlob' = [cBlob EXCEPT ![c] = IF r.kind = "read" THEN ~cRom[c].answered ELSE @]
     /\ cRom' = [cRom EXCEPT ![c] = IF r.kind = "handshake" THEN [@ EXCEPT !.answered = TRUE]
                                    ELSE IF r.kind = "profiles" THEN [@ EXCEPT !.version = r.of] ELSE @]
  /\ cSent' = [cSent EXCEPT ![c] = Tail(@)]
  /\ UNCHANGED <<linkVars, cState, cPeer, cHandshake, cProfiles, cRemove, cPc, mistaken>>
=============================================================================
