------------------------------ MODULE Multiplayer ------------------------------
(***************************************************************************)
(* A host, its clients and the network between them.  Assistants of two    *)
(* computers share nothing but ENet connections.                           *)
(***************************************************************************)
EXTENDS MultiplayerClient

vars == <<linkVars, hostVars, clientVars>>

TypeOK == LinkTypeOK /\ HostTypeOK /\ ClientTypeOK

Init == LinkInit /\ HostInit /\ ClientInit

-----------------------------------------------------------------------------
(* Something else connects to the host's port, and gets a slot that no       *)
(* assistant is using or trying to get.                                      *)

ForeignConnect(c) ==
  /\ cState[c] = "off" /\ connects + 1 \in Foreign
  /\ Connect(c)
  /\ UNCHANGED <<hostVars, clientVars>>

\* One message is under way: any order of messages may reach the host all the
\* same.
ForeignSend(c) ==
  /\ IsForeign(c) /\ cEnd[c] \in {"connect", "up"}
  /\ \A ch \in Channels : toHost[c][ch] = << >>
  /\ \E ch \in Channels, ok \in BOOLEAN :
       toHost' = SentToHost(c, ch, Message(ok, number[c], 0))
  /\ UNCHANGED <<hEnd, cEnd, toClient, number, connects, hostVars, clientVars>>

ForeignClose(c) ==
  /\ IsForeign(c) /\ cEnd[c] # "none"
  /\ ClientDrops(c)
  /\ UNCHANGED <<hostVars, clientVars>>

-----------------------------------------------------------------------------
HostNext ==
  \/ OpenHostConnection /\ UNCHANGED clientVars
  \/ CloseHostConnection /\ UNCHANGED clientVars
  \/ HostBegin /\ UNCHANGED clientVars
  \/ \E c \in Clients : HostEvent(c) /\ UNCHANGED clientVars
  \/ \E c \in Clients : HostGameplayEvent(c) /\ UNCHANGED clientVars
  \/ HostExpire /\ UNCHANGED clientVars
  \/ HostAct /\ UNCHANGED clientVars
  \/ HostExecute /\ UNCHANGED clientVars
  \/ RomAnswers /\ UNCHANGED clientVars
  \/ RomChangesProfiles /\ UNCHANGED clientVars

ClientNext(c) ==
  \/ OpenClientConnection(c) /\ UNCHANGED hostVars
  \/ ClientBegin(c) /\ UNCHANGED hostVars
  \/ ClientEvent(c) /\ UNCHANGED hostVars
  \/ ClientGameplayEvent(c) /\ UNCHANGED hostVars
  \/ ClientEnd(c) /\ UNCHANGED hostVars
  \/ ClientDetached(c) /\ UNCHANGED hostVars
  \/ ClientExecute(c) /\ UNCHANGED hostVars

NetNext(c) ==
  \/ Establish(c) /\ hState # "off" /\ UNCHANGED <<hostVars, clientVars>>
  \/ LinkLost(c) /\ UNCHANGED <<hostVars, clientVars>>
  \/ StateLost(c) /\ UNCHANGED <<hostVars, clientVars>>

Next ==
  \/ HostNext
  \/ \E c \in Clients : ClientNext(c)
  \/ \E c \in Clients : NetNext(c)
  \/ \E c \in Clients : ForeignConnect(c)
  \/ \E c \in Clients : ForeignSend(c)
  \/ \E c \in Clients : ForeignClose(c)

Spec == Init /\ [][Next]_vars

\* Both workers tick and both emulators run; ENet delivers what is sent on its
\* reliable channels and notices an end that has gone; the ROM answers.
HalfOpen(c) == (hEnd[c] = "none") # (cEnd[c] = "none")

Fairness ==
  /\ WF_vars(HostBegin /\ UNCHANGED clientVars) /\ WF_vars(HostExpire /\ UNCHANGED clientVars)
  /\ WF_vars(HostAct /\ UNCHANGED clientVars) /\ WF_vars(HostExecute /\ UNCHANGED clientVars)
  /\ WF_vars(RomAnswers /\ UNCHANGED clientVars)
  /\ \A c \in Clients :
       /\ WF_vars(ClientBegin(c) /\ UNCHANGED hostVars) /\ WF_vars(ClientEnd(c) /\ UNCHANGED hostVars)
       /\ SF_vars(HostEvent(c) /\ UNCHANGED clientVars) /\ SF_vars(ClientEvent(c) /\ UNCHANGED hostVars)
       /\ WF_vars(HalfOpen(c) /\ LinkLost(c) /\ UNCHANGED <<hostVars, clientVars>>)

FairSpec == Spec /\ Fairness

-----------------------------------------------------------------------------
(* Properties *)

\* The handshake the host is waiting for is always the one of the connection
\* that its slot has now, and that connection is compatible and not yet
\* answered: ENet uses slots again, and m_PendingHandshake is a bare pointer to
\* one, kept over many updates of rejections, timeouts and disconnects.
PendingIsLive ==
  hPending # 0 =>
    /\ hPeers[hPending].compatible /\ ~hPeers[hPending].romConnected
    /\ hPeers[hPending].of = hHandshake

\* The host never rejects an assistant with a matching game for an invalid
\* message, in whatever order its channels deliver (the early handshake).
ConformingAccepted == accused \subseteq Incompatible \cup Foreign

\* Profiles are sent once per change, so none may get lost between the two ROMs:
\* when nothing is under way, a connected client's game has the profiles the
\* host sent last, also if it joined after the change or its bridge was full.
ProfilesKept ==
  \A c \in Clients :
    (/\ hEnd[c] = "up" /\ cEnd[c] = "up"
     /\ hPeers[c].romConnected /\ cPeer[c].romConnected /\ hProfiles # 0
     /\ toClient[c]["PlayerProfiles"] = << >> /\ cProfiles[c] = 0
     /\ \A i \in DOMAIN cSent[c] : cSent[c][i].kind # "profiles")
    => cRom[c].version = hProfiles

\* A client that has sent its ROM handshake is answered, rejected or
\* disconnected some day, although it has no deadline of its own for that.
\* This takes games that keep up with the requests to them.
KeepUp(c) == []<>(hPc = "idle" /\ hSent = << >>) /\ []<>(cPc[c] = "idle" /\ cSent[c] = << >>)
EventuallyAnswered ==
  \A c \in Clients : KeepUp(c) => (cState[c] = "AwaitingResponse" ~> cState[c] # "AwaitingResponse")

\* A client disconnects the host only for what docs/multiplayer-protocol.md
\* lists under "Invalid peers"; this host sends "game data only to a peer that
\* also finished the ROM handshake".
HostNotRejected == mistaken \subseteq Incompatible
=============================================================================
