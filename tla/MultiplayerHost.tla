---------------------------- MODULE MultiplayerHost ----------------------------
(***************************************************************************)
(* MultiplayerBehaviour of the host, and the host's game as far as the     *)
(* behaviour sees it.  OnUpdate is three kinds of steps, `hPc` says which  *)
(* comes next: the observer's read and the retried handshake write; the    *)
(* events of PollConnection, one by one ("poll"); and what follows the     *)
(* poll ("act").  The ROM's layout has been found valid.                   *)
(***************************************************************************)
EXTENDS EnetLink

CONSTANT MaxOpens    \* bound: times the host opens multiplayer

ASSUME HostAssumption == MaxOpens \in Nat

VARIABLES
  hState,               \* m_ConnState; "off" without an open host
  hPeers,               \* m_PeerStates
  hPending,             \* m_PendingHandshake, 0 for nullptr
  hHandshake, hData,    \* whose handshake that is; m_PendingHandshakeData is not empty
  hHad, hBefore,        \* locals of OnUpdate: hadPendingHandshakeData, pendingBeforePoll
  hPc,
  hProfiles,            \* the version m_ServerState.m_PlayerProfiles has, 0 for none
  hBlob,                \* the observed copy of the ROM's multiplayer state
  hSent,                \* memory requests that have not run yet
  rom,                  \* the ROM's multiplayer state
  opens,
  accused               \* history: connections that were rejected for an invalid message

hostVars == <<hState, hPeers, hPending, hHandshake, hData, hHad, hBefore, hPc, hProfiles, hBlob, hSent,
              rom, opens, accused>>

\* m_HelloReceived and m_Compatible are always set together.
Peers == [known : BOOLEAN, compatible : BOOLEAN, romConnected : BOOLEAN, early : Numbers, of : Numbers]
NoPeer == [known |-> FALSE, compatible |-> FALSE, romConnected |-> FALSE, early |-> 0, of |-> 0]
NewPeer(n) == [NoPeer EXCEPT !.known = TRUE, !.of = n]

RomStates == [state : {"none", "toHost", "toClient"}, id : {0, 1}, version : 1..MaxVersions]
BlankRom == [state |-> "none", id |-> 0, version |-> 1]

HostTypeOK ==
  /\ hState \in {"off", "ConnectionConfirmed", "Connected"}
  /\ hPeers \in [Clients -> Peers]
  /\ hPending \in Clients \cup {0} /\ hBefore \in Clients \cup {0}
  /\ hHandshake \in Numbers /\ hData \in BOOLEAN /\ hHad \in BOOLEAN
  /\ hPc \in {"idle", "poll", "act"}
  /\ hProfiles \in 0..MaxVersions
  /\ hBlob \in RomStates /\ rom \in RomStates
  /\ hSent \in Seq([kind : Kinds, of : 0..MaxVersions]) /\ Len(hSent) <= MaxOutstanding
  /\ opens \in 0..MaxOpens /\ accused \subseteq Numbers

HostInit ==
  /\ hState = "off" /\ hPeers = [c \in Clients |-> NoPeer]
  /\ hPending = 0 /\ hHandshake = 0 /\ hData = FALSE /\ hHad = FALSE /\ hBefore = 0
  /\ hPc = "idle" /\ hProfiles = 0
  /\ hBlob = BlankRom /\ rom = BlankRom /\ hSent = << >>
  /\ opens = 0 /\ accused = {}

-----------------------------------------------------------------------------
\* OnAttach and OpenHostConnection.  If ENet or the port is not available the
\* behaviour is removed and all stays as it was.
OpenHostConnection ==
  /\ hState = "off" /\ opens < MaxOpens
  /\ hState' = "ConnectionConfirmed" /\ opens' = opens + 1
  /\ UNCHANGED <<hPeers, hPending, hHandshake, hData, hHad, hBefore, hPc, hProfiles, hBlob, hSent, rom, accused>>
  /\ UNCHANGED linkVars

\* The ROM's request changed, its state went away or its game disconnected, which
\* also ends its requests: the behaviour is removed (OnDetach, CloseConnection).
CloseHostConnection ==
  /\ hState # "off" /\ hPc = "idle"
  /\ hState' = "off" /\ hPeers' = [c \in Clients |-> NoPeer]
  /\ hPending' = 0 /\ hHandshake' = 0 /\ hData' = FALSE /\ hProfiles' = 0
  /\ hSent' \in {hSent, << >>}
  /\ HostResets
  /\ UNCHANGED <<hHad, hBefore, hPc, hBlob, rom, opens, accused>>

\* Mutant: a handshake write that found no room is not tried again.
HostBeginOnce ==
  /\ hPc = "idle" /\ hState # "off"
  /\ hSent' = Offer(hSent, Request("read", 0))
  /\ hHad' = hData /\ hBefore' = hPending
  /\ hPc' = "poll"
  /\ UNCHANGED <<hState, hPeers, hPending, hHandshake, hData, hProfiles, hBlob, rom, opens, accused>>
  /\ UNCHANGED linkVars

\* The update starts: the observer's read, then TrySubmitHostHandshake.
HostBegin ==
  /\ hPc = "idle" /\ hState # "off"
  /\ LET q == Offer(hSent, Request("read", 0))
         submits == hData /\ HasRoom(q)
     IN /\ hSent' = IF submits THEN Append(q, Request("handshake", 0)) ELSE q
        /\ hData' = (hData /\ ~submits)
  /\ hHad' = hData /\ hBefore' = hPending
  /\ hPc' = "poll"
  /\ UNCHANGED <<hState, hPeers, hPending, hHandshake, hProfiles, hBlob, rom, opens, accused>>
  /\ UNCHANGED linkVars

-----------------------------------------------------------------------------
(* PollConnection *)

\* Mutant: a pending handshake of the rejected peer is kept.
ForgetPeersOnly(peers) ==
  /\ hPeers' = [c \in Clients |-> IF c \in peers THEN NoPeer ELSE hPeers[c]]
  /\ UNCHANGED <<hPending, hHandshake, hData>>

\* What RejectPeer and HandlePeerDisconnect erase.
ForgetPeers(peers) ==
  /\ hPeers' = [c \in Clients |-> IF c \in peers THEN NoPeer ELSE hPeers[c]]
  /\ hPending' = IF hPending \in peers THEN 0 ELSE hPending
  /\ hHandshake' = IF hPending \in peers THEN 0 ELSE hHandshake
  /\ hData' = (hData /\ hPending \notin peers)

RejectPeer(c, invalid) ==
  /\ ForgetPeers({c}) /\ HostDrops({c})
  /\ accused' = IF invalid THEN accused \cup {number[c]} ELSE accused
  /\ UNCHANGED hSent

\* A connection event: a new peer state, and the compatibility hello is sent.
HostConnect(c) ==
  /\ hEnd[c] = "connect"
  /\ hEnd' = [hEnd EXCEPT ![c] = "up"]
  /\ hPeers' = [hPeers EXCEPT ![c] = NewPeer(number[c])]
  /\ toClient' = SentToClients(toClient, {c}, "Control", Message(Matches(c), 0, 0))
  /\ UNCHANGED <<cEnd, toHost, number, connects, hPending, hHandshake, hData, hSent, accused>>

\* HandleRomHandshake for a compatible peer, whose state is `peer`; the message
\* being handled came on channel `ch`
HandleRomHandshake(c, peer, ok, of, ch) ==
  \/ /\ ok /\ ~peer.romConnected /\ hPending = 0
     /\ hPeers' = [hPeers EXCEPT ![c] = peer]
     /\ hPending' = c /\ hHandshake' = of
     /\ hData' = ~HasRoom(hSent)
     /\ hSent' = Offer(hSent, Request("handshake", 0))
     /\ toHost' = Received(toHost, c, ch)
     /\ UNCHANGED <<hEnd, cEnd, toClient, number, connects, accused>>
  \/ /\ ~(ok /\ ~peer.romConnected /\ hPending = 0)
     /\ RejectPeer(c, ~ok \/ peer.romConnected \/ hPending = c)

\* HandleCompatibilityHello
HostHello(c) ==
  /\ hEnd[c] = "up" /\ toHost[c]["Control"] # << >>
  /\ LET m == Head(toHost[c]["Control"])
         peer == [hPeers[c] EXCEPT !.compatible = TRUE, !.early = 0]
     IN
     \/ (hPeers[c].compatible \/ ~m.ok) /\ RejectPeer(c, TRUE)
     \/ /\ ~hPeers[c].compatible /\ m.ok /\ hPeers[c].early = 0
        /\ hPeers' = [hPeers EXCEPT ![c] = peer]
        /\ toHost' = Received(toHost, c, "Control")
        /\ UNCHANGED <<hEnd, cEnd, toClient, number, connects, hPending, hHandshake, hData, hSent, accused>>
     \/ /\ ~hPeers[c].compatible /\ m.ok /\ hPeers[c].early # 0
        /\ HandleRomHandshake(c, peer, TRUE, hPeers[c].early, "Control")

\* Mutant: there is no early handshake.
HostHandshakeStrict(c) ==
  /\ hEnd[c] = "up" /\ toHost[c]["Handshake"] # << >>
  /\ LET m == Head(toHost[c]["Handshake"]) IN
     \/ ~hPeers[c].compatible /\ RejectPeer(c, TRUE)
     \/ /\ hPeers[c].compatible
        /\ HandleRomHandshake(c, hPeers[c], m.ok, m.of, "Handshake")

\* HandleIncomingMessage: a ROM handshake, which may have overtaken the hello
HostHandshake(c) ==
  /\ hEnd[c] = "up" /\ toHost[c]["Handshake"] # << >>
  /\ LET m == Head(toHost[c]["Handshake"]) IN
     \/ /\ ~hPeers[c].compatible /\ hPeers[c].early = 0 /\ m.ok
        /\ hPeers' = [hPeers EXCEPT ![c].early = m.of]
        /\ toHost' = Received(toHost, c, "Handshake")
        /\ UNCHANGED <<hEnd, cEnd, toClient, number, connects, hPending, hHandshake, hData, hSent, accused>>
     \/ ~hPeers[c].compatible /\ (hPeers[c].early # 0 \/ ~m.ok) /\ RejectPeer(c, TRUE)
     \/ /\ hPeers[c].compatible
        /\ HandleRomHandshake(c, hPeers[c], m.ok, m.of, "Handshake")

\* HandleIncomingMessage: player state, which goes to the game if there is room,
\* or what only a host may send
HostGameplay(c, ch) ==
  /\ hEnd[c] = "up" /\ ch \in {"PlayerProfiles", "State"} /\ toHost[c][ch] # << >>
  /\ LET accepts == hPeers[c].romConnected /\ ch = "State" /\ Head(toHost[c][ch]).ok IN
     \/ ~accepts /\ RejectPeer(c, TRUE)
     \/ /\ accepts
        /\ hSent' = Offer(hSent, Request("other", 0))
        /\ toHost' = Received(toHost, c, ch)
        /\ UNCHANGED <<hEnd, cEnd, toClient, number, connects, hPeers, hPending, hHandshake, hData, accused>>

\* HandlePeerDisconnect: the host stays open for others.
HostDisconnected(c) ==
  /\ hEnd[c] = "lost"
  /\ hEnd' = [hEnd EXCEPT ![c] = "none"]
  /\ ForgetPeers({c})
  /\ UNCHANGED <<cEnd, toHost, toClient, number, connects, hSent, accused>>

HostEvent(c) ==
  /\ hPc = "poll"
  /\ HostConnect(c) \/ HostHello(c) \/ HostHandshake(c) \/ HostDisconnected(c)
  /\ UNCHANGED <<hState, hHad, hBefore, hPc, hProfiles, hBlob, rom, opens>>

HostGameplayEvent(c) ==
  /\ hPc = "poll"
  /\ \E ch \in Channels : HostGameplay(c, ch)
  /\ UNCHANGED <<hState, hHad, hBefore, hPc, hProfiles, hBlob, rom, opens>>

\* The end of PollConnection: some peers have not said hello in time.
HostExpire ==
  /\ hPc = "poll" /\ hPc' = "act"
  /\ \E late \in SUBSET {c \in Clients : hPeers[c].known /\ ~hPeers[c].compatible} :
       ForgetPeers(late) /\ HostDrops(late)
  /\ UNCHANGED <<hState, hHad, hBefore, hProfiles, hBlob, hSent, rom, opens, accused>>
-----------------------------------------------------------------------------
(* The rest of OnUpdate *)

\* The ROM may have answered the handshake that was pending before the poll.
Answers ==
  /\ ~hHad /\ hBefore # 0 /\ hPending = hBefore /\ ~hData
  /\ hBlob.state = "toClient"

\* The answer goes to the client, and the next update sends all profiles again.
\* The client is known and compatible (PendingIsLive), so the test for that is
\* left out.
AnswerHandshake ==
  /\ Answers /\ hBlob.id # 0
  /\ hPeers' = [hPeers EXCEPT ![hPending].romConnected = TRUE]
  /\ toClient' = SentToClients(toClient, {hPending}, "Handshake", Message(TRUE, 0, hBlob.id))
  /\ hPending' = 0 /\ hHandshake' = 0 /\ hProfiles' = 0
  /\ UNCHANGED <<hEnd, cEnd, toHost, number, connects, hState, hData, hSent, accused>>

RejectAnswer ==
  /\ Answers /\ hBlob.id = 0
  /\ RejectPeer(hPending, FALSE)
  /\ UNCHANGED <<hState, hProfiles>>

\* SendMultiplayerConfirmationToGame
ConfirmHost ==
  /\ ~Answers /\ hState = "ConnectionConfirmed"
  /\ hSent' = Offer(hSent, Request("other", 0))
  /\ hState' = IF HasRoom(hSent) THEN "Connected" ELSE hState
  /\ UNCHANGED <<linkVars, hPeers, hPending, hHandshake, hData, hProfiles, accused>>

\* ConnectedUpdate: changed profiles and, when a timer is due, state go to the
\* peers whose ROM is connected (BroadcastToConnectedPeers).
HostConnectedUpdate ==
  /\ ~Answers /\ hState = "Connected"
  /\ LET peers == {c \in Clients : hPeers[c].compatible /\ hPeers[c].romConnected}
         afterProfiles == IF hProfiles = hBlob.version THEN toClient
                            ELSE SentToClients(toClient, peers, "PlayerProfiles", Message(TRUE, hBlob.version, 0))
     IN \/ toClient' = afterProfiles
        \/ toClient' = SentToClients(afterProfiles, peers, "State", Message(TRUE, 0, 0))
  /\ hProfiles' = hBlob.version
  /\ UNCHANGED <<hEnd, cEnd, toHost, number, connects, hState, hPeers, hPending, hHandshake, hData, hSent, accused>>

HostAct ==
  /\ hPc = "act" /\ hPc' = "idle"
  /\ AnswerHandshake \/ RejectAnswer \/ ConfirmHost \/ HostConnectedUpdate
  /\ hHad' = FALSE /\ hBefore' = 0
  /\ UNCHANGED <<hBlob, rom, opens>>

-----------------------------------------------------------------------------
(* The host's game (external): requests run in order (module Bridge); the    *)
(* ROM answers the handshake it finds, and leaves the answer where it is.    *)

HostExecute ==
  /\ hSent # << >> /\ hPc = "idle"
  /\ LET r == Head(hSent) IN
     /\ hBlob' = IF r.kind = "read" THEN rom ELSE hBlob
     /\ rom' = IF r.kind = "handshake" THEN [rom EXCEPT !.state = "toHost", !.id = 0] ELSE rom
  /\ hSent' = Tail(hSent)
  /\ UNCHANGED <<linkVars, hState, hPeers, hPending, hHandshake, hData, hHad, hBefore, hPc, hProfiles, opens, accused>>

RomAnswers ==
  /\ rom.state = "toHost"
  /\ \E id \in {0, 1} : rom' = [rom EXCEPT !.state = "toClient", !.id = id]
  /\ UNCHANGED <<linkVars, hState, hPeers, hPending, hHandshake, hData, hHad, hBefore, hPc, hProfiles, hBlob, hSent,
                 opens, accused>>

RomChangesProfiles ==
  /\ rom.version < MaxVersions
  /\ rom' = [rom EXCEPT !.version = @ + 1]
  /\ UNCHANGED <<linkVars, hState, hPeers, hPending, hHandshake, hData, hHad, hBefore, hPc, hProfiles, hBlob, hSent,
                 opens, accused>>
=============================================================================
