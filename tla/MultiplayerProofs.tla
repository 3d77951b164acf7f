--------------------------- MODULE MultiplayerProofs ---------------------------
(***************************************************************************)
(* What Multiplayer checks, for any number of slots, clients, connections  *)
(* and profile versions, by four invariants, each inductive with the ones  *)
(* before it:                                                              *)
(*  - LiveInv: peer states and handshakes under way are of the connections *)
(*    that the slots have now, so that the host's pointer is live;         *)
(*  - TypeInv: the types, and that a version on its way is never 0;        *)
(*  - OrderInv: which messages of an assistant may be under way, given     *)
(*    what the host knows of it and how far the client is;                 *)
(*  - ProfileInv: the profiles that the host sent last are the last ones   *)
(*    on their way to the game of a client.                                *)
(***************************************************************************)
EXTENDS Multiplayer, TLAPS

Posts == [ok : BOOLEAN, of : Nat, id : {0, 1}]
PostsOf(n) == {m \in Posts : m.of = n}
PeerStates == [known : BOOLEAN, compatible : BOOLEAN, romConnected : BOOLEAN, early : Nat, of : Nat]

\* The handshakes under way in a slot are of the connection it has.
WireInv ==
  /\ number \in [Clients -> Nat] /\ connects \in Nat
  /\ toHost \in [Clients -> [Channels -> Seq(Posts)]]
  /\ \A c \in Clients : toHost[c]["Handshake"] \in Seq(PostsOf(number[c]))

\* A slot's peer state is of the connection it has, from the event that the
\* host took to the event that ends it, and no connection is made meanwhile.
SlotInv ==
  /\ hEnd \in [Clients -> Ends] /\ cEnd \in [Clients -> Ends]
  /\ hPeers \in [Clients -> PeerStates]
  /\ \A c \in Clients :
       /\ cEnd[c] = "connecting" => hEnd[c] = "none"
       /\ hPeers[c].known => hEnd[c] \in {"up", "lost"}
       /\ hEnd[c] = "up" => hPeers[c].known
       /\ hPeers[c].known => hPeers[c].of = number[c] /\ hPeers[c].early \in {0, number[c]}
       /\ hPeers[c].compatible => hPeers[c].known

PendingInv == hPending \in Clients \cup {0} /\ PendingIsLive

LiveInv == WireInv /\ SlotInv /\ PendingInv

slotVars == <<hEnd, cEnd, number, connects, toHost, hPeers, hPending, hHandshake>>

USE DEF Ends, Channels

-----------------------------------------------------------------------------
(* Messages *)

LEMMA WireReceived ==
  ASSUME WireInv, NEW c \in Clients, NEW ch \in Channels, toHost[c][ch] # << >>,
         toHost' = Received(toHost, c, ch), UNCHANGED <<number, connects>>
  PROVE  WireInv'
<1>1. Tail(toHost[c][ch]) \in Seq(Posts)
  BY DEF WireInv
<1>2. ch = "Handshake" => Tail(toHost[c][ch]) \in Seq(PostsOf(number[c]))
  BY DEF WireInv
<1>3. QED
  BY <1>1, <1>2 DEF WireInv, Received

LEMMA WireSent ==
  ASSUME WireInv, NEW c \in Clients, NEW ch \in Channels, NEW m \in Posts,
         ch = "Handshake" => m.of = number[c],
         toHost' = SentToHost(c, ch, m), UNCHANGED <<number, connects>>
  PROVE  WireInv'
<1>1. Append(toHost[c][ch], m) \in Seq(Posts)
  BY DEF WireInv
<1>2. ch = "Handshake" => Append(toHost[c][ch], m) \in Seq(PostsOf(number[c]))
  BY DEF WireInv, PostsOf
<1>3. \A d \in Clients : toHost'[d] = toHost[d] \/ (d = c /\ toHost'[d] = [toHost[d] EXCEPT ![ch] = Append(@, m)])
  BY DEF SentToHost, Sent
<1>4. ASSUME NEW d \in Clients
      PROVE  /\ toHost'[d] \in [Channels -> Seq(Posts)]
             /\ toHost'[d]["Handshake"] \in Seq(PostsOf(number[d]))
  <2>1. toHost[d] \in [Channels -> Seq(Posts)] /\ toHost[d]["Handshake"] \in Seq(PostsOf(number[d]))
    BY DEF WireInv
  <2>2. CASE toHost'[d] = toHost[d]
    BY <2>1, <2>2
  <2>3. CASE d = c /\ toHost'[d] = [toHost[d] EXCEPT ![ch] = Append(@, m)]
    <3>1. toHost'[d] \in [Channels -> Seq(Posts)]
      BY <1>1, <2>1, <2>3
    <3>2. CASE ch = "Handshake"
      <4>1. toHost'[d]["Handshake"] = Append(toHost[c][ch], m)
        BY <2>1, <2>3, <3>2
      <4>2. QED
        BY <1>2, <2>3, <3>1, <3>2, <4>1
    <3>3. CASE ch # "Handshake"
      <4>1. toHost'[d]["Handshake"] = toHost[d]["Handshake"]
        BY <2>1, <2>3, <3>3
      <4>2. QED
        BY <2>1, <3>1, <4>1
    <3>4. QED
      BY <3>2, <3>3
  <2>4. QED
    BY <1>3, <2>2, <2>3
<1>5. toHost' \in [Clients -> [Channels -> Seq(Posts)]]
  BY <1>4 DEF SentToHost, Sent
<1>6. QED
  BY <1>4, <1>5 DEF WireInv

\* Some slots are emptied.
LEMMA WireQuiet ==
  ASSUME WireInv, toHost' \in [Clients -> [Channels -> Seq(Posts)]],
         \A c \in Clients : toHost'[c] = toHost[c] \/ toHost'[c] = Quiet,
         UNCHANGED <<number, connects>>
  PROVE  WireInv'
  BY DEF WireInv, Quiet

LEMMA QuietType == Quiet \in [Channels -> Seq(Posts)]
  BY DEF Quiet

-----------------------------------------------------------------------------
(* The ends of a connection *)

LEMMA SlotUnchanged == ASSUME LiveInv, UNCHANGED slotVars PROVE LiveInv'
  BY DEF LiveInv, WireInv, SlotInv, PendingInv, PendingIsLive, slotVars

\* Ends that are left may learn of a loss, and a client's end goes on.
LEMMA EndsMove ==
  ASSUME LiveInv, WireInv', hEnd' \in [Clients -> Ends], cEnd' \in [Clients -> Ends],
         \A c \in Clients : hEnd'[c] = hEnd[c] \/ hEnd'[c] = Lost(hEnd[c]),
         \A c \in Clients : cEnd'[c] = "connecting" => cEnd[c] = "connecting" /\ hEnd'[c] = hEnd[c],
         UNCHANGED <<number, hPeers, hPending, hHandshake>>
  PROVE  LiveInv'
<1>1. SlotInv'
  BY DEF LiveInv, SlotInv, Lost
<1>2. PendingInv'
  BY DEF LiveInv, PendingInv, PendingIsLive
<1>3. QED
  BY <1>1, <1>2 DEF LiveInv

LEMMA ConnectKeeps == ASSUME LiveInv, NEW c \in Clients, Connect(c), UNCHANGED hostVars PROVE LiveInv'
<1>1. ~hPeers[c].known
  BY DEF LiveInv, SlotInv, Connect
<1>2. WireInv'
  <2>1. ASSUME NEW d \in Clients PROVE toHost'[d]["Handshake"] \in Seq(PostsOf(number'[d]))
    <3>1. CASE d = c
      <4>1. toHost'[d] = Quiet
        BY <3>1 DEF LiveInv, WireInv, Connect
      <4>2. QED
        BY <4>1 DEF Quiet
    <3>2. CASE d # c
      <4>1. toHost'[d] = toHost[d] /\ number'[d] = number[d]
        BY <3>2 DEF LiveInv, WireInv, Connect
      <4>2. QED
        BY <4>1 DEF LiveInv, WireInv
    <3>3. QED
      BY <3>1, <3>2
  <2>2. number' \in [Clients -> Nat] /\ connects' \in Nat /\ toHost' \in [Clients -> [Channels -> Seq(Posts)]]
    BY QuietType, SMTT(30) DEF LiveInv, WireInv, Connect
  <2>3. QED
    BY <2>1, <2>2 DEF WireInv
<1>3. SlotInv'
  BY <1>1 DEF LiveInv, SlotInv, WireInv, Connect, hostVars
<1>4. PendingInv'
  BY DEF LiveInv, PendingInv, PendingIsLive, hostVars
<1>5. QED
  BY <1>2, <1>3, <1>4 DEF LiveInv

LEMMA EstablishKeeps == ASSUME LiveInv, NEW c \in Clients, Establish(c), UNCHANGED hostVars PROVE LiveInv'
<1>1. ~hPeers[c].known
  BY DEF LiveInv, SlotInv, Establish
<1>2. WireInv'
  BY DEF LiveInv, WireInv, Establish
<1>3. SlotInv'
  BY <1>1 DEF LiveInv, SlotInv, Establish, hostVars
<1>4. PendingInv'
  BY DEF LiveInv, PendingInv, PendingIsLive, hostVars
<1>5. QED
  BY <1>2, <1>3, <1>4 DEF LiveInv

LEMMA LinkLostKeeps == ASSUME LiveInv, NEW c \in Clients, LinkLost(c), UNCHANGED hostVars PROVE LiveInv'
<1>1. WireInv'
  <2>1. toHost' \in [Clients -> [Channels -> Seq(Posts)]] /\ \A d \in Clients : toHost'[d] = toHost[d] \/ toHost'[d] = Quiet
    BY QuietType DEF LiveInv, WireInv, LinkLost
  <2>2. QED
    BY <2>1, WireQuiet DEF LiveInv, LinkLost
<1>2. hEnd' \in [Clients -> Ends] /\ cEnd' \in [Clients -> Ends]
  BY DEF LiveInv, SlotInv, LinkLost, Lost
<1>3. \A d \in Clients : hEnd'[d] = hEnd[d] \/ hEnd'[d] = Lost(hEnd[d])
  BY DEF LiveInv, SlotInv, LinkLost
<1>4. \A d \in Clients : cEnd'[d] = "connecting" => cEnd[d] = "connecting" /\ hEnd'[d] = hEnd[d]
  BY DEF LiveInv, SlotInv, LinkLost, Lost
<1>5. QED
  BY <1>1, <1>2, <1>3, <1>4, EndsMove DEF LinkLost, hostVars

LEMMA StateLostKeeps == ASSUME LiveInv, NEW c \in Clients, StateLost(c), UNCHANGED hostVars PROVE LiveInv'
<1>1. WireInv'
  <2>1. CASE UNCHANGED toHost
    BY <2>1 DEF LiveInv, WireInv, StateLost
  <2>2. CASE toHost[c]["State"] # << >> /\ toHost' = Received(toHost, c, "State")
    BY <2>2, WireReceived DEF LiveInv, StateLost
  <2>3. QED
    BY <2>1, <2>2 DEF StateLost, Received
<1>2. QED
  BY <1>1 DEF LiveInv, SlotInv, PendingInv, PendingIsLive, StateLost, hostVars

LEMMA ClientDropsKeeps == ASSUME LiveInv, NEW c \in Clients, ClientDrops(c), UNCHANGED hostVars PROVE LiveInv'
<1>1. WireInv'
  <2>1. toHost' \in [Clients -> [Channels -> Seq(Posts)]] /\ \A d \in Clients : toHost'[d] = toHost[d] \/ toHost'[d] = Quiet
    BY QuietType DEF LiveInv, WireInv, ClientDrops
  <2>2. QED
    BY <2>1, WireQuiet DEF LiveInv, ClientDrops
<1>2. hEnd' \in [Clients -> Ends] /\ cEnd' \in [Clients -> Ends]
  BY DEF LiveInv, SlotInv, ClientDrops, Lost
<1>3. \A d \in Clients : hEnd'[d] = hEnd[d] \/ hEnd'[d] = Lost(hEnd[d])
  BY DEF LiveInv, SlotInv, ClientDrops
<1>4. \A d \in Clients : cEnd'[d] = "connecting" => cEnd[d] = "connecting" /\ hEnd'[d] = hEnd[d]
  BY DEF LiveInv, SlotInv, ClientDrops
<1>5. QED
  BY <1>1, <1>2, <1>3, <1>4, EndsMove DEF ClientDrops, hostVars

-----------------------------------------------------------------------------
(* The host *)

\* RejectPeer and the deadlines
LEMMA DropKeeps ==
  ASSUME LiveInv, NEW peers \in SUBSET Clients, ForgetPeers(peers), HostDrops(peers)
  PROVE  LiveInv'
<1>1. WireInv'
  <2>1. toHost' \in [Clients -> [Channels -> Seq(Posts)]] /\ \A d \in Clients : toHost'[d] = toHost[d] \/ toHost'[d] = Quiet
    BY QuietType DEF LiveInv, WireInv, HostDrops
  <2>2. QED
    BY <2>1, WireQuiet DEF LiveInv, HostDrops
<1>2. SlotInv'
  <2>1. hEnd' \in [Clients -> Ends] /\ cEnd' \in [Clients -> Ends]
    BY DEF LiveInv, SlotInv, HostDrops, Lost
  <2>2. hPeers' \in [Clients -> PeerStates]
    BY DEF LiveInv, SlotInv, ForgetPeers, NoPeer, PeerStates
  <2>3. ASSUME NEW c \in Clients
        PROVE  /\ \/ hEnd'[c] = "none" /\ hPeers'[c] = NoPeer
                  \/ hEnd'[c] = hEnd[c] /\ hPeers'[c] = hPeers[c]
               /\ cEnd'[c] = "connecting" => cEnd[c] = "connecting"
    <3>1. hEnd'[c] = (IF c \in peers THEN "none" ELSE hEnd[c]) /\ hPeers'[c] = (IF c \in peers THEN NoPeer ELSE hPeers[c])
      BY DEF ForgetPeers, HostDrops
    <3>2. cEnd'[c] \in {cEnd[c], Lost(cEnd[c])}
      BY DEF HostDrops
    <3>3. QED
      BY <3>1, <3>2 DEF Lost
  <2>4. number' = number
    BY DEF HostDrops
  <2>5. QED
    BY <2>1, <2>2, <2>3, <2>4 DEF LiveInv, SlotInv, NoPeer
<1>3. PendingInv'
  BY DEF LiveInv, PendingInv, PendingIsLive, SlotInv, ForgetPeers
<1>4. QED
  BY <1>1, <1>2, <1>3 DEF LiveInv

LEMMA RejectKeeps ==
  ASSUME LiveInv, NEW c \in Clients, NEW invalid, RejectPeer(c, invalid)
  PROVE  LiveInv'
  BY DropKeeps DEF RejectPeer

LEMMA HostConnectKeeps == ASSUME LiveInv, NEW c \in Clients, HostConnect(c) PROVE LiveInv'
<1>1. ~hPeers[c].known
  BY DEF LiveInv, SlotInv, HostConnect
<1>2. hPending # c
  BY <1>1, LinkAssumption DEF LiveInv, SlotInv, PendingInv, PendingIsLive
<1>3. WireInv'
  BY DEF LiveInv, WireInv, HostConnect
<1>4. SlotInv'
  <2>1. NewPeer(number[c]) \in PeerStates
    BY DEF LiveInv, WireInv, NewPeer, NoPeer, PeerStates
  <2>2. QED
    BY <2>1 DEF LiveInv, SlotInv, HostConnect, NewPeer, NoPeer
<1>5. PendingInv'
  BY <1>2 DEF LiveInv, SlotInv, PendingInv, PendingIsLive, HostConnect
<1>6. QED
  BY <1>3, <1>4, <1>5 DEF LiveInv

\* A handshake of a compatible peer becomes the pending one, or is refused.
LEMMA HandshakeKeeps ==
  ASSUME LiveInv, NEW c \in Clients, NEW peer \in PeerStates, NEW ok \in BOOLEAN, NEW of, NEW ch \in Channels,
         toHost[c][ch] # << >>, hEnd[c] = "up",
         peer.known, peer.compatible, peer.of = number[c], peer.early \in {0, number[c]}, of = number[c],
         HandleRomHandshake(c, peer, ok, of, ch)
  PROVE  LiveInv'
<1>1. CASE /\ ok /\ ~peer.romConnected /\ hPending = 0
           /\ hPeers' = [hPeers EXCEPT ![c] = peer]
           /\ hPending' = c /\ hHandshake' = of
           /\ toHost' = Received(toHost, c, ch)
           /\ UNCHANGED <<hEnd, cEnd, number, connects>>
  <2>1. WireInv'
    BY <1>1, WireReceived DEF LiveInv
  <2>2. SlotInv'
    BY <1>1 DEF LiveInv, SlotInv
  <2>3. PendingInv'
    BY <1>1 DEF LiveInv, SlotInv, PendingInv, PendingIsLive
  <2>4. QED
    BY <2>1, <2>2, <2>3 DEF LiveInv
<1>2. CASE RejectPeer(c, ~ok \/ peer.romConnected \/ hPending = c)
  BY <1>2, RejectKeeps
<1>3. QED
  BY <1>1, <1>2 DEF HandleRomHandshake

\* A peer says hello, or its handshake came early.
LEMMA PeerMoves ==
  ASSUME LiveInv, NEW c \in Clients, NEW peer \in PeerStates, NEW ch \in Channels, toHost[c][ch] # << >>,
         hEnd[c] = "up", hPending # c, peer.known, peer.of = number[c], peer.early \in {0, number[c]},
         hPeers' = [hPeers EXCEPT ![c] = peer], toHost' = Received(toHost, c, ch),
         UNCHANGED <<hEnd, cEnd, number, connects, hPending, hHandshake>>
  PROVE  LiveInv'
<1>1. WireInv'
  BY WireReceived DEF LiveInv
<1>2. SlotInv'
  BY DEF LiveInv, SlotInv
<1>3. PendingInv'
  BY DEF LiveInv, SlotInv, PendingInv, PendingIsLive
<1>4. QED
  BY <1>1, <1>2, <1>3 DEF LiveInv

LEMMA HostHelloKeeps == ASSUME LiveInv, NEW c \in Clients, HostHello(c) PROVE LiveInv'
<1> DEFINE peer == [hPeers[c] EXCEPT !.compatible = TRUE, !.early = 0]
           m == Head(toHost[c]["Control"])
<1>1. /\ hEnd[c] = "up" /\ toHost[c]["Control"] # << >> /\ "Control" \in Channels
      /\ hPeers[c].known /\ hPeers[c].of = number[c] /\ hPeers[c].early \in {0, number[c]}
  BY DEF HostHello, LiveInv, SlotInv
<1>2. /\ peer \in PeerStates /\ peer.known /\ peer.compatible
      /\ peer.of = number[c] /\ peer.early = 0
  BY <1>1, ZenonT(60) DEF LiveInv, SlotInv, PeerStates
<1>3. CASE RejectPeer(c, TRUE)
  BY <1>3, RejectKeeps
<1>4. CASE /\ ~hPeers[c].compatible
           /\ hPeers' = [hPeers EXCEPT ![c] = peer]
           /\ toHost' = Received(toHost, c, "Control")
           /\ UNCHANGED <<hEnd, cEnd, number, connects, hPending, hHandshake>>
  <2>1. hPending # c
    BY <1>4, LinkAssumption DEF LiveInv, PendingInv, PendingIsLive
  <2>2. QED
    BY <1>1, <1>2, <1>4, <2>1, PeerMoves
<1>5. CASE hPeers[c].early # 0 /\ HandleRomHandshake(c, peer, TRUE, hPeers[c].early, "Control")
  <2>1. hPeers[c].early = number[c]
    BY <1>1, <1>5
  <2>2. QED
    BY <1>1, <1>2, <1>5, <2>1, HandshakeKeeps
<1>6. QED
  BY <1>3, <1>4, <1>5 DEF HostHello

LEMMA HostHandshakeKeeps == ASSUME LiveInv, NEW c \in Clients, HostHandshake(c) PROVE LiveInv'
<1> DEFINE m == Head(toHost[c]["Handshake"])
           peer == [hPeers[c] EXCEPT !.early = m.of]
<1>1. /\ hEnd[c] = "up" /\ toHost[c]["Handshake"] # << >> /\ "Handshake" \in Channels
      /\ hPeers[c].known /\ hPeers[c].of = number[c] /\ hPeers[c].early \in {0, number[c]}
      /\ hPeers[c] \in PeerStates
  BY DEF HostHandshake, LiveInv, SlotInv
<1>2. m \in PostsOf(number[c])
  BY <1>1 DEF LiveInv, WireInv
<1>3. m.of = number[c] /\ m.ok \in BOOLEAN /\ m.of \in Nat
  BY <1>2 DEF PostsOf, Posts
<1>4. CASE RejectPeer(c, TRUE)
  BY <1>4, RejectKeeps
<1>5. CASE /\ ~hPeers[c].compatible
           /\ hPeers' = [hPeers EXCEPT ![c].early = m.of]
           /\ toHost' = Received(toHost, c, "Handshake")
           /\ UNCHANGED <<hEnd, cEnd, number, connects, hPending, hHandshake>>
  <2>1. hPending # c
    BY <1>5, LinkAssumption DEF LiveInv, PendingInv, PendingIsLive
  <2>2. peer \in PeerStates /\ peer.known /\ peer.of = number[c] /\ peer.early = number[c]
    BY <1>1, <1>3 DEF PeerStates
  <2>3. hPeers' = [hPeers EXCEPT ![c] = peer]
    BY <1>5 DEF LiveInv, SlotInv
  <2>4. QED
    BY <1>1, <1>5, <2>1, <2>2, <2>3, PeerMoves
<1>6. CASE hPeers[c].compatible /\ HandleRomHandshake(c, hPeers[c], m.ok, m.of, "Handshake")
  BY <1>1, <1>3, <1>6, HandshakeKeeps
<1>7. QED
  BY <1>4, <1>5, <1>6 DEF HostHandshake

LEMMA HostGameplayKeeps == ASSUME LiveInv, NEW c \in Clients, NEW ch \in Channels, HostGameplay(c, ch) PROVE LiveInv'
<1>1. CASE RejectPeer(c, TRUE)
  BY <1>1, RejectKeeps
<1>2. CASE /\ toHost[c][ch] # << >> /\ toHost' = Received(toHost, c, ch)
           /\ UNCHANGED <<hEnd, cEnd, number, connects, hPeers, hPending, hHandshake>>
  <2>1. WireInv'
    BY <1>2, WireReceived DEF LiveInv
  <2>2. QED
    BY <1>2, <2>1 DEF LiveInv, SlotInv, PendingInv, PendingIsLive
<1>3. QED
  BY <1>1, <1>2 DEF HostGameplay

LEMMA HostDisconnectedKeeps == ASSUME LiveInv, NEW c \in Clients, HostDisconnected(c) PROVE LiveInv'
<1>1. WireInv'
  BY DEF LiveInv, WireInv, HostDisconnected
<1>2. SlotInv'
  <2>1. hEnd' \in [Clients -> Ends] /\ hPeers' \in [Clients -> PeerStates]
    BY DEF LiveInv, SlotInv, HostDisconnected, ForgetPeers, NoPeer, PeerStates
  <2>2. ASSUME NEW d \in Clients
        PROVE  \/ hEnd'[d] = "none" /\ hPeers'[d] = NoPeer
               \/ hEnd'[d] = hEnd[d] /\ hPeers'[d] = hPeers[d]
    BY DEF LiveInv, SlotInv, HostDisconnected, ForgetPeers
  <2>3. QED
    BY <2>1, <2>2 DEF LiveInv, SlotInv, HostDisconnected, NoPeer
<1>3. PendingInv'
  BY DEF LiveInv, PendingInv, PendingIsLive, SlotInv, HostDisconnected, ForgetPeers
<1>4. QED
  BY <1>1, <1>2, <1>3 DEF LiveInv

LEMMA AnswerKeeps == ASSUME LiveInv, AnswerHandshake PROVE LiveInv'
<1>1. hPending \in Clients
  BY DEF AnswerHandshake, Answers, LiveInv, PendingInv
<1>2. WireInv'
  BY DEF LiveInv, WireInv, AnswerHandshake
<1>3. SlotInv'
  <2>1. hPeers \in [Clients -> PeerStates] /\ hPeers' = [hPeers EXCEPT ![hPending].romConnected = TRUE]
    BY DEF LiveInv, SlotInv, AnswerHandshake
  <2>2. hPeers' \in [Clients -> PeerStates]
    BY <1>1, <2>1 DEF PeerStates
  <2>3. ASSUME NEW d \in Clients
        PROVE  /\ hPeers'[d].known = hPeers[d].known /\ hPeers'[d].of = hPeers[d].of
               /\ hPeers'[d].early = hPeers[d].early /\ hPeers'[d].compatible = hPeers[d].compatible
    BY <1>1, <2>1 DEF PeerStates
  <2>4. UNCHANGED <<hEnd, cEnd, number>>
    BY DEF AnswerHandshake
  <2>5. QED
    BY <2>2, <2>3, <2>4 DEF LiveInv, SlotInv
<1>4. PendingInv'
  BY DEF PendingInv, PendingIsLive, AnswerHandshake
<1>5. QED
  BY <1>2, <1>3, <1>4 DEF LiveInv

LEMMA CloseHostKeeps == ASSUME LiveInv, CloseHostConnection PROVE LiveInv'
<1>1. WireInv'
  <2>1. toHost' \in [Clients -> [Channels -> Seq(Posts)]] /\ \A d \in Clients : toHost'[d] = Quiet
    BY QuietType DEF CloseHostConnection, HostResets
  <2>2. QED
    BY <2>1, WireQuiet DEF LiveInv, CloseHostConnection, HostResets
<1>2. SlotInv'
  BY DEF LiveInv, SlotInv, CloseHostConnection, HostResets, NoPeer, PeerStates
<1>3. PendingInv'
  BY DEF PendingInv, PendingIsLive, CloseHostConnection
<1>4. QED
  BY <1>1, <1>2, <1>3 DEF LiveInv

LEMMA HostKeeps == ASSUME LiveInv, HostNext PROVE LiveInv'
<1>1. CASE OpenHostConnection \/ HostBegin \/ HostExecute \/ RomAnswers \/ RomChangesProfiles
  <2>1. UNCHANGED slotVars
    BY <1>1 DEF OpenHostConnection, HostBegin, HostExecute, RomAnswers, RomChangesProfiles, slotVars, linkVars
  <2>2. QED
    BY <2>1, SlotUnchanged
<1>2. CASE CloseHostConnection
  BY <1>2, CloseHostKeeps
<1>3. ASSUME NEW c \in Clients, HostEvent(c) PROVE LiveInv'
  BY <1>3, HostConnectKeeps, HostHelloKeeps, HostHandshakeKeeps, HostDisconnectedKeeps DEF HostEvent
<1>4. ASSUME NEW c \in Clients, HostGameplayEvent(c) PROVE LiveInv'
  BY <1>4, HostGameplayKeeps DEF HostGameplayEvent
<1>5. CASE HostExpire
  <2>1. PICK late \in SUBSET {c \in Clients : hPeers[c].known /\ ~hPeers[c].compatible} : ForgetPeers(late) /\ HostDrops(late)
    BY <1>5 DEF HostExpire
  <2>2. QED
    BY <2>1, DropKeeps
<1>6. CASE HostAct
  <2>1. CASE AnswerHandshake
    BY <2>1, AnswerKeeps
  <2>2. CASE RejectAnswer
    <3>1. hPending \in Clients
      BY <2>2 DEF RejectAnswer, Answers, LiveInv, PendingInv
    <3>2. QED
      BY <2>2, <3>1, RejectKeeps DEF RejectAnswer
  <2>3. CASE ConfirmHost \/ HostConnectedUpdate
    <3>1. UNCHANGED slotVars
      BY <2>3 DEF ConfirmHost, HostConnectedUpdate, slotVars, linkVars
    <3>2. QED
      BY <3>1, SlotUnchanged
  <2>4. QED
    BY <1>6, <2>1, <2>2, <2>3 DEF HostAct
<1>7. QED
  BY <1>1, <1>2, <1>3, <1>4, <1>5, <1>6 DEF HostNext

-----------------------------------------------------------------------------
(* Clients, and what is none *)

\* A client's own end goes on, or is closed without telling the host.
LEMMA ClientEndMoves ==
  ASSUME LiveInv, WireInv', NEW c \in Clients, NEW end \in {"none", "up"}, cEnd' = [cEnd EXCEPT ![c] = end],
         UNCHANGED <<hEnd, number, hPeers, hPending, hHandshake>>
  PROVE  LiveInv'
<1>1. hEnd' \in [Clients -> Ends] /\ cEnd' \in [Clients -> Ends]
  BY DEF LiveInv, SlotInv
<1>2. \A d \in Clients : cEnd'[d] = "connecting" => cEnd[d] = "connecting" /\ hEnd'[d] = hEnd[d]
  BY DEF LiveInv, SlotInv
<1>3. QED
  BY <1>1, <1>2, EndsMove

LEMMA WireUnchanged == ASSUME WireInv, UNCHANGED <<number, connects, toHost>> PROVE WireInv'
  BY DEF WireInv

LEMMA ClosesKeeps ==
  ASSUME LiveInv, NEW c \in Clients, CloseClientConnection(c), UNCHANGED <<toHost, hostVars>>
  PROVE  LiveInv'
<1>1. WireInv'
  BY WireUnchanged DEF LiveInv, CloseClientConnection
<1>2. QED
  BY <1>1, ClientEndMoves DEF CloseClientConnection, hostVars

LEMMA ClientEventKeeps ==
  ASSUME LiveInv, NEW c \in Clients, ClientEvent(c) \/ ClientGameplayEvent(c), UNCHANGED hostVars
  PROVE  LiveInv'
<1>1. CASE ClientConnect(c)
  <2>1. WireInv'
    <3>1. Message(Matches(c), 0, 0) \in Posts
      BY DEF Message, Matches, Posts
    <3>2. QED
      BY <1>1, <3>1, WireSent DEF ClientConnect, LiveInv
  <2>2. QED
    BY <1>1, <2>1, ClientEndMoves DEF ClientConnect, hostVars
<1>2. CASE ClientDrops(c)
  BY <1>2, ClientDropsKeeps
<1>3. CASE UNCHANGED <<hEnd, cEnd, toHost, number, connects>>
  BY <1>3, SlotUnchanged DEF slotVars, hostVars
<1>4. CASE ClientDisconnected(c)
  <2>1. WireInv'
    BY <1>4, WireUnchanged DEF LiveInv, ClientDisconnected
  <2>2. QED
    BY <1>4, <2>1, ClientEndMoves DEF ClientDisconnected, hostVars
<1>5. ASSUME ClientHello(c) PROVE ClientDrops(c) \/ UNCHANGED <<hEnd, cEnd, toHost, number, connects>>
  BY <1>5 DEF ClientHello, RejectHost
<1>6. ASSUME ClientHandshake(c) PROVE ClientDrops(c) \/ UNCHANGED <<hEnd, cEnd, toHost, number, connects>>
  BY <1>6 DEF ClientHandshake, RejectHost
<1>7. ASSUME NEW ch \in Channels, ClientGameplay(c, ch)
      PROVE  ClientDrops(c) \/ UNCHANGED <<hEnd, cEnd, toHost, number, connects>>
  BY <1>7 DEF ClientGameplay, RejectHost
<1>8. QED
  BY <1>1, <1>2, <1>3, <1>4, <1>5, <1>6, <1>7 DEF ClientEvent, ClientGameplayEvent

LEMMA ClientEndKeeps == ASSUME LiveInv, NEW c \in Clients, ClientEnd(c), UNCHANGED hostVars PROVE LiveInv'
<1>1. CASE ClientRemoved(c) \/ ClientTimesOut(c)
  BY <1>1, ClosesKeeps DEF ClientRemoved, ClientTimesOut
<1>2. CASE ClientGoesOn(c)
  <2>1. WireInv'
    <3>1. CASE toHost' = SentToHost(c, "Handshake", Message(TRUE, number[c], 0))
      <4>1. Message(TRUE, number[c], 0) \in Posts /\ Message(TRUE, number[c], 0).of = number[c]
        BY DEF Message, Posts, LiveInv, WireInv
      <4>2. QED
        BY <1>2, <3>1, <4>1, WireSent DEF ClientGoesOn, LiveInv
    <3>2. CASE toHost' = SentToHost(c, "State", Message(TRUE, 0, 0))
      <4>1. Message(TRUE, 0, 0) \in Posts
        BY DEF Message, Posts
      <4>2. QED
        BY <1>2, <3>2, <4>1, WireSent DEF ClientGoesOn, LiveInv
    <3>3. CASE UNCHANGED toHost
      BY <1>2, <3>3, WireUnchanged DEF ClientGoesOn, LiveInv
    <3>4. QED
      BY <1>2, <3>1, <3>2, <3>3 DEF ClientGoesOn
  <2>2. QED
    BY <1>2, <2>1 DEF ClientGoesOn, LiveInv, SlotInv, PendingInv, PendingIsLive, hostVars
<1>3. QED
  BY <1>1, <1>2 DEF ClientEnd

LEMMA ClientKeeps == ASSUME LiveInv, NEW c \in Clients, ClientNext(c) PROVE LiveInv'
<1>1. CASE OpenClientConnection(c) /\ UNCHANGED hostVars
  BY <1>1, ConnectKeeps DEF OpenClientConnection
<1>2. CASE (ClientBegin(c) \/ ClientExecute(c)) /\ UNCHANGED hostVars
  <2>1. UNCHANGED slotVars
    BY <1>2 DEF ClientBegin, ClientExecute, slotVars, linkVars, hostVars
  <2>2. QED
    BY <2>1, SlotUnchanged
<1>3. CASE ClientDetached(c) /\ UNCHANGED hostVars
  BY <1>3, ClosesKeeps DEF ClientDetached
<1>4. QED
  BY <1>1, <1>2, <1>3, ClientEventKeeps, ClientEndKeeps DEF ClientNext

LEMMA ForeignKeeps ==
  ASSUME LiveInv, NEW c \in Clients, ForeignConnect(c) \/ ForeignSend(c) \/ ForeignClose(c)
  PROVE  LiveInv'
<1>1. CASE ForeignConnect(c)
  BY <1>1, ConnectKeeps DEF ForeignConnect
<1>2. CASE ForeignSend(c)
  <2>1. PICK ch \in Channels, ok \in BOOLEAN : toHost' = SentToHost(c, ch, Message(ok, number[c], 0))
    BY <1>2 DEF ForeignSend
  <2>2. Message(ok, number[c], 0) \in Posts /\ Message(ok, number[c], 0).of = number[c]
    BY DEF Message, Posts, LiveInv, WireInv
  <2>3. WireInv'
    BY <1>2, <2>1, <2>2, WireSent DEF ForeignSend, LiveInv
  <2>4. QED
    BY <1>2, <2>3 DEF ForeignSend, LiveInv, SlotInv, PendingInv, PendingIsLive, hostVars
<1>3. CASE ForeignClose(c)
  BY <1>3, ClientDropsKeeps DEF ForeignClose
<1>4. QED
  BY <1>1, <1>2, <1>3

-----------------------------------------------------------------------------
\* The invariant of the host's slots: peer states and handshakes under way are
\* of the connections that the slots have now (PollConnection).
THEOREM LiveInvHolds == Spec => []LiveInv
<1>1. Init => LiveInv
  BY QuietType DEF Init, LinkInit, HostInit, LiveInv, WireInv, SlotInv, PendingInv, PendingIsLive, NoPeer, PeerStates, Quiet
<1>2. LiveInv /\ [Next]_vars => LiveInv'
  <2> SUFFICES ASSUME LiveInv, [Next]_vars PROVE LiveInv'
    OBVIOUS
  <2>1. CASE UNCHANGED vars
    BY <2>1, SlotUnchanged DEF vars, linkVars, hostVars, slotVars
  <2>2. ASSUME NEW c \in Clients, NetNext(c) PROVE LiveInv'
    BY <2>2, EstablishKeeps, LinkLostKeeps, StateLostKeeps DEF NetNext
  <2>3. QED
    BY <2>1, <2>2, HostKeeps, ClientKeeps, ForeignKeeps DEF Next
<1>3. QED
  BY <1>1, <1>2, PTL DEF Spec

\* The host's m_PendingHandshake never outlives its connection, for any number of
\* slots and connections, whoever makes them (HandleRomHandshake, OnUpdate).
THEOREM PendingStaysLive == Spec => []PendingIsLive
<1>1. LiveInv => PendingIsLive
  BY DEF LiveInv, PendingInv
<1>2. QED
  BY <1>1, LiveInvHolds, PTL

-----------------------------------------------------------------------------
(* Types.  What is sent to a client on the profiles' channel has a version,  *)
(* so that 0 is free to say that the client keeps none.                      *)

Profiles == [ok : BOOLEAN, of : 1..MaxVersions, id : {0, 1}]
Links == [Clients -> [Channels -> Seq(Messages)]]
Requests == Seq([kind : Kinds, of : 0..MaxVersions])

LinkInv ==
  /\ hEnd \in [Clients -> Ends] /\ cEnd \in [Clients -> Ends]
  /\ toHost \in Links /\ toClient \in Links
  /\ \A c \in Clients : toClient[c]["PlayerProfiles"] \in Seq(Profiles)
  /\ number \in [Clients -> Numbers] /\ connects \in Numbers

TypeInv == LinkInv /\ HostTypeOK /\ ClientTypeOK

LEMMA TypeInvImplies == TypeInv => TypeOK
<1> SUFFICES ASSUME TypeInv PROVE LinkTypeOK
  BY DEF TypeInv, TypeOK
<1>1. \A c \in Clients, ch \in Channels : toHost[c][ch] \in Seq(Messages) /\ toClient[c][ch] \in Seq(Messages)
  BY DEF TypeInv, LinkInv, Links
<1>2. QED
  BY <1>1 DEF TypeInv, LinkInv, LinkTypeOK

LEMMA Bounds ==
  /\ MaxConnects \in Nat /\ MaxVersions \in Nat \ {0} /\ MaxOutstanding \in Nat \ {0} /\ MaxOpens \in Nat
  /\ 0 \notin Clients
  /\ \A n \in Numbers, ok \in BOOLEAN, id \in {0, 1} : Message(ok, n, id) \in Messages
  /\ \A v \in 1..MaxVersions, ok \in BOOLEAN, id \in {0, 1} : Message(ok, v, id) \in Messages /\ Message(ok, v, id) \in Profiles
  /\ Profiles \subseteq Messages
  BY LinkAssumption, HostAssumption DEF Message, Messages, Numbers, Profiles

LEMMA QuietLink == Quiet \in [Channels -> Seq(Messages)] /\ Quiet["PlayerProfiles"] \in Seq(Profiles)
  BY DEF Quiet

\* Both for messages on their way to the host and to a client
LEMMA LinkReceived ==
  ASSUME NEW to \in Links, NEW c \in Clients, NEW ch \in Channels, to[c][ch] # << >>
  PROVE  /\ Received(to, c, ch) \in Links
         /\ \A d \in Clients :
              to[d]["PlayerProfiles"] \in Seq(Profiles) => Received(to, c, ch)[d]["PlayerProfiles"] \in Seq(Profiles)
<1>1. to[c][ch] \in Seq(Messages)
  BY DEF Links
<1>2. Tail(to[c][ch]) \in Seq(Messages)
  BY <1>1
<1>3. Received(to, c, ch) \in Links
  BY <1>2 DEF Received, Links
<1>4. ASSUME NEW d \in Clients, to[d]["PlayerProfiles"] \in Seq(Profiles)
      PROVE  Received(to, c, ch)[d]["PlayerProfiles"] \in Seq(Profiles)
  <2>1. CASE d = c /\ ch = "PlayerProfiles"
    <3>1. Received(to, c, ch)[d]["PlayerProfiles"] = Tail(to[d]["PlayerProfiles"])
      BY <2>1 DEF Received, Links
    <3>2. to[d]["PlayerProfiles"] # << >>
      BY <2>1
    <3>3. Tail(to[d]["PlayerProfiles"]) \in Seq(Profiles)
      BY <1>4, <3>2
    <3>4. QED
      BY <3>1, <3>3
  <2>2. CASE ~(d = c /\ ch = "PlayerProfiles")
    <3>1. Received(to, c, ch)[d]["PlayerProfiles"] = to[d]["PlayerProfiles"]
      BY <2>2 DEF Received, Links
    <3>2. QED
      BY <1>4, <3>1
  <2>3. QED
    BY <2>1, <2>2
<1>5. QED
  BY <1>3, <1>4

LEMMA LinkSent ==
  ASSUME NEW to \in Links, NEW ends, NEW peers, NEW ch \in Channels, NEW m \in Messages
  PROVE  /\ Sent(to, ends, peers, ch, m) \in Links
         /\ (ch = "PlayerProfiles" => m \in Profiles) =>
              \A d \in Clients :
                to[d]["PlayerProfiles"] \in Seq(Profiles) => Sent(to, ends, peers, ch, m)[d]["PlayerProfiles"] \in Seq(Profiles)
<1>1. ASSUME NEW d \in Clients
      PROVE  /\ Sent(to, ends, peers, ch, m)[d] \in {to[d], [to[d] EXCEPT ![ch] = Append(@, m)]}
             /\ to[d] \in [Channels -> Seq(Messages)] /\ to[d][ch] \in Seq(Messages)
             /\ [to[d] EXCEPT ![ch] = Append(@, m)] \in [Channels -> Seq(Messages)]
  BY DEF Sent, Links
<1>2. Sent(to, ends, peers, ch, m) \in Links
  BY <1>1 DEF Sent, Links
<1>3. ASSUME ch = "PlayerProfiles" => m \in Profiles, NEW d \in Clients, to[d]["PlayerProfiles"] \in Seq(Profiles)
      PROVE  Sent(to, ends, peers, ch, m)[d]["PlayerProfiles"] \in Seq(Profiles)
  <2>1. CASE Sent(to, ends, peers, ch, m)[d]["PlayerProfiles"] = to[d]["PlayerProfiles"]
    BY <1>3, <2>1
  <2>2. CASE ch = "PlayerProfiles" /\ Sent(to, ends, peers, ch, m)[d]["PlayerProfiles"] = Append(to[d]["PlayerProfiles"], m)
    <3>1. Append(to[d]["PlayerProfiles"], m) \in Seq(Profiles)
      BY <1>3, <2>2
    <3>2. QED
      BY <2>2, <3>1
  <2>3. to[d] \in [Channels -> Seq(Messages)] /\ "PlayerProfiles" \in Channels
    BY <1>1
  <2>4. CASE Sent(to, ends, peers, ch, m)[d] = to[d]
    BY <2>1, <2>4
  <2>5. CASE Sent(to, ends, peers, ch, m)[d] = [to[d] EXCEPT ![ch] = Append(@, m)]
    <3>1. CASE ch = "PlayerProfiles"
      BY <2>2, <2>3, <2>5, <3>1
    <3>2. CASE ch # "PlayerProfiles"
      BY <2>1, <2>3, <2>5, <3>2
    <3>3. QED
      BY <3>1, <3>2
  <2>6. QED
    BY <1>1, <2>4, <2>5
<1>4. QED
  BY <1>2, <1>3

LEMMA HeadIn == ASSUME NEW S, NEW q \in Seq(S), q # << >> PROVE Head(q) \in S
  OBVIOUS

LEMMA TailType ==
  ASSUME NEW q \in Requests, Len(q) <= MaxOutstanding, q # << >>
  PROVE  Tail(q) \in Requests /\ Len(Tail(q)) <= MaxOutstanding
<1>1. Tail(q) \in Requests /\ Len(Tail(q)) = Len(q) - 1 /\ Len(q) \in Nat
  BY DEF Requests
<1>2. QED
  BY <1>1, Bounds

LEMMA OfferType ==
  ASSUME NEW q \in Requests, Len(q) <= MaxOutstanding, NEW kind \in Kinds, NEW of \in 0..MaxVersions
  PROVE  Offer(q, Request(kind, of)) \in Requests /\ Len(Offer(q, Request(kind, of))) <= MaxOutstanding
<1>1. Request(kind, of) \in [kind : Kinds, of : 0..MaxVersions]
  BY DEF Request
<1>2. CASE HasRoom(q)
  <2>1. Offer(q, Request(kind, of)) = Append(q, Request(kind, of))
    BY <1>2 DEF Offer
  <2>2. Append(q, Request(kind, of)) \in Requests /\ Len(Append(q, Request(kind, of))) = Len(q) + 1
    BY <1>1 DEF Requests
  <2>3. Len(q) \in Nat /\ Len(q) < MaxOutstanding
    BY <1>2 DEF HasRoom, Requests
  <2>4. QED
    BY <2>1, <2>2, <2>3, Bounds
<1>3. CASE ~HasRoom(q)
  BY <1>3 DEF Offer
<1>4. QED
  BY <1>2, <1>3

-----------------------------------------------------------------------------
LEMMA LinkSame == ASSUME LinkInv, UNCHANGED linkVars PROVE LinkInv'
  BY DEF LinkInv, linkVars, Links
LEMMA HostSame == ASSUME HostTypeOK, UNCHANGED hostVars PROVE HostTypeOK'
  BY DEF HostTypeOK, hostVars
LEMMA ClientSame == ASSUME ClientTypeOK, UNCHANGED clientVars PROVE ClientTypeOK'
  BY DEF ClientTypeOK, clientVars

LEMMA LinkReceives ==
  ASSUME LinkInv, NEW c \in Clients, NEW ch \in Channels, hEnd' = hEnd, cEnd' = cEnd, UNCHANGED <<number, connects>>,
         \/ toHost[c][ch] # << >> /\ toHost' = Received(toHost, c, ch) /\ UNCHANGED toClient
         \/ toClient[c][ch] # << >> /\ toClient' = Received(toClient, c, ch) /\ UNCHANGED toHost
  PROVE  LinkInv'
<1>1. toHost' \in Links /\ toClient' \in Links /\ \A d \in Clients : toClient'[d]["PlayerProfiles"] \in Seq(Profiles)
  BY LinkReceived DEF LinkInv
<1>2. QED
  BY <1>1 DEF LinkInv, Links

LEMMA DropLink == ASSUME LinkInv, NEW peers \in SUBSET Clients, HostDrops(peers) PROVE LinkInv'
<1>1. PICK told \in SUBSET peers :
        /\ cEnd' = [c \in Clients |-> IF c \in told THEN Lost(cEnd[c]) ELSE cEnd[c]]
        /\ toClient' = [c \in Clients |-> IF c \in told THEN Quiet ELSE toClient[c]]
  BY DEF HostDrops
<1>2. hEnd' \in [Clients -> Ends] /\ cEnd' \in [Clients -> Ends]
  BY <1>1 DEF HostDrops, LinkInv, Lost
<1>3. toHost' \in Links /\ toClient' \in Links /\ \A c \in Clients : toClient'[c]["PlayerProfiles"] \in Seq(Profiles)
  BY <1>1, QuietLink DEF HostDrops, LinkInv, Links
<1>4. QED
  BY <1>2, <1>3 DEF LinkInv, HostDrops, Links

LEMMA ClientDropsLink == ASSUME LinkInv, NEW c \in Clients, ClientDrops(c) PROVE LinkInv'
<1>1. hEnd' \in [Clients -> Ends] /\ cEnd' \in [Clients -> Ends]
  BY DEF ClientDrops, LinkInv, Lost
<1>2. toHost' \in Links /\ toClient' \in Links /\ \A d \in Clients : toClient'[d]["PlayerProfiles"] \in Seq(Profiles)
  BY QuietLink, ZenonT(60) DEF ClientDrops, LinkInv, Links
<1>3. QED
  BY <1>1, <1>2 DEF LinkInv, ClientDrops, Links

LEMMA ConnectLink == ASSUME LinkInv, NEW c \in Clients, Connect(c) PROVE LinkInv'
<1>1. connects' \in Numbers /\ number' \in [Clients -> Numbers]
  BY Bounds DEF Connect, LinkInv, Numbers
<1>2. toHost' \in Links /\ toClient' \in Links /\ \A d \in Clients : toClient'[d]["PlayerProfiles"] \in Seq(Profiles)
  BY QuietLink DEF Connect, LinkInv, Links
<1>3. QED
  BY <1>1, <1>2 DEF Connect, LinkInv, Links

LEMMA NetLink ==
  ASSUME LinkInv, NEW c \in Clients, Establish(c) \/ LinkLost(c) \/ StateLost(c)
  PROVE  LinkInv'
<1>1. CASE Establish(c)
  BY <1>1 DEF Establish, LinkInv, Links
<1>2. CASE LinkLost(c)
  <2>1. hEnd' \in [Clients -> Ends] /\ cEnd' \in [Clients -> Ends]
    BY <1>2 DEF LinkLost, LinkInv, Lost
  <2>2. toHost' \in Links /\ toClient' \in Links /\ \A d \in Clients : toClient'[d]["PlayerProfiles"] \in Seq(Profiles)
    BY <1>2, QuietLink DEF LinkLost, LinkInv, Links
  <2>3. QED
    BY <1>2, <2>1, <2>2 DEF LinkInv, LinkLost, Links
<1>3. CASE StateLost(c)
  BY <1>3, LinkReceives DEF StateLost, Received
<1>4. QED
  BY <1>1, <1>2, <1>3

-----------------------------------------------------------------------------
(* The host's types *)

LEMMA ForgetType ==
  ASSUME HostTypeOK, NEW peers \in SUBSET Clients, ForgetPeers(peers)
  PROVE  hPeers' \in [Clients -> Peers] /\ hPending' \in Clients \cup {0} /\ hHandshake' \in Numbers /\ hData' \in BOOLEAN
<1>1. NoPeer \in Peers
  BY Bounds DEF NoPeer, Peers, Numbers
<1>2. QED
  BY <1>1, Bounds DEF ForgetPeers, HostTypeOK, Numbers

\* The variables that the events of the poll change, and the others
PollOK ==
  /\ hPeers \in [Clients -> Peers] /\ hPending \in Clients \cup {0} /\ hHandshake \in Numbers /\ hData \in BOOLEAN
  /\ hSent \in Requests /\ Len(hSent) <= MaxOutstanding /\ accused \subseteq Numbers
UpdateOK ==
  /\ hState \in {"off", "ConnectionConfirmed", "Connected"} /\ hBefore \in Clients \cup {0} /\ hHad \in BOOLEAN
  /\ hPc \in {"idle", "poll", "act"} /\ hProfiles \in 0..MaxVersions
  /\ hBlob \in RomStates /\ rom \in RomStates /\ opens \in 0..MaxOpens

LEMMA HostParts == HostTypeOK <=> PollOK /\ UpdateOK
  BY DEF HostTypeOK, PollOK, UpdateOK, Requests
LEMMA HostPartsNext == (PollOK /\ UpdateOK)' => HostTypeOK'
  BY DEF HostTypeOK, PollOK, UpdateOK, Requests

LEMMA RejectType ==
  ASSUME TypeInv, NEW c \in Clients, NEW invalid \in BOOLEAN, RejectPeer(c, invalid)
  PROVE  LinkInv' /\ PollOK'
<1>1. LinkInv'
  BY DropLink DEF RejectPeer, TypeInv
<1>2. accused' \subseteq Numbers
  BY DEF RejectPeer, TypeInv, HostTypeOK, LinkInv
<1>3. hSent' \in Requests /\ Len(hSent') <= MaxOutstanding
  BY DEF RejectPeer, TypeInv, HostTypeOK, Requests
<1>4. QED
  BY <1>1, <1>2, <1>3, ForgetType DEF RejectPeer, TypeInv, PollOK

LEMMA OfferedType ==
  ASSUME TypeInv, NEW kind \in Kinds, hSent' = Offer(hSent, Request(kind, 0))
  PROVE  hSent' \in Requests /\ Len(hSent') <= MaxOutstanding
<1>1. hSent \in Requests /\ Len(hSent) <= MaxOutstanding /\ 0 \in 0..MaxVersions
  BY Bounds DEF TypeInv, HostTypeOK, Requests
<1>2. QED
  BY <1>1, OfferType

LEMMA HandshakeType ==
  ASSUME TypeInv, NEW c \in Clients, NEW peer \in Peers, NEW ok \in BOOLEAN, NEW of \in Numbers, NEW ch \in Channels,
         toHost[c][ch] # << >>, HandleRomHandshake(c, peer, ok, of, ch)
  PROVE  LinkInv' /\ PollOK'
<1>1. CASE /\ hPeers' = [hPeers EXCEPT ![c] = peer] /\ hPending' = c /\ hHandshake' = of /\ hData' = ~HasRoom(hSent)
           /\ hSent' = Offer(hSent, Request("handshake", 0))
           /\ toHost' = Received(toHost, c, ch)
           /\ UNCHANGED <<hEnd, cEnd, toClient, number, connects, accused>>
  <2>1. LinkInv'
    BY <1>1, LinkReceives DEF TypeInv
  <2>2. hSent' \in Requests /\ Len(hSent') <= MaxOutstanding
    BY <1>1, OfferedType DEF Kinds
  <2>3. hPeers \in [Clients -> Peers] /\ accused \subseteq Numbers
    BY DEF TypeInv, HostTypeOK
  <2>4. hData' \in BOOLEAN
    BY <1>1
  <2>5. QED
    BY <1>1, <2>1, <2>2, <2>3, <2>4 DEF PollOK
<1>2. CASE RejectPeer(c, ~ok \/ peer.romConnected \/ hPending = c)
  <2>1. (~ok \/ peer.romConnected \/ hPending = c) \in BOOLEAN
    OBVIOUS
  <2>2. QED
    BY <1>2, <2>1, RejectType
<1>3. QED
  BY <1>1, <1>2 DEF HandleRomHandshake

LEMMA HostConnectType == ASSUME TypeInv, NEW c \in Clients, HostConnect(c) PROVE LinkInv' /\ PollOK'
<1>1. NewPeer(number[c]) \in Peers
  <2>1. number[c] \in Numbers /\ 0 \in Numbers
    BY Bounds DEF TypeInv, LinkInv, Numbers
  <2>2. QED
    BY <2>1 DEF NewPeer, NoPeer, Peers
<1>2. PollOK'
  BY <1>1 DEF HostConnect, TypeInv, HostTypeOK, PollOK, Requests
<1>3. Message(Matches(c), 0, 0) \in Messages
  <2>1. 0 \in Numbers /\ Matches(c) \in BOOLEAN
    BY Bounds DEF Numbers, Matches
  <2>2. QED
    BY <2>1, Bounds
<1>4. toClient' \in Links /\ \A d \in Clients : toClient'[d]["PlayerProfiles"] \in Seq(Profiles)
  BY <1>3, LinkSent DEF HostConnect, TypeInv, LinkInv, SentToClients
<1>5. hEnd' \in [Clients -> Ends]
  BY DEF HostConnect, TypeInv, LinkInv
<1>6. QED
  BY <1>2, <1>4, <1>5 DEF HostConnect, TypeInv, LinkInv

\* A slot's peer state changes, or not, with the message that was handled.
LEMMA PeerMovesType ==
  ASSUME TypeInv, NEW c \in Clients, NEW peer \in Peers, NEW ch \in Channels, toHost[c][ch] # << >>,
         hPeers' = [hPeers EXCEPT ![c] = peer], toHost' = Received(toHost, c, ch),
         hSent' \in Requests /\ Len(hSent') <= MaxOutstanding,
         UNCHANGED <<hEnd, cEnd, toClient, number, connects, hPending, hHandshake, hData, accused>>
  PROVE  LinkInv' /\ PollOK'
<1>1. LinkInv'
  BY LinkReceives DEF TypeInv
<1>2. hPeers' \in [Clients -> Peers]
  BY DEF TypeInv, HostTypeOK
<1>3. QED
  BY <1>1, <1>2 DEF TypeInv, HostTypeOK, PollOK

LEMMA SentKept == ASSUME TypeInv, UNCHANGED hSent PROVE hSent' \in Requests /\ Len(hSent') <= MaxOutstanding
  BY DEF TypeInv, HostTypeOK, Requests

LEMMA HostHelloType == ASSUME TypeInv, NEW c \in Clients, HostHello(c) PROVE LinkInv' /\ PollOK'
<1> DEFINE peer == [hPeers[c] EXCEPT !.compatible = TRUE, !.early = 0]
           m == Head(toHost[c]["Control"])
<1>1. toHost[c]["Control"] # << >> /\ "Control" \in Channels
  BY DEF HostHello
<1>2. hPeers[c] \in Peers /\ 0 \in Numbers
  BY Bounds DEF TypeInv, HostTypeOK, Numbers
<1>3. peer \in Peers /\ hPeers[c].early \in Numbers
  BY <1>2 DEF Peers
<1>4. CASE RejectPeer(c, TRUE)
  BY <1>4, RejectType
<1>5. CASE /\ hPeers' = [hPeers EXCEPT ![c] = peer]
           /\ toHost' = Received(toHost, c, "Control")
           /\ UNCHANGED <<hEnd, cEnd, toClient, number, connects, hPending, hHandshake, hData, hSent, accused>>
  <2>1. hSent' \in Requests /\ Len(hSent') <= MaxOutstanding
    BY <1>5, SentKept
  <2> HIDE DEF peer
  <2>2. QED
    BY <1>1, <1>3, <1>5, <2>1, PeerMovesType
<1>6. CASE HandleRomHandshake(c, peer, TRUE, hPeers[c].early, "Control")
  <2> HIDE DEF peer
  <2>1. QED
    BY <1>1, <1>3, <1>6, HandshakeType
<1>7. QED
  BY <1>4, <1>5, <1>6 DEF HostHello

LEMMA HostHandshakeType == ASSUME TypeInv, LiveInv, NEW c \in Clients, HostHandshake(c) PROVE LinkInv' /\ PollOK'
<1> DEFINE m == Head(toHost[c]["Handshake"])
           peer == [hPeers[c] EXCEPT !.early = m.of]
<1>1. toHost[c]["Handshake"] # << >> /\ "Handshake" \in Channels
  BY DEF HostHandshake
<1>2. m \in PostsOf(number[c])
  BY <1>1 DEF LiveInv, WireInv
<1>3. m.of \in Numbers /\ m.ok \in BOOLEAN
  BY <1>2 DEF PostsOf, Posts, TypeInv, LinkInv
<1>4. hPeers[c] \in Peers
  BY DEF TypeInv, HostTypeOK
<1>5. CASE RejectPeer(c, TRUE)
  BY <1>5, RejectType
<1>6. CASE /\ hPeers' = [hPeers EXCEPT ![c].early = m.of]
           /\ toHost' = Received(toHost, c, "Handshake")
           /\ UNCHANGED <<hEnd, cEnd, toClient, number, connects, hPending, hHandshake, hData, hSent, accused>>
  <2>1. hSent' \in Requests /\ Len(hSent') <= MaxOutstanding
    BY <1>6, SentKept
  <2>2. peer \in Peers
    BY <1>3, <1>4 DEF Peers
  <2>3. hPeers' = [hPeers EXCEPT ![c] = peer]
    BY <1>6 DEF TypeInv, HostTypeOK
  <2> HIDE DEF peer
  <2>4. QED
    BY <1>1, <1>6, <2>1, <2>2, <2>3, PeerMovesType
<1>7. CASE HandleRomHandshake(c, hPeers[c], m.ok, m.of, "Handshake")
  BY <1>1, <1>3, <1>4, <1>7, HandshakeType
<1>8. QED
  BY <1>5, <1>6, <1>7 DEF HostHandshake

LEMMA HostGameplayType == ASSUME TypeInv, NEW c \in Clients, NEW ch \in Channels, HostGameplay(c, ch) PROVE LinkInv' /\ PollOK'
<1>1. CASE RejectPeer(c, TRUE)
  BY <1>1, RejectType
<1>2. CASE /\ toHost[c][ch] # << >> /\ hSent' = Offer(hSent, Request("other", 0)) /\ toHost' = Received(toHost, c, ch)
           /\ UNCHANGED <<hEnd, cEnd, toClient, number, connects, hPeers, hPending, hHandshake, hData, accused>>
  <2>1. LinkInv'
    BY <1>2, LinkReceives DEF TypeInv
  <2>2. hSent' \in Requests /\ Len(hSent') <= MaxOutstanding
    BY <1>2, OfferedType DEF Kinds
  <2>3. QED
    BY <1>2, <2>1, <2>2 DEF TypeInv, HostTypeOK, PollOK
<1>3. QED
  BY <1>1, <1>2 DEF HostGameplay

LEMMA HostDisconnectedType == ASSUME TypeInv, NEW c \in Clients, HostDisconnected(c) PROVE LinkInv' /\ PollOK'
<1>1. LinkInv'
  BY DEF HostDisconnected, TypeInv, LinkInv, Links
<1>2. accused' \subseteq Numbers
  BY DEF HostDisconnected, TypeInv, HostTypeOK
<1>3. QED
  BY <1>1, <1>2, ForgetType, SentKept DEF HostDisconnected, TypeInv, PollOK

LEMMA AnswerType == ASSUME TypeInv, AnswerHandshake PROVE LinkInv' /\ PollOK' /\ hProfiles' \in 0..MaxVersions
<1>1. hPending \in Clients
  BY DEF AnswerHandshake, Answers, TypeInv, HostTypeOK
<1>2. PollOK'
  <2>1. hPeers \in [Clients -> Peers] /\ accused \subseteq Numbers /\ hData \in BOOLEAN /\ 0 \in Numbers
    BY Bounds DEF TypeInv, HostTypeOK, Numbers
  <2>2. hPeers' \in [Clients -> Peers]
    BY <1>1, <2>1 DEF AnswerHandshake, Peers
  <2>3. QED
    BY <2>1, <2>2, SentKept DEF AnswerHandshake, PollOK
<1>3. Message(TRUE, 0, hBlob.id) \in Messages
  <2>1. 0 \in Numbers /\ hBlob.id \in {0, 1}
    BY Bounds DEF Numbers, TypeInv, HostTypeOK, RomStates
  <2>2. QED
    BY <2>1, Bounds
<1>4. toClient' \in Links /\ \A d \in Clients : toClient'[d]["PlayerProfiles"] \in Seq(Profiles)
  BY <1>3, LinkSent DEF AnswerHandshake, TypeInv, LinkInv, SentToClients
<1>5. LinkInv'
  BY <1>4 DEF AnswerHandshake, TypeInv, LinkInv
<1>6. hProfiles' \in 0..MaxVersions
  BY Bounds DEF AnswerHandshake
<1>7. QED
  BY <1>2, <1>5, <1>6

LEMMA ConnectedUpdateType ==
  ASSUME TypeInv, HostConnectedUpdate
  PROVE  LinkInv' /\ PollOK' /\ hProfiles' \in 0..MaxVersions
<1> DEFINE peers == {c \in Clients : hPeers[c].compatible /\ hPeers[c].romConnected}
           afterProfiles == IF hProfiles = hBlob.version THEN toClient
                              ELSE SentToClients(toClient, peers, "PlayerProfiles", Message(TRUE, hBlob.version, 0))
           good(to) == to \in Links /\ \A d \in Clients : to[d]["PlayerProfiles"] \in Seq(Profiles)
<1>1. hBlob.version \in 1..MaxVersions
  BY DEF TypeInv, HostTypeOK, RomStates
<1>2. good(toClient)
  BY DEF TypeInv, LinkInv
<1>3. good(afterProfiles)
  <2>1. Message(TRUE, hBlob.version, 0) \in Messages /\ Message(TRUE, hBlob.version, 0) \in Profiles
    BY <1>1, Bounds
  <2>2. good(SentToClients(toClient, peers, "PlayerProfiles", Message(TRUE, hBlob.version, 0)))
    BY <1>2, <2>1, LinkSent DEF SentToClients
  <2>3. QED
    BY <1>2, <2>2
<1>4. good(SentToClients(afterProfiles, peers, "State", Message(TRUE, 0, 0)))
  <2>1. Message(TRUE, 0, 0) \in Messages
    <3>1. 0 \in Numbers
      BY Bounds DEF Numbers
    <3>2. QED
      BY <3>1, Bounds
  <2> HIDE DEF afterProfiles
  <2>2. QED
    BY <1>3, <2>1, LinkSent DEF SentToClients
<1>5. good(toClient')
  BY <1>3, <1>4 DEF HostConnectedUpdate
<1>6. PollOK'
  BY DEF HostConnectedUpdate, TypeInv, HostTypeOK, PollOK, Requests
<1>7. QED
  BY <1>1, <1>5, <1>6, Bounds DEF HostConnectedUpdate, TypeInv, LinkInv

LEMMA HostActType == ASSUME TypeInv, HostAct PROVE LinkInv' /\ HostTypeOK'
<1>1. UpdateOK' <=> hState' \in {"off", "ConnectionConfirmed", "Connected"} /\ hProfiles' \in 0..MaxVersions
  BY DEF HostAct, TypeInv, HostTypeOK, UpdateOK
<1>2. hState \in {"off", "ConnectionConfirmed", "Connected"} /\ hProfiles \in 0..MaxVersions
  BY DEF TypeInv, HostTypeOK
<1>3. CASE AnswerHandshake
  BY <1>1, <1>2, <1>3, AnswerType, HostPartsNext DEF AnswerHandshake
<1>4. CASE RejectAnswer
  <2>1. hPending \in Clients
    BY <1>4 DEF RejectAnswer, Answers, TypeInv, HostTypeOK
  <2>2. QED
    BY <1>1, <1>2, <1>4, <2>1, RejectType, HostPartsNext DEF RejectAnswer
<1>5. CASE ConfirmHost
  <2>1. LinkInv'
    BY <1>5, LinkSame DEF ConfirmHost, TypeInv, linkVars
  <2>2. hSent' \in Requests /\ Len(hSent') <= MaxOutstanding
    BY <1>5, OfferedType DEF ConfirmHost, Kinds
  <2>3. PollOK'
    BY <1>5, <2>2 DEF ConfirmHost, TypeInv, HostTypeOK, PollOK
  <2>4. hState' \in {"off", "ConnectionConfirmed", "Connected"} /\ hProfiles' = hProfiles
    BY <1>2, <1>5 DEF ConfirmHost
  <2>5. QED
    BY <1>1, <1>2, <2>1, <2>3, <2>4, HostPartsNext
<1>6. CASE HostConnectedUpdate
  BY <1>1, <1>2, <1>6, ConnectedUpdateType, HostPartsNext DEF HostConnectedUpdate
<1>7. QED
  BY <1>3, <1>4, <1>5, <1>6 DEF HostAct

LEMMA HostBeginType == ASSUME TypeInv, HostBegin PROVE LinkInv' /\ HostTypeOK'
<1> DEFINE q == Offer(hSent, Request("read", 0))
           submits == hData /\ HasRoom(q)
<1>1. hSent \in Requests /\ Len(hSent) <= MaxOutstanding /\ 0 \in 0..MaxVersions /\ "read" \in Kinds /\ "handshake" \in Kinds
  BY Bounds DEF TypeInv, HostTypeOK, Requests, Kinds
<1>2. q \in Requests /\ Len(q) <= MaxOutstanding
  BY <1>1, OfferType
<1>3. hSent' \in Requests /\ Len(hSent') <= MaxOutstanding
  <2>1. hSent' = q \/ hSent' = Offer(q, Request("handshake", 0))
    BY DEF HostBegin, Offer
  <2> HIDE DEF q
  <2>2. QED
    BY <1>1, <1>2, <2>1, OfferType
<1>4. hData' \in BOOLEAN
  BY DEF HostBegin
<1>5. LinkInv'
  BY LinkSame DEF HostBegin, TypeInv
<1>6. PollOK' /\ UpdateOK'
  BY <1>3, <1>4 DEF HostBegin, TypeInv, HostTypeOK, PollOK, UpdateOK
<1>7. QED
  BY <1>5, <1>6, HostPartsNext

LEMMA HostExecuteType == ASSUME TypeInv, HostExecute PROVE LinkInv' /\ HostTypeOK'
<1>1. LinkInv'
  BY LinkSame DEF HostExecute, TypeInv, linkVars
<1>2. hSent' \in Requests /\ Len(hSent') <= MaxOutstanding
  <2>1. hSent \in Requests /\ Len(hSent) <= MaxOutstanding
    BY DEF TypeInv, HostTypeOK, Requests
  <2>2. QED
    BY <2>1, TailType DEF HostExecute
<1>3. hBlob' \in RomStates /\ rom' \in RomStates
  <2>1. hBlob \in RomStates /\ rom \in RomStates
    BY DEF TypeInv, HostTypeOK
  <2>2. QED
    BY <2>1 DEF HostExecute, RomStates
<1>4. QED
  BY <1>1, <1>2, <1>3, HostPartsNext DEF HostExecute, TypeInv, HostTypeOK, PollOK, UpdateOK

LEMMA RomType == ASSUME TypeInv, RomAnswers \/ RomChangesProfiles PROVE LinkInv' /\ HostTypeOK'
<1>1. LinkInv'
  BY LinkSame DEF RomAnswers, RomChangesProfiles, TypeInv, linkVars
<1>2. rom' \in RomStates
  <2>1. rom \in RomStates
    BY DEF TypeInv, HostTypeOK
  <2>2. CASE RomAnswers
    BY <2>1, <2>2 DEF RomAnswers, RomStates
  <2>3. CASE RomChangesProfiles
    <3>1. rom.version + 1 \in 1..MaxVersions
      BY <2>1, <2>3, Bounds DEF RomChangesProfiles, RomStates
    <3>2. QED
      BY <2>1, <2>3, <3>1 DEF RomChangesProfiles, RomStates
  <2>4. QED
    BY <2>2, <2>3
<1>3. PollOK' /\ UpdateOK'
  BY <1>2 DEF RomAnswers, RomChangesProfiles, TypeInv, HostTypeOK, PollOK, UpdateOK, Requests
<1>4. QED
  BY <1>1, <1>3, HostPartsNext

LEMMA OpenCloseType == ASSUME TypeInv, OpenHostConnection \/ CloseHostConnection PROVE LinkInv' /\ HostTypeOK'
<1>1. CASE OpenHostConnection
  <2>1. opens' \in 0..MaxOpens
    BY <1>1, Bounds DEF OpenHostConnection, TypeInv, HostTypeOK
  <2>2. PollOK' /\ UpdateOK'
    BY <1>1, <2>1 DEF OpenHostConnection, TypeInv, HostTypeOK, PollOK, UpdateOK, Requests
  <2>3. QED
    BY <1>1, <2>2, LinkSame, HostPartsNext DEF OpenHostConnection, TypeInv
<1>2. CASE CloseHostConnection
  <2>1. LinkInv'
    BY <1>2, QuietLink DEF CloseHostConnection, HostResets, TypeInv, LinkInv, Links
  <2>2. hPeers' \in [Clients -> Peers]
    <3>1. NoPeer \in Peers
      BY Bounds DEF NoPeer, Peers, Numbers
    <3>2. QED
      BY <1>2, <3>1 DEF CloseHostConnection
  <2>3. hSent' \in Requests /\ Len(hSent') <= MaxOutstanding
    <3>1. << >> \in Requests /\ Len(<< >>) <= MaxOutstanding
      BY Bounds DEF Requests
    <3>2. hSent \in Requests /\ Len(hSent) <= MaxOutstanding
      BY DEF TypeInv, HostTypeOK, Requests
    <3>3. QED
      BY <1>2, <3>1, <3>2 DEF CloseHostConnection
  <2>4. hHandshake' \in Numbers /\ hProfiles' \in 0..MaxVersions
    BY <1>2, Bounds DEF CloseHostConnection, Numbers
  <2>5. PollOK' /\ UpdateOK'
    BY <1>2, <2>2, <2>3, <2>4 DEF CloseHostConnection, TypeInv, HostTypeOK, PollOK, UpdateOK
  <2>6. QED
    BY <2>1, <2>5, HostPartsNext
<1>3. QED
  BY <1>1, <1>2

LEMMA HostEventType ==
  ASSUME TypeInv, LiveInv, NEW c \in Clients, HostEvent(c) \/ HostGameplayEvent(c)
  PROVE  LinkInv' /\ HostTypeOK'
<1>1. LinkInv' /\ PollOK'
  BY HostConnectType, HostHelloType, HostHandshakeType, HostDisconnectedType, HostGameplayType
     DEF HostEvent, HostGameplayEvent
<1>2. UpdateOK'
  BY DEF HostEvent, HostGameplayEvent, TypeInv, HostTypeOK, UpdateOK
<1>3. QED
  BY <1>1, <1>2, HostPartsNext

LEMMA HostExpireType == ASSUME TypeInv, HostExpire PROVE LinkInv' /\ HostTypeOK'
<1>1. PICK late \in SUBSET {c \in Clients : hPeers[c].known /\ ~hPeers[c].compatible} : ForgetPeers(late) /\ HostDrops(late)
  BY DEF HostExpire
<1>2. LinkInv'
  BY <1>1, DropLink DEF TypeInv
<1>3. PollOK'
  BY <1>1, ForgetType, SentKept DEF HostExpire, TypeInv, HostTypeOK, PollOK
<1>4. UpdateOK'
  BY DEF HostExpire, TypeInv, HostTypeOK, UpdateOK
<1>5. QED
  BY <1>2, <1>3, <1>4, HostPartsNext

LEMMA HostType == ASSUME TypeInv, LiveInv, HostNext PROVE TypeInv'
<1>1. UNCHANGED clientVars
  BY DEF HostNext
<1>2. LinkInv' /\ HostTypeOK'
  BY OpenCloseType, HostBeginType, HostEventType, HostExpireType, HostActType, HostExecuteType, RomType DEF HostNext
<1>3. QED
  BY <1>1, <1>2, ClientSame DEF TypeInv

-----------------------------------------------------------------------------
(* The clients' types *)

Queued(q) == q \in Requests /\ Len(q) <= MaxOutstanding

LEMMA ClientQueued ==
  /\ ClientTypeOK => cSent \in [Clients -> Requests] /\ \A c \in Clients : Queued(cSent[c])
  /\ \A c \in Clients : ClientTypeOK => cSent[c] \in Requests /\ Len(cSent[c]) <= MaxOutstanding
  BY DEF ClientTypeOK, Requests, Queued

\* A client's queue is another one.
LEMMA QueueMoves ==
  ASSUME ClientTypeOK, NEW c \in Clients, NEW q, Queued(q), cSent' = [cSent EXCEPT ![c] = q]
  PROVE  cSent' \in [Clients -> Requests] /\ \A d \in Clients : Len(cSent'[d]) <= MaxOutstanding
<1>1. cSent \in [Clients -> Requests] /\ \A d \in Clients : Len(cSent[d]) <= MaxOutstanding
  BY DEF ClientTypeOK, Requests
<1>2. QED
  BY <1>1 DEF Queued

LEMMA QueueOffer == ASSUME NEW q, Queued(q), NEW kind \in Kinds, NEW of \in 0..MaxVersions PROVE Queued(Offer(q, Request(kind, of)))
  BY OfferType DEF Queued

LEMMA ZeroVersion == 0 \in 0..MaxVersions
  BY Bounds

\* Everything but the queues
ClientRest ==
  /\ cState \in [Clients -> Waiting \cup {"off", "ConnectionConfirmed", "Connected"}]
  /\ cPeer \in [Clients -> [known : BOOLEAN, compatible : BOOLEAN, romConnected : BOOLEAN]]
  /\ cHandshake \in [Clients -> BOOLEAN] /\ cProfiles \in [Clients -> 0..MaxVersions]
  /\ cRemove \in [Clients -> BOOLEAN] /\ cPc \in [Clients -> {"idle", "poll"}] /\ cBlob \in [Clients -> BOOLEAN]
  /\ cRom \in [Clients -> [answered : BOOLEAN, version : 0..MaxVersions]]
  /\ mistaken \subseteq Numbers

LEMMA ClientParts == ClientTypeOK <=> ClientRest /\ (\A c \in Clients : Len(cSent[c]) <= MaxOutstanding) /\ cSent \in [Clients -> Requests]
  BY DEF ClientTypeOK, ClientRest, Requests
LEMMA ClientPartsNext ==
  ClientRest' /\ (\A c \in Clients : Len(cSent'[c]) <= MaxOutstanding) /\ cSent' \in [Clients -> Requests] => ClientTypeOK'
  BY DEF ClientTypeOK, ClientRest, Requests
LEMMA QueuesKept ==
  ASSUME ClientTypeOK, UNCHANGED cSent
  PROVE  cSent' \in [Clients -> Requests] /\ \A c \in Clients : Len(cSent'[c]) <= MaxOutstanding
  BY DEF ClientTypeOK, Requests

LEMMA CloseType ==
  ASSUME ClientTypeOK, NEW c \in Clients, CloseClientConnection(c), UNCHANGED <<cBlob, cRom, mistaken>>,
         cPc' \in [Clients -> {"idle", "poll"}]
  PROVE  ClientRest'
<1>1. ClientRest
  BY ClientParts
<1>2. NoHost \in [known : BOOLEAN, compatible : BOOLEAN, romConnected : BOOLEAN]
  BY DEF NoHost
<1>3. QED
  BY <1>1, <1>2, ZeroVersion DEF ClientRest, CloseClientConnection

LEMMA CloseLink == ASSUME LinkInv, NEW c \in Clients, CloseClientConnection(c), UNCHANGED toHost PROVE LinkInv'
<1>1. toClient' \in Links /\ \A d \in Clients : toClient'[d]["PlayerProfiles"] \in Seq(Profiles)
  BY QuietLink DEF CloseClientConnection, LinkInv, Links
<1>2. QED
  BY <1>1 DEF CloseClientConnection, LinkInv, Links

LEMMA ToHostLink ==
  ASSUME LinkInv, NEW c \in Clients, NEW ch \in Channels, NEW m \in Messages, toHost' = SentToHost(c, ch, m)
  PROVE  toHost' \in Links
  BY LinkSent DEF SentToHost, LinkInv

LEMMA AnswerStepType ==
  ASSUME ClientTypeOK, NEW c \in Clients, NEW q, NEW answer \in BOOLEAN, SubmitAnswer(c, q, answer)
  PROVE  /\ cHandshake' \in [Clients -> BOOLEAN]
         /\ cState' \in [Clients -> Waiting \cup {"off", "ConnectionConfirmed", "Connected"}]
         /\ cPeer' \in [Clients -> [known : BOOLEAN, compatible : BOOLEAN, romConnected : BOOLEAN]]
<1>1. /\ cHandshake \in [Clients -> BOOLEAN]
      /\ cState \in [Clients -> Waiting \cup {"off", "ConnectionConfirmed", "Connected"}]
      /\ cPeer \in [Clients -> [known : BOOLEAN, compatible : BOOLEAN, romConnected : BOOLEAN]]
  BY DEF ClientTypeOK
<1>2. (answer /\ ~(answer /\ HasRoom(q))) \in BOOLEAN
  OBVIOUS
<1>3. cHandshake' \in [Clients -> BOOLEAN]
  BY <1>1, <1>2 DEF SubmitAnswer
<1>4. cState' \in [Clients -> Waiting \cup {"off", "ConnectionConfirmed", "Connected"}]
  BY <1>1 DEF SubmitAnswer
<1>5. cPeer' \in [Clients -> [known : BOOLEAN, compatible : BOOLEAN, romConnected : BOOLEAN]]
  BY <1>1 DEF SubmitAnswer
<1>6. QED
  BY <1>3, <1>4, <1>5

LEMMA ProfilesStepType ==
  ASSUME ClientTypeOK, NEW c \in Clients, NEW q, Queued(q), NEW version \in 0..MaxVersions, SubmitProfiles(c, q, version)
  PROVE  /\ cProfiles' \in [Clients -> 0..MaxVersions]
         /\ cSent' \in [Clients -> Requests] /\ \A d \in Clients : Len(cSent'[d]) <= MaxOutstanding
<1>1. cProfiles' \in [Clients -> 0..MaxVersions]
  BY ZeroVersion DEF SubmitProfiles, ClientTypeOK
<1>2. Queued(IF version = 0 THEN q ELSE Offer(q, Request("profiles", version)))
  BY QueueOffer DEF Kinds
<1>3. QED
  BY <1>1, <1>2, QueueMoves DEF SubmitProfiles

LEMMA AfterAnswerQueued == ASSUME NEW q, Queued(q), NEW answer PROVE Queued(AfterAnswer(q, answer))
  BY QueueOffer, ZeroVersion DEF AfterAnswer, Kinds

LEMMA ClientBeginType == ASSUME TypeInv, NEW c \in Clients, ClientBegin(c) PROVE LinkInv' /\ ClientTypeOK'
<1> DEFINE q == Offer(cSent[c], Request("read", 0))
<1>1. LinkInv'
  BY LinkSame DEF ClientBegin, TypeInv, linkVars
<1>2. ClientTypeOK /\ ClientRest /\ cHandshake[c] \in BOOLEAN /\ cProfiles[c] \in 0..MaxVersions
  BY DEF TypeInv, ClientTypeOK, ClientRest
<1>3. Queued(q) /\ Queued(AfterAnswer(q, cHandshake[c]))
  BY <1>2, ClientQueued, QueueOffer, ZeroVersion, AfterAnswerQueued DEF Kinds
<1>4. /\ cHandshake' \in [Clients -> BOOLEAN]
      /\ cState' \in [Clients -> Waiting \cup {"off", "ConnectionConfirmed", "Connected"}]
      /\ cPeer' \in [Clients -> [known : BOOLEAN, compatible : BOOLEAN, romConnected : BOOLEAN]]
  BY <1>2, AnswerStepType DEF ClientBegin
<1>5. /\ cProfiles' \in [Clients -> 0..MaxVersions]
      /\ cSent' \in [Clients -> Requests] /\ \A d \in Clients : Len(cSent'[d]) <= MaxOutstanding
  <2> HIDE DEF q
  <2>1. SubmitProfiles(c, AfterAnswer(q, cHandshake[c]), cProfiles[c])
    BY DEF ClientBegin, q
  <2>2. QED
    BY <1>2, <1>3, <2>1, ProfilesStepType
<1>6. ClientRest'
  BY <1>2, <1>4, <1>5 DEF ClientBegin, ClientRest
<1>7. QED
  BY <1>1, <1>5, <1>6, ClientPartsNext

LEMMA RejectHostType ==
  ASSUME TypeInv, NEW c \in Clients, NEW invalid, RejectHost(c, invalid), UNCHANGED <<cPc, cBlob, cRom>>
  PROVE  LinkInv' /\ ClientTypeOK'
<1>1. LinkInv'
  BY ClientDropsLink DEF RejectHost, TypeInv
<1>2. ClientTypeOK /\ ClientRest /\ number[c] \in Numbers
  BY DEF TypeInv, ClientTypeOK, ClientRest, LinkInv
<1>3. NoHost \in [known : BOOLEAN, compatible : BOOLEAN, romConnected : BOOLEAN]
  BY DEF NoHost
<1>4. ClientRest'
  BY <1>2, <1>3 DEF ClientRest, RejectHost
<1>5. QED
  BY <1>1, <1>2, <1>4, QueuesKept, ClientPartsNext DEF RejectHost

LEMMA ClientConnectType == ASSUME TypeInv, NEW c \in Clients, ClientConnect(c), UNCHANGED <<cPc, cBlob, cRom>> PROVE LinkInv' /\ ClientTypeOK'
<1>1. ClientTypeOK /\ ClientRest /\ LinkInv
  BY DEF TypeInv, ClientTypeOK, ClientRest
<1>2. Message(Matches(c), 0, 0) \in Messages
  <2>1. 0 \in Numbers /\ Matches(c) \in BOOLEAN
    BY Bounds DEF Numbers, Matches
  <2>2. QED
    BY <2>1, Bounds
<1>3. toHost' \in Links
  BY <1>1, <1>2, ToHostLink DEF ClientConnect
<1>4. LinkInv'
  BY <1>1, <1>3 DEF LinkInv, ClientConnect
<1>5. [NoHost EXCEPT !.known = TRUE] \in [known : BOOLEAN, compatible : BOOLEAN, romConnected : BOOLEAN]
  BY DEF NoHost
<1>6. ClientRest'
  BY <1>1, <1>5 DEF ClientRest, ClientConnect, Waiting
<1>7. QED
  BY <1>1, <1>4, <1>6, QueuesKept, ClientPartsNext DEF ClientConnect

LEMMA ClientHelloType == ASSUME TypeInv, NEW c \in Clients, ClientHello(c), UNCHANGED <<cPc, cBlob, cRom>> PROVE LinkInv' /\ ClientTypeOK'
<1>1. CASE RejectHost(c, TRUE)
  BY <1>1, RejectHostType
<1>2. CASE /\ toClient[c]["Control"] # << >>
           /\ cPeer' = [cPeer EXCEPT ![c].compatible = TRUE]
           /\ cState' = [cState EXCEPT ![c] = IF @ = "AwaitingCompatibility" THEN "AwaitingHandshake" ELSE @]
           /\ toClient' = Received(toClient, c, "Control")
           /\ UNCHANGED <<hEnd, cEnd, toHost, number, connects, cHandshake, cProfiles, cRemove, cSent, mistaken>>
  <2>1. ClientTypeOK /\ ClientRest /\ LinkInv
    BY DEF TypeInv, ClientTypeOK, ClientRest
  <2>2. LinkInv'
    BY <1>2, <2>1, LinkReceives
  <2>3. ClientRest'
    BY <1>2, <2>1, ZenonT(60) DEF ClientRest, Waiting
  <2>4. QED
    BY <1>2, <2>1, <2>2, <2>3, QueuesKept, ClientPartsNext
<1>3. QED
  BY <1>1, <1>2 DEF ClientHello

LEMMA ClientHandshakeType == ASSUME TypeInv, NEW c \in Clients, ClientHandshake(c), UNCHANGED <<cPc, cBlob, cRom>> PROVE LinkInv' /\ ClientTypeOK'
<1>1. CASE RejectHost(c, TRUE)
  BY <1>1, RejectHostType
<1>2. CASE /\ toClient[c]["Handshake"] # << >>
           /\ SubmitAnswer(c, cSent[c], TRUE)
           /\ cSent' = [cSent EXCEPT ![c] = AfterAnswer(@, TRUE)]
           /\ toClient' = Received(toClient, c, "Handshake")
           /\ UNCHANGED <<hEnd, cEnd, toHost, number, connects, cProfiles, cRemove, mistaken>>
  <2>1. ClientTypeOK /\ ClientRest /\ LinkInv
    BY DEF TypeInv, ClientTypeOK, ClientRest
  <2>2. LinkInv'
    BY <1>2, <2>1, LinkReceives
  <2>3. ClientRest'
    BY <1>2, <2>1, AnswerStepType DEF ClientRest
  <2>4. Queued(AfterAnswer(cSent[c], TRUE)) /\ cSent' = [cSent EXCEPT ![c] = AfterAnswer(cSent[c], TRUE)]
    BY <1>2, <2>1, ClientQueued, AfterAnswerQueued
  <2>5. QED
    BY <2>1, <2>2, <2>3, <2>4, QueueMoves, ClientPartsNext
<1>3. QED
  BY <1>1, <1>2 DEF ClientHandshake

LEMMA ClientGameplayType ==
  ASSUME TypeInv, NEW c \in Clients, NEW ch \in Channels, ClientGameplay(c, ch), UNCHANGED <<cPc, cBlob, cRom>>
  PROVE  LinkInv' /\ ClientTypeOK'
<1>1. CASE RejectHost(c, TRUE)
  BY <1>1, RejectHostType
<1>2. CASE /\ \/ ch = "PlayerProfiles" /\ SubmitProfiles(c, cSent[c], Head(toClient[c][ch]).of)
              \/ ch = "State" /\ cSent' = [cSent EXCEPT ![c] = Offer(@, Request("other", 0))] /\ UNCHANGED cProfiles
           /\ toClient' = Received(toClient, c, ch) /\ toClient[c][ch] # << >>
           /\ UNCHANGED <<hEnd, cEnd, toHost, number, connects, cState, cPeer, cHandshake, cRemove, mistaken>>
  <2>1. ClientTypeOK /\ ClientRest /\ LinkInv
    BY DEF TypeInv, ClientTypeOK, ClientRest
  <2>2. LinkInv'
    BY <1>2, <2>1, LinkReceives
  <2>3. /\ cProfiles' \in [Clients -> 0..MaxVersions]
        /\ cSent' \in [Clients -> Requests] /\ \A d \in Clients : Len(cSent'[d]) <= MaxOutstanding
    <3>1. CASE ch = "PlayerProfiles" /\ SubmitProfiles(c, cSent[c], Head(toClient[c][ch]).of)
      <4>1. toClient[c]["PlayerProfiles"] \in Seq(Profiles) /\ toClient[c]["PlayerProfiles"] # << >>
        BY <1>2, <2>1, <3>1 DEF LinkInv
      <4>2. Head(toClient[c]["PlayerProfiles"]) \in Profiles
        BY <4>1
      <4>3. Head(toClient[c]["PlayerProfiles"]).of \in 0..MaxVersions
        BY <4>2 DEF Profiles
      <4>4. QED
        BY <2>1, <3>1, <4>3, ProfilesStepType, ClientQueued
    <3>2. CASE cSent' = [cSent EXCEPT ![c] = Offer(@, Request("other", 0))] /\ UNCHANGED cProfiles
      <4>1. Queued(Offer(cSent[c], Request("other", 0)))
        BY <2>1, ClientQueued, QueueOffer, ZeroVersion DEF Kinds
      <4>2. QED
        BY <2>1, <3>2, <4>1, QueueMoves DEF ClientRest
    <3>3. QED
      BY <1>2, <3>1, <3>2
  <2>4. ClientRest'
    BY <1>2, <2>1, <2>3 DEF ClientRest
  <2>5. QED
    BY <2>2, <2>3, <2>4, ClientPartsNext
<1>3. QED
  BY <1>1, <1>2 DEF ClientGameplay

LEMMA ClientDisconnectedType == ASSUME TypeInv, NEW c \in Clients, ClientDisconnected(c), UNCHANGED <<cPc, cBlob, cRom>> PROVE LinkInv' /\ ClientTypeOK'
<1>1. ClientTypeOK /\ ClientRest /\ LinkInv
  BY DEF TypeInv, ClientTypeOK, ClientRest
<1>2. LinkInv'
  BY <1>1 DEF LinkInv, ClientDisconnected, Links
<1>3. NoHost \in [known : BOOLEAN, compatible : BOOLEAN, romConnected : BOOLEAN] /\ cPeer[c].known \in BOOLEAN
  BY <1>1 DEF NoHost, ClientRest
<1>4. ClientRest'
  BY <1>1, <1>3 DEF ClientRest, ClientDisconnected
<1>5. QED
  BY <1>1, <1>2, <1>4, QueuesKept, ClientPartsNext DEF ClientDisconnected

LEMMA ClientGoesOnType ==
  ASSUME TypeInv, NEW c \in Clients, ClientGoesOn(c), cPc' = [cPc EXCEPT ![c] = "idle"], UNCHANGED <<cBlob, cRom>>
  PROVE  LinkInv' /\ ClientTypeOK'
<1>1. ClientTypeOK /\ ClientRest /\ LinkInv
  BY DEF TypeInv, ClientTypeOK, ClientRest
<1>2. toHost' \in Links
  <2>1. Message(TRUE, number[c], 0) \in Messages /\ Message(TRUE, 0, 0) \in Messages
    <3>1. number[c] \in Numbers /\ 0 \in Numbers
      BY <1>1, Bounds DEF LinkInv, Numbers
    <3>2. QED
      BY <3>1, Bounds
  <2>2. \/ toHost' = toHost \/ toHost' = SentToHost(c, "Handshake", Message(TRUE, number[c], 0))
        \/ toHost' = SentToHost(c, "State", Message(TRUE, 0, 0))
    BY DEF ClientGoesOn
  <2>3. toHost \in Links /\ "Handshake" \in Channels /\ "State" \in Channels
    BY <1>1 DEF LinkInv
  <2>4. QED
    BY <1>1, <2>1, <2>2, <2>3, ToHostLink
<1>3. LinkInv'
  BY <1>1, <1>2 DEF LinkInv, ClientGoesOn
<1>4. cSent' \in [Clients -> Requests] /\ \A d \in Clients : Len(cSent'[d]) <= MaxOutstanding
  <2>1. Queued(cSent[c]) /\ Queued(Offer(cSent[c], Request("other", 0)))
    BY <1>1, ClientQueued, QueueOffer, ZeroVersion DEF Kinds
  <2>2. \E q \in {cSent[c], Offer(cSent[c], Request("other", 0))} : cSent' = [cSent EXCEPT ![c] = q]
    BY DEF ClientGoesOn, Offer
  <2>3. QED
    BY <1>1, <2>1, <2>2, QueueMoves
<1>5. ClientRest'
  BY <1>1 DEF ClientRest, ClientGoesOn, Waiting
<1>6. QED
  BY <1>3, <1>4, <1>5, ClientPartsNext

LEMMA ClientEndType == ASSUME TypeInv, NEW c \in Clients, ClientEnd(c) PROVE LinkInv' /\ ClientTypeOK'
<1>1. ClientTypeOK /\ ClientRest /\ LinkInv
  BY DEF TypeInv, ClientTypeOK, ClientRest
<1>2. cPc' \in [Clients -> {"idle", "poll"}]
  BY <1>1 DEF ClientEnd, ClientRest
<1>3. CASE ClientRemoved(c)
  <2>1. Queued(cSent[c]) /\ Queued(Offer(cSent[c], Request("other", 0)))
    BY <1>1, ClientQueued, QueueOffer, ZeroVersion DEF Kinds
  <2>2. \E q \in {cSent[c], Offer(cSent[c], Request("other", 0))} : cSent' = [cSent EXCEPT ![c] = q]
    BY <1>3 DEF ClientRemoved
  <2>3. cSent' \in [Clients -> Requests] /\ \A d \in Clients : Len(cSent'[d]) <= MaxOutstanding
    BY <1>1, <2>1, <2>2, QueueMoves
  <2>4. LinkInv' /\ ClientRest'
    BY <1>1, <1>2, <1>3, CloseLink, CloseType DEF ClientRemoved, ClientEnd
  <2>5. QED
    BY <2>3, <2>4, ClientPartsNext
<1>4. CASE ClientTimesOut(c)
  BY <1>1, <1>2, <1>4, CloseLink, CloseType, QueuesKept, ClientPartsNext DEF ClientTimesOut, ClientEnd
<1>5. CASE ClientGoesOn(c)
  BY <1>5, ClientGoesOnType DEF ClientEnd
<1>6. QED
  BY <1>3, <1>4, <1>5 DEF ClientEnd

LEMMA ClientDetachedType == ASSUME TypeInv, NEW c \in Clients, ClientDetached(c) PROVE LinkInv' /\ ClientTypeOK'
<1>1. ClientTypeOK /\ LinkInv /\ cPc \in [Clients -> {"idle", "poll"}]
  BY DEF TypeInv, ClientTypeOK
<1>2. LinkInv' /\ ClientRest'
  BY <1>1, CloseLink, CloseType DEF ClientDetached
<1>3. cSent' \in [Clients -> Requests] /\ \A d \in Clients : Len(cSent'[d]) <= MaxOutstanding
  <2>1. Queued(<< >>)
    BY Bounds DEF Queued, Requests
  <2>2. CASE cSent' = cSent
    BY <1>1, <2>2, QueuesKept
  <2>3. CASE cSent' = [cSent EXCEPT ![c] = << >>]
    BY <1>1, <2>1, <2>3, QueueMoves
  <2>4. QED
    BY <2>2, <2>3 DEF ClientDetached
<1>4. QED
  BY <1>2, <1>3, ClientPartsNext

LEMMA ClientExecuteType == ASSUME TypeInv, NEW c \in Clients, ClientExecute(c) PROVE LinkInv' /\ ClientTypeOK'
<1>1. ClientTypeOK /\ ClientRest
  BY DEF TypeInv, ClientTypeOK, ClientRest
<1>2. LinkInv'
  BY LinkSame DEF ClientExecute, TypeInv, linkVars
<1>3. cSent[c] \in Requests /\ cSent[c] # << >> /\ Len(cSent[c]) <= MaxOutstanding
  BY <1>1, ClientQueued DEF ClientExecute
<1>4. Head(cSent[c]).of \in 0..MaxVersions
  <2>1. Head(cSent[c]) \in [kind : Kinds, of : 0..MaxVersions]
    BY <1>3, HeadIn DEF Requests
  <2>2. QED
    BY <2>1
<1>5. Queued(Tail(cSent[c])) /\ cSent' = [cSent EXCEPT ![c] = Tail(cSent[c])]
  BY <1>3, TailType DEF Queued, ClientExecute
<1>6. cRom' \in [Clients -> [answered : BOOLEAN, version : 0..MaxVersions]]
  <2>1. cRom \in [Clients -> [answered : BOOLEAN, version : 0..MaxVersions]]
    BY <1>1 DEF ClientRest
  <2>2. PICK of \in 0..MaxVersions : of = Head(cSent[c]).of
    BY <1>4
  <2>3. cRom[c] \in [answered : BOOLEAN, version : 0..MaxVersions]
    BY <2>1
  <2>4. PICK answer \in [answered : BOOLEAN, version : 0..MaxVersions] : cRom' = [cRom EXCEPT ![c] = answer]
    <3>1. /\ [cRom[c] EXCEPT !.answered = TRUE] \in [answered : BOOLEAN, version : 0..MaxVersions]
          /\ [cRom[c] EXCEPT !.version = of] \in [answered : BOOLEAN, version : 0..MaxVersions]
      BY <2>2, <2>3
    <3>2. \/ cRom' = [cRom EXCEPT ![c] = [cRom[c] EXCEPT !.answered = TRUE]]
          \/ cRom' = [cRom EXCEPT ![c] = [cRom[c] EXCEPT !.version = of]]
          \/ cRom' = [cRom EXCEPT ![c] = cRom[c]]
      BY <2>2 DEF ClientExecute
    <3>3. QED
      BY <2>3, <3>1, <3>2
  <2>5. QED
    BY <2>1, <2>4
<1>7. cBlob' \in [Clients -> BOOLEAN]
  BY <1>1 DEF ClientExecute, ClientRest
<1>8. ClientRest'
  BY <1>1, <1>6, <1>7 DEF ClientExecute, ClientRest
<1>9. QED
  BY <1>1, <1>2, <1>5, <1>8, QueueMoves, ClientPartsNext

LEMMA OpenClientType == ASSUME TypeInv, NEW c \in Clients, OpenClientConnection(c) PROVE LinkInv' /\ ClientTypeOK'
<1>1. ClientTypeOK /\ ClientRest
  BY DEF TypeInv, ClientTypeOK, ClientRest
<1>2. LinkInv'
  BY ConnectLink DEF OpenClientConnection, TypeInv
<1>3. BlankClientRom \in [answered : BOOLEAN, version : 0..MaxVersions]
  BY ZeroVersion DEF BlankClientRom
<1>4. ClientRest'
  BY <1>1, <1>3 DEF OpenClientConnection, ClientRest, Waiting
<1>5. QED
  BY <1>1, <1>2, <1>4, QueuesKept, ClientPartsNext DEF OpenClientConnection

LEMMA ClientType == ASSUME TypeInv, NEW c \in Clients, ClientNext(c) PROVE TypeInv'
<1>1. UNCHANGED hostVars
  BY DEF ClientNext
<1>2. ASSUME ClientEvent(c) PROVE LinkInv' /\ ClientTypeOK'
  BY <1>2, ClientConnectType, ClientHelloType, ClientHandshakeType, ClientDisconnectedType DEF ClientEvent
<1>3. ASSUME ClientGameplayEvent(c) PROVE LinkInv' /\ ClientTypeOK'
  BY <1>3, ClientGameplayType DEF ClientGameplayEvent
<1>4. LinkInv' /\ ClientTypeOK'
  BY <1>2, <1>3, OpenClientType, ClientBeginType, ClientEndType, ClientDetachedType, ClientExecuteType DEF ClientNext
<1>5. QED
  BY <1>1, <1>4, HostSame DEF TypeInv

LEMMA ForeignType ==
  ASSUME TypeInv, NEW c \in Clients, ForeignConnect(c) \/ ForeignSend(c) \/ ForeignClose(c)
  PROVE  TypeInv'
<1>1. UNCHANGED <<hostVars, clientVars>>
  BY DEF ForeignConnect, ForeignSend, ForeignClose
<1>2. LinkInv'
  <2>1. CASE ForeignConnect(c)
    BY <2>1, ConnectLink DEF ForeignConnect, TypeInv
  <2>2. CASE ForeignSend(c)
    <3>1. PICK ch \in Channels, ok \in BOOLEAN : toHost' = SentToHost(c, ch, Message(ok, number[c], 0))
      BY <2>2 DEF ForeignSend
    <3>2. Message(ok, number[c], 0) \in Messages
      <4>1. number[c] \in Numbers
        BY DEF TypeInv, LinkInv
      <4>2. QED
        BY <4>1, Bounds
    <3>3. toHost' \in Links
      BY <3>1, <3>2, ToHostLink DEF TypeInv
    <3>4. QED
      BY <2>2, <3>3 DEF ForeignSend, TypeInv, LinkInv
  <2>3. CASE ForeignClose(c)
    BY <2>3, ClientDropsLink DEF ForeignClose, TypeInv
  <2>4. QED
    BY <2>1, <2>2, <2>3
<1>3. QED
  BY <1>1, <1>2, HostSame, ClientSame DEF TypeInv

\* What the host, the clients and the network hold is what the code's types
\* allow; no queue of memory requests exceeds MaximumOutstandingMemoryRequests.
THEOREM TypeInvHolds == Spec => []TypeInv
<1>1. Init => TypeInv
  <2> SUFFICES ASSUME Init PROVE TypeInv
    OBVIOUS
  <2>1. 0 \in Numbers /\ NoPeer \in Peers /\ BlankRom \in RomStates /\ Queued(<< >>)
    BY Bounds DEF NoPeer, Peers, BlankRom, RomStates, Numbers, Queued, Requests
  <2>2. LinkInv
    BY <2>1, QuietLink DEF Init, LinkInit, LinkInv, Links
  <2>3. HostTypeOK
    <3>1. PollOK
      BY <2>1 DEF Init, HostInit, PollOK, Queued
    <3>2. UpdateOK
      <4>1. 0 \in 0..MaxOpens
        BY Bounds
      <4>2. QED
        BY <2>1, <4>1, ZeroVersion DEF Init, HostInit, UpdateOK
    <3>3. QED
      BY <3>1, <3>2, HostParts
  <2>4. BlankClientRom \in [answered : BOOLEAN, version : 0..MaxVersions]
        /\ NoHost \in [known : BOOLEAN, compatible : BOOLEAN, romConnected : BOOLEAN]
    BY ZeroVersion DEF BlankClientRom, NoHost
  <2>5. ClientTypeOK
    BY <2>1, <2>4, ZeroVersion DEF Init, ClientInit, ClientTypeOK, Waiting, Requests, Queued
  <2>6. QED
    BY <2>2, <2>3, <2>5 DEF TypeInv
<1>2. LiveInv /\ TypeInv /\ [Next]_vars => TypeInv'
  <2> SUFFICES ASSUME LiveInv, TypeInv, [Next]_vars PROVE TypeInv'
    OBVIOUS
  <2>1. CASE UNCHANGED vars
    BY <2>1, LinkSame, HostSame, ClientSame DEF vars, TypeInv
  <2>2. ASSUME NEW c \in Clients, NetNext(c) PROVE TypeInv'
    BY <2>2, NetLink, HostSame, ClientSame DEF NetNext, TypeInv
  <2>3. QED
    BY <2>1, <2>2, HostType, ClientType, ForeignType DEF Next
<1>3. QED
  BY <1>1, <1>2, LiveInvHolds, PTL DEF Spec

\* Every slot, every end of a link and every answer of a game is one that the code
\* can keep, for any number of clients and connections; in particular what the
\* host and the clients have outstanding never passes the transport's limit.
THEOREM TypeHolds == Spec => []TypeOK
<1>1. QED
  BY TypeInvImplies, TypeInvHolds, PTL

-----------------------------------------------------------------------------
(* ConformingAccepted: which messages of an assistant may be under way to    *)
(* the host, given what the host knows of it and how far the client is.      *)

Conforming(c) == number[c] \notin Incompatible \cup Foreign
Unheard(c) == hPeers[c].early = 0 /\ ~hPeers[c].romConnected /\ hPending # c
Joined(c) == hEnd[c] # "connect" /\ (hEnd[c] = "up" => hPeers[c].romConnected)
AllOk(q) == \A i \in 1..Len(q) : q[i].ok
BeforeHandshake == {"Connecting", "AwaitingCompatibility", "AwaitingHandshake"}

SlotOrder(c) ==
  /\ cHandshake[c] => cState[c] = "AwaitingResponse"
  /\ hPeers[c].romConnected => hPeers[c].compatible
  /\ hPeers[c].early # 0 => hPeers[c].known
  /\ cEnd[c] = "connecting" => toHost[c] = Quiet /\ toClient[c] = Quiet
  /\ IsForeign(c) => cState[c] = "off"

\* One hello, and only to a host that has none
HelloOrder(c) ==
  /\ cEnd[c] \in {"connecting", "connect"} =>
       cState[c] = "Connecting" /\ toHost[c]["Control"] = << >> /\ ~hPeers[c].compatible
  /\ toHost[c]["Control"] # << >> =>
       Len(toHost[c]["Control"]) = 1 /\ toHost[c]["Control"][1].ok /\ ~hPeers[c].compatible

\* One ROM handshake, and only to a host that has none
HandshakeOrder(c) ==
  /\ cState[c] \in BeforeHandshake => toHost[c]["Handshake"] = << >> /\ Unheard(c)
  /\ toHost[c]["Handshake"] # << >> =>
       Len(toHost[c]["Handshake"]) = 1 /\ toHost[c]["Handshake"][1].ok /\ Unheard(c)

\* Player state only to a host that has answered
GameplayOrder(c) ==
  /\ toHost[c]["PlayerProfiles"] = << >>
  /\ AllOk(toHost[c]["State"])
  /\ toHost[c]["State"] # << >> => Joined(c)
  /\ cState[c] \in {"ConnectionConfirmed", "Connected"} => Joined(c)
  /\ cHandshake[c] => Joined(c)
  /\ toClient[c]["Handshake"] # << >> => Joined(c)

InOrder(c) == SlotOrder(c) /\ (Conforming(c) => HelloOrder(c) /\ HandshakeOrder(c) /\ GameplayOrder(c))

OrderInv == ConformingAccepted /\ \A c \in Clients : InOrder(c)

-----------------------------------------------------------------------------
\* Messages and connections go away, or the client sees the host's hello.
Calms(c) ==
  /\ hEnd'[c] = hEnd[c] \/ hEnd'[c] \in {"none", "lost"}
  /\ cEnd'[c] = cEnd[c] \/ cEnd'[c] \in {"none", "lost"}
  /\ \/ toHost'[c] \in {toHost[c], Quiet}
     \/ toHost[c]["State"] # << >> /\ toHost'[c] = [toHost[c] EXCEPT !["State"] = Tail(@)]
  /\ toClient'[c]["Handshake"] # << >> => toClient[c]["Handshake"] # << >>
  /\ cEnd'[c] = "connecting" => toClient'[c] \in {toClient[c], Quiet}
  /\ number'[c] = number[c]
  /\ hPeers'[c] = hPeers[c] \/ (hPeers'[c] = NoPeer /\ hEnd'[c] # "up")
  /\ hPending' = c => hPending = c
  /\ \/ cState'[c] = cState[c] /\ cHandshake'[c] = cHandshake[c]
     \/ cState'[c] = "off" /\ ~cHandshake'[c] /\ cEnd'[c] = "none"
     \/ cState[c] = "AwaitingCompatibility" /\ cState'[c] = "AwaitingHandshake" /\ cHandshake'[c] = cHandshake[c]

LEMMA OkTail == ASSUME NEW q \in Seq(Messages), q # << >>, AllOk(q) PROVE AllOk(Tail(q))
<1>1. Len(Tail(q)) = Len(q) - 1 /\ Len(q) \in Nat /\ \A i \in 1..Len(Tail(q)) : Tail(q)[i] = q[i + 1]
  OBVIOUS
<1>2. QED
  BY <1>1 DEF AllOk

LEMMA OkAppend == ASSUME NEW q \in Seq(Messages), NEW m \in Messages, m.ok, AllOk(q) PROVE AllOk(Append(q, m))
<1>1. Len(Append(q, m)) = Len(q) + 1 /\ Len(q) \in Nat
      /\ \A i \in 1..Len(Append(q, m)) : Append(q, m)[i] = IF i <= Len(q) THEN q[i] ELSE m
  OBVIOUS
<1>2. QED
  BY <1>1 DEF AllOk

LEMMA QuietOk == Quiet \in [Channels -> {<< >>}] /\ AllOk(<< >>)
  BY DEF Quiet, AllOk

LEMMA Fewer ==
  ASSUME NEW old \in [Channels -> Seq(Messages)], NEW new,
         \/ new \in {old, Quiet}
         \/ old["State"] # << >> /\ new = [old EXCEPT !["State"] = Tail(@)]
  PROVE  /\ \A ch \in Channels \ {"State"} : new[ch] = old[ch] \/ new[ch] = << >>
         /\ new["State"] # << >> => old["State"] # << >>
         /\ AllOk(old["State"]) => AllOk(new["State"])
         /\ old = Quiet => new = Quiet
<1>1. CASE new = old
  BY <1>1
<1>2. CASE new = Quiet
  <2>1. \A ch \in Channels : new[ch] = << >>
    BY <1>2, QuietOk
  <2>2. QED
    BY <1>2, <2>1, QuietOk
<1>3. CASE old["State"] # << >> /\ new = [old EXCEPT !["State"] = Tail(@)]
  <2>1. new["State"] = Tail(old["State"]) /\ \A ch \in Channels \ {"State"} : new[ch] = old[ch]
    BY <1>3
  <2>2. old # Quiet /\ old["State"] \in Seq(Messages)
    BY <1>3, QuietOk
  <2>3. QED
    BY <1>3, <2>1, <2>2, OkTail
<1>4. QED
  BY <1>1, <1>2, <1>3

LEMMA CalmsKeeps == ASSUME LinkInv, NEW c \in Clients, InOrder(c), Calms(c) PROVE InOrder(c)'
<1>1. toHost[c] \in [Channels -> Seq(Messages)] /\ toHost[c]["State"] \in Seq(Messages)
  BY DEF LinkInv, Links
<1>2. /\ \A ch \in Channels \ {"State"} : toHost'[c][ch] = toHost[c][ch] \/ toHost'[c][ch] = << >>
      /\ toHost'[c]["State"] # << >> => toHost[c]["State"] # << >>
      /\ AllOk(toHost[c]["State"]) => AllOk(toHost'[c]["State"])
      /\ toHost[c] = Quiet => toHost'[c] = Quiet
  BY <1>1, Fewer DEF Calms
<1>3. NoPeer.early = 0 /\ ~NoPeer.romConnected /\ ~NoPeer.compatible
  BY DEF NoPeer
<1>4. SlotOrder(c)'
  <2>1. cEnd'[c] = "connecting" => toHost'[c] = Quiet /\ toClient'[c] = Quiet
    BY <1>2 DEF InOrder, SlotOrder, Calms
  <2>2. QED
    BY <1>3, <2>1 DEF InOrder, SlotOrder, Calms, IsForeign
<1>5. ASSUME Conforming(c)' PROVE (HelloOrder(c) /\ HandshakeOrder(c) /\ GameplayOrder(c))'
  <2>1. HelloOrder(c) /\ HandshakeOrder(c) /\ GameplayOrder(c)
    BY <1>5 DEF InOrder, Conforming, Calms
  <2>2. HelloOrder(c)'
    BY <1>2, <1>3, <2>1 DEF HelloOrder, Calms
  <2>3. Unheard(c) => Unheard(c)'
    BY <1>3 DEF Unheard, Calms
  <2>4. Joined(c) => Joined(c)'
    BY DEF Joined, Calms
  <2>5. HandshakeOrder(c)'
    BY <1>2, <2>1, <2>3 DEF HandshakeOrder, Calms, BeforeHandshake
  <2>6. AllOk(toHost'[c]["State"])
    BY <1>2, <2>1 DEF GameplayOrder
  <2>7. GameplayOrder(c)'
    BY <1>2, <2>1, <2>4, <2>6 DEF GameplayOrder, Calms
  <2>8. QED
    BY <2>2, <2>5, <2>7
<1>6. QED
  BY <1>4, <1>5 DEF InOrder

slotOf(c) == <<hEnd[c], cEnd[c], toHost[c], toClient[c], number[c], hPeers[c], cState[c], cHandshake[c]>>

LEMMA SameCalms ==
  ASSUME NEW c \in Clients, UNCHANGED slotOf(c), hPending' = c => hPending = c
  PROVE  Calms(c)
<1>1. /\ hEnd'[c] = hEnd[c] /\ cEnd'[c] = cEnd[c] /\ toHost'[c] = toHost[c] /\ toClient'[c] = toClient[c]
      /\ number'[c] = number[c] /\ hPeers'[c] = hPeers[c] /\ cState'[c] = cState[c] /\ cHandshake'[c] = cHandshake[c]
  BY DEF slotOf
<1>2. QED
  BY <1>1, Zenon DEF Calms

LEMMA AllCalm ==
  ASSUME LinkInv, OrderInv, ConformingAccepted', \A c \in Clients : Calms(c)
  PROVE  OrderInv'
  BY CalmsKeeps DEF OrderInv

\* One slot goes on, the others are left alone.
LEMMA OneGoesOn ==
  ASSUME LinkInv, OrderInv, ConformingAccepted', NEW c \in Clients, InOrder(c)',
         \A d \in Clients \ {c} : UNCHANGED slotOf(d) /\ (hPending' = d => hPending = d)
  PROVE  OrderInv'
<1>1. ASSUME NEW d \in Clients PROVE InOrder(d)'
  <2>1. CASE d = c
    BY <2>1
  <2>2. CASE d # c
    BY <2>2, SameCalms, CalmsKeeps DEF OrderInv
  <2>3. QED
    BY <2>1, <2>2
<1>2. QED
  BY <1>1 DEF OrderInv

LEMMA AccusedSame == ASSUME OrderInv, UNCHANGED accused PROVE ConformingAccepted'
  BY DEF OrderInv, ConformingAccepted

LEMMA DropCalms ==
  ASSUME LinkInv, OrderInv, ConformingAccepted', NEW peers \in SUBSET Clients, ForgetPeers(peers), HostDrops(peers),
         UNCHANGED clientVars
  PROVE  OrderInv'
<1>1. PICK told \in SUBSET peers :
        /\ cEnd' = [c \in Clients |-> IF c \in told THEN Lost(cEnd[c]) ELSE cEnd[c]]
        /\ toClient' = [c \in Clients |-> IF c \in told THEN Quiet ELSE toClient[c]]
  BY DEF HostDrops
<1>2. ASSUME NEW c \in Clients PROVE Calms(c)
  <2>1. /\ hEnd'[c] = (IF c \in peers THEN "none" ELSE hEnd[c])
        /\ toHost'[c] = (IF c \in peers THEN Quiet ELSE toHost[c])
        /\ hPeers'[c] = (IF c \in peers THEN NoPeer ELSE hPeers[c])
    BY DEF HostDrops, ForgetPeers
  <2>2. /\ cEnd'[c] \in {cEnd[c], Lost(cEnd[c])} /\ toClient'[c] \in {toClient[c], Quiet}
        /\ number' = number /\ hPending' \in {hPending, 0} /\ cState' = cState /\ cHandshake' = cHandshake
    BY <1>1 DEF HostDrops, ForgetPeers, clientVars
  <2>3. Quiet["Handshake"] = << >> /\ c # 0
    BY QuietOk, Bounds
  <2>4. cEnd'[c] = cEnd[c] \/ cEnd'[c] \in {"none", "lost"}
    BY <2>2 DEF Lost
  <2>5. QED
    BY <2>1, <2>2, <2>3, <2>4 DEF Calms
<1>3. QED
  BY <1>2, AllCalm

LEMMA RejectOrder ==
  ASSUME LinkInv, OrderInv, NEW c \in Clients, NEW invalid, RejectPeer(c, invalid), invalid => ~Conforming(c), UNCHANGED clientVars
  PROVE  OrderInv'
<1>1. ConformingAccepted'
  BY DEF OrderInv, ConformingAccepted, RejectPeer, Conforming
<1>2. QED
  BY <1>1, DropCalms DEF RejectPeer

\* The client's end of c goes, perhaps with the host's
LEMMA ClientDropsOrder ==
  ASSUME LinkInv, OrderInv, NEW c \in Clients, ClientDrops(c), UNCHANGED <<hostVars, cState, cHandshake>>
  PROVE  OrderInv'
<1>1. ASSUME NEW d \in Clients PROVE Calms(d)
  <2>1. /\ hEnd'[d] \in {hEnd[d], Lost(hEnd[d])} /\ toHost'[d] \in {toHost[d], Quiet}
        /\ cEnd'[d] = (IF d = c THEN "none" ELSE cEnd[d]) /\ toClient'[d] = (IF d = c THEN Quiet ELSE toClient[d])
        /\ number' = number /\ hPending' = hPending /\ hPeers' = hPeers /\ cState' = cState /\ cHandshake' = cHandshake
    BY DEF ClientDrops, LinkInv, Links, hostVars
  <2>2. Quiet["Handshake"] = << >>
    BY QuietOk
  <2>3. hEnd'[d] = hEnd[d] \/ hEnd'[d] \in {"none", "lost"}
    BY <2>1 DEF Lost
  <2>4. QED
    BY <2>1, <2>2, <2>3 DEF Calms
<1>2. QED
  BY <1>1, AllCalm, AccusedSame DEF hostVars

LEMMA LinkLostOrder ==
  ASSUME LinkInv, OrderInv, NEW c \in Clients, LinkLost(c), UNCHANGED <<hostVars, clientVars>>
  PROVE  OrderInv'
<1>1. ASSUME NEW d \in Clients PROVE Calms(d)
  <2>1. /\ hEnd'[d] \in {hEnd[d], Lost(hEnd[d])} /\ toHost'[d] \in {toHost[d], Quiet}
        /\ cEnd'[d] \in {cEnd[d], Lost(cEnd[d])} /\ toClient'[d] \in {toClient[d], Quiet}
        /\ number' = number /\ hPending' = hPending /\ hPeers' = hPeers /\ cState' = cState /\ cHandshake' = cHandshake
    BY DEF LinkLost, LinkInv, Links, hostVars, clientVars
  <2>2. Quiet["Handshake"] = << >>
    BY QuietOk
  <2>3. (hEnd'[d] = hEnd[d] \/ hEnd'[d] \in {"none", "lost"}) /\ (cEnd'[d] = cEnd[d] \/ cEnd'[d] \in {"none", "lost"})
    BY <2>1 DEF Lost
  <2>4. QED
    BY <2>1, <2>2, <2>3 DEF Calms
<1>2. QED
  BY <1>1, AllCalm, AccusedSame DEF hostVars

\* A message is received, or lost, from a channel to a client.
LEMMA ClientReceivesCalm ==
  ASSUME LinkInv, OrderInv, NEW c \in Clients, NEW ch \in Channels, toClient[c][ch] # << >>, toClient' = Received(toClient, c, ch),
         cEnd[c] # "connecting"
  PROVE  \A d \in Clients : /\ toClient'[d]["Handshake"] # << >> => toClient[d]["Handshake"] # << >>
                            /\ cEnd[d] = "connecting" => toClient'[d] = toClient[d]
  BY DEF Received, LinkInv, Links

LEMMA StateLostOrder ==
  ASSUME LinkInv, OrderInv, NEW c \in Clients, StateLost(c), UNCHANGED <<hostVars, clientVars>>
  PROVE  OrderInv'
<1>1. CASE toHost[c]["State"] # << >> /\ toHost' = [toHost EXCEPT ![c]["State"] = Tail(@)] /\ UNCHANGED toClient
  <2>1. ASSUME NEW d \in Clients PROVE Calms(d)
    <3>1. \/ toHost'[d] = toHost[d]
          \/ toHost[d]["State"] # << >> /\ toHost'[d] = [toHost[d] EXCEPT !["State"] = Tail(@)]
      BY <1>1 DEF LinkInv, Links
    <3>2. QED
      BY <1>1, <3>1 DEF Calms, StateLost, hostVars, clientVars
  <2>2. QED
    BY <2>1, AllCalm, AccusedSame DEF hostVars
<1>2. CASE toClient[c]["State"] # << >> /\ toClient' = Received(toClient, c, "State") /\ UNCHANGED toHost
  <2>1. cEnd[c] # "connecting"
    BY <1>2, QuietOk DEF OrderInv, InOrder, SlotOrder
  <2>2. ASSUME NEW d \in Clients PROVE Calms(d)
    <3>1. /\ toClient'[d]["Handshake"] # << >> => toClient[d]["Handshake"] # << >>
          /\ cEnd[d] = "connecting" => toClient'[d] = toClient[d]
      BY <1>2, <2>1, ClientReceivesCalm
    <3>2. QED
      BY <1>2, <3>1 DEF Calms, StateLost, hostVars, clientVars
  <2>3. QED
    BY <2>2, AllCalm, AccusedSame DEF hostVars
<1>3. QED
  BY <1>1, <1>2 DEF StateLost, Received

\* A new connection, of an assistant or not
LEMMA ConnectOrder ==
  ASSUME TypeInv, LiveInv, OrderInv, NEW c \in Clients, Connect(c), UNCHANGED hostVars,
         \/ cState[c] = "off" /\ connects + 1 \in Foreign /\ UNCHANGED clientVars
         \/ cState' = [cState EXCEPT ![c] = "Connecting"] /\ connects + 1 \notin Foreign /\ cState[c] = "off" /\ UNCHANGED cHandshake
  PROVE  OrderInv'
<1>1. /\ hEnd[c] = "none" /\ hEnd'[c] = "none" /\ cEnd'[c] = "connecting" /\ toHost'[c] = Quiet /\ toClient'[c] = Quiet
      /\ number'[c] = connects + 1 /\ hPeers' = hPeers /\ hPending' = hPending /\ cHandshake'[c] = cHandshake[c]
  BY DEF Connect, TypeInv, LinkInv, Links, hostVars, clientVars
<1>2. ~hPeers[c].known /\ hPeers[c].early = 0 /\ ~hPeers[c].compatible /\ ~hPeers[c].romConnected /\ hPending # c
  <2>1. ~hPeers[c].known /\ ~hPeers[c].compatible
    BY <1>1 DEF LiveInv, SlotInv
  <2>2. hPending # c
    BY <2>1, Bounds DEF LiveInv, PendingInv, PendingIsLive
  <2>3. QED
    BY <2>1, <2>2 DEF OrderInv, InOrder, SlotOrder
<1>3. ~cHandshake[c]
  BY DEF OrderInv, InOrder, SlotOrder
<1>4. \A ch \in Channels : toHost'[c][ch] = << >> /\ toClient'[c][ch] = << >>
  BY <1>1, QuietOk
<1>5. cState'[c] = (IF connects + 1 \in Foreign THEN "off" ELSE "Connecting")
  BY DEF TypeInv, ClientTypeOK, clientVars
<1>6. InOrder(c)'
  <2>1. SlotOrder(c)'
    BY <1>1, <1>2, <1>3, <1>5 DEF SlotOrder, IsForeign
  <2>2. ASSUME Conforming(c)' PROVE (HelloOrder(c) /\ HandshakeOrder(c) /\ GameplayOrder(c))'
    <3>1. cState'[c] = "Connecting"
      BY <1>1, <1>5, <2>2 DEF Conforming
    <3>2. Unheard(c)' /\ AllOk(toHost'[c]["State"])
      BY <1>1, <1>2, <1>4, QuietOk DEF Unheard
    <3>3. QED
      BY <1>1, <1>2, <1>3, <1>4, <3>1, <3>2 DEF HelloOrder, HandshakeOrder, GameplayOrder, BeforeHandshake
  <2>3. QED
    BY <2>1, <2>2 DEF InOrder
<1>7. \A d \in Clients \ {c} : UNCHANGED slotOf(d)
  BY <1>1, ZenonT(60) DEF Connect, TypeInv, LinkInv, Links, slotOf, hostVars, clientVars, ClientTypeOK
<1>8. QED
  BY <1>1, <1>6, <1>7, OneGoesOn, AccusedSame DEF hostVars, TypeInv

LEMMA EstablishOrder ==
  ASSUME TypeInv, LiveInv, OrderInv, NEW c \in Clients, Establish(c), UNCHANGED <<hostVars, clientVars>>
  PROVE  OrderInv'
<1>1. /\ cEnd[c] = "connecting" /\ cEnd'[c] = "connect" /\ hEnd'[c] = "connect"
      /\ UNCHANGED <<toHost, toClient, number, hPeers, hPending, cState, cHandshake>>
  BY DEF Establish, TypeInv, LinkInv, hostVars, clientVars
<1>2. toHost[c] = Quiet /\ toClient[c] = Quiet
  BY <1>1 DEF OrderInv, InOrder, SlotOrder
<1>3. \A ch \in Channels : toHost[c][ch] = << >> /\ toClient[c][ch] = << >>
  BY <1>2, QuietOk
<1>4. InOrder(c)'
  <2>1. SlotOrder(c)'
    BY <1>1 DEF OrderInv, InOrder, SlotOrder, IsForeign
  <2>2. ASSUME Conforming(c)' PROVE (HelloOrder(c) /\ HandshakeOrder(c) /\ GameplayOrder(c))'
    <3>1. HelloOrder(c) /\ HandshakeOrder(c) /\ GameplayOrder(c) /\ SlotOrder(c)
      BY <1>1, <2>2 DEF OrderInv, InOrder, Conforming
    <3>2. cState[c] = "Connecting" /\ ~cHandshake[c]
      BY <1>1, <3>1 DEF HelloOrder, SlotOrder
    <3>3. Unheard(c) => Unheard(c)'
      BY <1>1 DEF Unheard
    <3>4. QED
      BY <1>1, <1>3, <3>1, <3>2, <3>3 DEF HelloOrder, HandshakeOrder, GameplayOrder
  <2>3. QED
    BY <2>1, <2>2 DEF InOrder
<1>5. \A d \in Clients \ {c} : UNCHANGED slotOf(d)
  BY <1>1 DEF Establish, TypeInv, LinkInv, slotOf
<1>6. QED
  BY <1>1, <1>4, <1>5, OneGoesOn, AccusedSame DEF hostVars, TypeInv

-----------------------------------------------------------------------------
(* The host's part in the order *)

\* A message to the host leaves the other channels and clients alone.
LEMMA HostSent ==
  ASSUME NEW ch \in Channels, NEW m, NEW c \in Clients, toHost \in Links
  PROVE  /\ \A other \in Channels \ {ch} : SentToHost(c, ch, m)[c][other] = toHost[c][other]
         /\ \A d \in Clients \ {c} : SentToHost(c, ch, m)[d] = toHost[d]
         /\ hEnd[c] \notin {"connect", "up"} => SentToHost(c, ch, m)[c] = toHost[c]
         /\ \/ SentToHost(c, ch, m)[c][ch] = toHost[c][ch]
            \/ SentToHost(c, ch, m)[c][ch] = Append(toHost[c][ch], m)
<1>1. toHost[c] \in [Channels -> Seq(Messages)]
  BY DEF Links
<1>2. SentToHost(c, ch, m)[c] =
        IF hEnd[c] \in {"connect", "up"} /\ (ch = "State" => Len(toHost[c][ch]) < MaxState)
          THEN [toHost[c] EXCEPT ![ch] = Append(@, m)] ELSE toHost[c]
  BY DEF SentToHost, Sent
<1>3. \A d \in Clients \ {c} : SentToHost(c, ch, m)[d] = toHost[d]
  BY DEF SentToHost, Sent
<1>4. QED
  BY <1>1, <1>2, <1>3

LEMMA ReceivedAt ==
  ASSUME NEW to \in Links, NEW c \in Clients, NEW ch \in Channels
  PROVE  /\ Received(to, c, ch)[c][ch] = Tail(to[c][ch])
         /\ \A other \in Channels \ {ch} : Received(to, c, ch)[c][other] = to[c][other]
         /\ \A d \in Clients \ {c} : Received(to, c, ch)[d] = to[d]
  BY DEF Received, Links

LEMMA NothingIn == ASSUME NEW S, NEW q \in Seq(S), Len(q) = 0 PROVE q = << >>
  OBVIOUS

LEMMA TailOfOne == ASSUME NEW q \in Seq(Messages), Len(q) = 1 PROVE Tail(q) = << >> /\ q # << >> /\ Head(q) = q[1]
<1>1. q # << >>
  <2>1. ASSUME q = << >> PROVE Len(q) = 0
    BY <2>1
  <2>2. QED
    BY <2>1
<1>2. Tail(q) \in Seq(Messages) /\ Len(Tail(q)) = 0
  BY <1>1
<1>3. Tail(q) = << >>
  BY <1>2, NothingIn
<1>4. QED
  BY <1>1, <1>3

\* What holds of a slot whose hello or handshake is being handled
LEMMA SlotFacts ==
  ASSUME TypeInv, LiveInv, OrderInv, NEW c \in Clients
  PROVE  /\ toHost \in Links /\ toClient \in Links /\ hPeers \in [Clients -> Peers]
         /\ hEnd \in [Clients -> Ends] /\ cEnd \in [Clients -> Ends]
         /\ \A ch \in Channels : toHost[c][ch] \in Seq(Messages) /\ toClient[c][ch] \in Seq(Messages)
         /\ SlotOrder(c) /\ (Conforming(c) => HelloOrder(c) /\ HandshakeOrder(c) /\ GameplayOrder(c))
         /\ hEnd[c] \in {"connect", "up", "lost"} => cEnd[c] # "connecting"
         /\ hEnd[c] = "up" => hPeers[c].known
         /\ hPending = c => hPeers[c].compatible /\ hPeers[c].known /\ hEnd[c] \in {"up", "lost"}
<1>1. toHost \in Links /\ toClient \in Links /\ hPeers \in [Clients -> Peers] /\ hEnd \in [Clients -> Ends] /\ cEnd \in [Clients -> Ends]
  BY DEF TypeInv, LinkInv, HostTypeOK
<1>2. \A ch \in Channels : toHost[c][ch] \in Seq(Messages) /\ toClient[c][ch] \in Seq(Messages)
  BY <1>1 DEF Links
<1>3. SlotOrder(c) /\ (Conforming(c) => HelloOrder(c) /\ HandshakeOrder(c) /\ GameplayOrder(c))
  BY DEF OrderInv, InOrder
<1>4. /\ hEnd[c] \in {"connect", "up", "lost"} => cEnd[c] # "connecting"
      /\ hEnd[c] = "up" => hPeers[c].known
  BY DEF LiveInv, SlotInv
<1>5. hPending = c => hPeers[c].compatible /\ hPeers[c].known /\ hEnd[c] \in {"up", "lost"}
  BY Bounds DEF LiveInv, SlotInv, PendingInv, PendingIsLive
<1>6. QED
  BY <1>1, <1>2, <1>3, <1>4, <1>5

LEMMA HostConnectOrder ==
  ASSUME TypeInv, LiveInv, OrderInv, NEW c \in Clients, HostConnect(c), UNCHANGED clientVars
  PROVE  OrderInv'
<1>1. /\ hEnd[c] = "connect" /\ hEnd'[c] = "up" /\ hPeers'[c] = NewPeer(number[c]) /\ hPending' = hPending
      /\ UNCHANGED <<cEnd, toHost, number, cState, cHandshake>>
  BY SlotFacts DEF HostConnect, clientVars
<1>2. NewPeer(number[c]).early = 0 /\ ~NewPeer(number[c]).romConnected /\ ~NewPeer(number[c]).compatible /\ NewPeer(number[c]).known
  BY DEF NewPeer, NoPeer
<1>3. hPending # c /\ cEnd[c] # "connecting"
  BY <1>1, SlotFacts
<1>4. /\ \A d \in Clients \ {c} : toClient'[d] = toClient[d]
      /\ toClient'[c]["Handshake"] = toClient[c]["Handshake"]
  <2>1. toClient' = SentToClients(toClient, {c}, "Control", Message(Matches(c), 0, 0)) /\ toClient \in Links
    BY SlotFacts DEF HostConnect
  <2>2. QED
    BY <2>1 DEF SentToClients, Sent, Links
<1>5. InOrder(c)'
  <2>1. SlotOrder(c)'
    BY <1>1, <1>2, <1>3, SlotFacts DEF SlotOrder, IsForeign
  <2>2. ASSUME Conforming(c)' PROVE (HelloOrder(c) /\ HandshakeOrder(c) /\ GameplayOrder(c))'
    <3>1. HelloOrder(c) /\ HandshakeOrder(c) /\ GameplayOrder(c) /\ SlotOrder(c)
      BY <1>1, <2>2, SlotFacts DEF Conforming
    <3>2. ~Joined(c) /\ Unheard(c)'
      BY <1>1, <1>2, <1>3 DEF Joined, Unheard
    <3>3. QED
      BY <1>1, <1>2, <1>4, <3>1, <3>2 DEF HelloOrder, HandshakeOrder, GameplayOrder
  <2>3. QED
    BY <2>1, <2>2 DEF InOrder
<1>6. \A d \in Clients \ {c} : UNCHANGED slotOf(d)
  BY <1>1, <1>4, SlotFacts DEF HostConnect, slotOf
<1>7. QED
  BY <1>1, <1>5, <1>6, OneGoesOn, AccusedSame DEF TypeInv, HostConnect

\* The message at the head of a channel is the client's only hello or handshake;
\* the host keeps `peer` of the client, or the handshake as the pending one.
LEMMA HandledOrder ==
  ASSUME TypeInv, LiveInv, OrderInv, NEW c \in Clients, NEW ch \in {"Control", "Handshake"}, NEW peer \in PeerStates,
         hEnd[c] = "up", toHost[c][ch] # << >>,
         peer.known, peer.romConnected = hPeers[c].romConnected, peer.romConnected => peer.compatible,
         Conforming(c) =>
           /\ cState[c] \in BeforeHandshake => peer.early = 0 /\ hPending' # c
           /\ toHost[c]["Handshake"] # << >> /\ ch = "Control" => peer.early = 0 /\ hPending' # c
           /\ peer.compatible => ch = "Control" \/ toHost[c]["Control"] = << >>
           /\ peer.compatible => cEnd[c] # "connect",
         hPeers' = [hPeers EXCEPT ![c] = peer], toHost' = Received(toHost, c, ch), hPending' \in {hPending, c},
         UNCHANGED <<hEnd, cEnd, toClient, number, accused, clientVars>>
  PROVE  OrderInv'
<1>1. /\ ch \in Channels /\ toHost'[c][ch] = Tail(toHost[c][ch]) /\ hPeers'[c] = peer
      /\ \A other \in Channels \ {ch} : toHost'[c][other] = toHost[c][other]
      /\ \A d \in Clients \ {c} : toHost'[d] = toHost[d]
      /\ UNCHANGED <<cState, cHandshake>>
  BY SlotFacts, ReceivedAt DEF clientVars
<1>2. cEnd[c] # "connecting"
  BY SlotFacts
<1>3. InOrder(c)'
  <2>1. SlotOrder(c)'
    BY <1>1, <1>2, SlotFacts DEF SlotOrder, IsForeign
  <2>2. ASSUME Conforming(c)' PROVE (HelloOrder(c) /\ HandshakeOrder(c) /\ GameplayOrder(c))'
    <3>1. Conforming(c) /\ HelloOrder(c) /\ HandshakeOrder(c) /\ GameplayOrder(c) /\ SlotOrder(c)
      BY <2>2, SlotFacts DEF Conforming
    <3>2. Len(toHost[c][ch]) = 1
      BY <3>1 DEF HelloOrder, HandshakeOrder
    <3>3. toHost'[c][ch] = << >>
      BY <1>1, <3>2, SlotFacts, TailOfOne
    <3>4. HelloOrder(c)'
      BY <1>1, <1>2, <3>1, <3>3 DEF HelloOrder
    <3>5. HandshakeOrder(c)'
      <4>1. Unheard(c) /\ peer.early = 0 /\ hPending' # c => Unheard(c)'
        BY <1>1 DEF Unheard
      <4>2. toHost'[c]["Handshake"] # << >> => ch = "Control" /\ toHost'[c]["Handshake"] = toHost[c]["Handshake"]
        BY <1>1, <3>3
      <4>3. QED
        BY <1>1, <3>1, <4>1, <4>2 DEF HandshakeOrder
    <3>6. GameplayOrder(c)'
      <4>1. Joined(c) <=> Joined(c)'
        BY <1>1 DEF Joined
      <4>2. toHost'[c]["State"] = toHost[c]["State"] /\ toHost'[c]["PlayerProfiles"] = toHost[c]["PlayerProfiles"]
        BY <1>1
      <4>3. QED
        BY <1>1, <3>1, <4>1, <4>2 DEF GameplayOrder
    <3>7. QED
      BY <3>4, <3>5, <3>6
  <2>3. QED
    BY <2>1, <2>2 DEF InOrder
<1>4. \A d \in Clients \ {c} : UNCHANGED slotOf(d) /\ (hPending' = d => hPending = d)
  BY <1>1, SlotFacts DEF slotOf
<1>5. QED
  BY <1>3, <1>4, OneGoesOn, AccusedSame DEF TypeInv

LEMMA HostHelloOrder ==
  ASSUME TypeInv, LiveInv, OrderInv, NEW c \in Clients, HostHello(c), UNCHANGED clientVars
  PROVE  OrderInv'
<1> DEFINE peer == [hPeers[c] EXCEPT !.compatible = TRUE, !.early = 0]
           m == Head(toHost[c]["Control"])
<1>1. hEnd[c] = "up" /\ toHost[c]["Control"] # << >> /\ hPeers[c] \in PeerStates /\ hPeers[c].known
  BY SlotFacts DEF HostHello, LiveInv, SlotInv
<1>2. /\ peer \in PeerStates /\ peer.known /\ peer.compatible /\ peer.early = 0
      /\ peer.romConnected = hPeers[c].romConnected /\ peer.romConnected \in BOOLEAN
  BY <1>1 DEF PeerStates
<1>3. Conforming(c) => m.ok /\ ~hPeers[c].compatible /\ cEnd[c] # "connect" /\ ~hPeers[c].romConnected
  <2>1. toHost[c]["Control"] \in Seq(Messages)
    BY SlotFacts
  <2>2. QED
    BY <1>1, <2>1, SlotFacts, TailOfOne DEF HelloOrder, SlotOrder
<1>4. CASE (hPeers[c].compatible \/ ~m.ok) /\ RejectPeer(c, TRUE)
  BY <1>3, <1>4, RejectOrder DEF TypeInv
<1>5. CASE /\ ~hPeers[c].compatible /\ m.ok /\ hPeers[c].early = 0
           /\ hPeers' = [hPeers EXCEPT ![c] = peer]
           /\ toHost' = Received(toHost, c, "Control")
           /\ UNCHANGED <<hEnd, cEnd, toClient, number, connects, hPending, hHandshake, hData, hSent, accused>>
  <2>1. hPending' # c /\ hPending' \in {hPending, c}
    BY <1>5, SlotFacts
  <2> HIDE DEF peer, m
  <2>2. QED
    BY <1>1, <1>2, <1>3, <1>5, <2>1, HandledOrder
<1>6. CASE /\ ~hPeers[c].compatible /\ m.ok /\ hPeers[c].early # 0
           /\ HandleRomHandshake(c, peer, TRUE, hPeers[c].early, "Control")
  <2>1. hPending # c
    BY <1>6, SlotFacts
  <2>2. Conforming(c) => cState[c] \notin BeforeHandshake /\ toHost[c]["Handshake"] = << >>
    BY <1>6, SlotFacts DEF HandshakeOrder, Unheard
  <2> HIDE DEF peer, m
  <2>3. CASE /\ hPeers' = [hPeers EXCEPT ![c] = peer] /\ hPending' = c
             /\ toHost' = Received(toHost, c, "Control")
             /\ UNCHANGED <<hEnd, cEnd, toClient, number, connects, accused>>
    BY <1>1, <1>2, <1>3, <2>2, <2>3, HandledOrder
  <2>4. CASE RejectPeer(c, ~TRUE \/ peer.romConnected \/ hPending = c)
    BY <1>2, <1>3, <2>1, <2>4, RejectOrder DEF TypeInv
  <2>5. QED
    BY <1>6, <2>3, <2>4 DEF HandleRomHandshake
<1>7. QED
  BY <1>4, <1>5, <1>6 DEF HostHello

LEMMA HostHandshakeOrder ==
  ASSUME TypeInv, LiveInv, OrderInv, NEW c \in Clients, HostHandshake(c), UNCHANGED clientVars
  PROVE  OrderInv'
<1> DEFINE m == Head(toHost[c]["Handshake"])
           peer == [hPeers[c] EXCEPT !.early = m.of]
<1>1. hEnd[c] = "up" /\ toHost[c]["Handshake"] # << >> /\ hPeers[c] \in PeerStates /\ hPeers[c].known
  BY SlotFacts DEF HostHandshake, LiveInv, SlotInv
<1>2. m.of \in Nat /\ m.ok \in BOOLEAN
  <2>1. m \in PostsOf(number[c])
    BY <1>1 DEF LiveInv, WireInv
  <2>2. QED
    BY <2>1 DEF PostsOf, Posts
<1>3. Conforming(c) => m.ok /\ Unheard(c) /\ cState[c] \notin BeforeHandshake
  <2>1. toHost[c]["Handshake"] \in Seq(Messages)
    BY SlotFacts
  <2>2. QED
    BY <1>1, <2>1, SlotFacts, TailOfOne DEF HandshakeOrder
<1>4. CASE ~hPeers[c].compatible /\ (hPeers[c].early # 0 \/ ~m.ok) /\ RejectPeer(c, TRUE)
  BY <1>3, <1>4, RejectOrder DEF TypeInv, Unheard
<1>5. CASE /\ ~hPeers[c].compatible
           /\ hPeers' = [hPeers EXCEPT ![c].early = m.of]
           /\ toHost' = Received(toHost, c, "Handshake")
           /\ UNCHANGED <<hEnd, cEnd, toClient, number, connects, hPending, hHandshake, hData, hSent, accused>>
  <2>1. peer \in PeerStates /\ peer.known /\ peer.romConnected = hPeers[c].romConnected /\ peer.compatible = hPeers[c].compatible
    BY <1>1, <1>2 DEF PeerStates
  <2>2. hPeers' = [hPeers EXCEPT ![c] = peer]
    BY <1>5, SlotFacts
  <2>3. hPending' \in {hPending, c} /\ (peer.romConnected => peer.compatible)
    BY <1>5, <2>1, SlotFacts DEF SlotOrder
  <2> HIDE DEF peer, m
  <2>4. QED
    BY <1>1, <1>3, <1>5, <2>1, <2>2, <2>3, HandledOrder
<1>6. CASE hPeers[c].compatible /\ HandleRomHandshake(c, hPeers[c], m.ok, m.of, "Handshake")
  <2>1. Conforming(c) => ~hPeers[c].romConnected /\ hPending # c
    BY <1>3 DEF Unheard
  <2>2. Conforming(c) => toHost[c]["Control"] = << >> /\ cEnd[c] # "connect"
    BY <1>6, SlotFacts DEF HelloOrder
  <2> HIDE DEF m
  <2>3. CASE /\ hPeers' = [hPeers EXCEPT ![c] = hPeers[c]] /\ hPending' = c
             /\ toHost' = Received(toHost, c, "Handshake")
             /\ UNCHANGED <<hEnd, cEnd, toClient, number, connects, accused>>
    BY <1>1, <1>3, <1>6, <2>2, <2>3, HandledOrder
  <2>4. CASE RejectPeer(c, ~m.ok \/ hPeers[c].romConnected \/ hPending = c)
    BY <1>3, <2>1, <2>4, RejectOrder DEF TypeInv
  <2>5. QED
    BY <1>6, <2>3, <2>4 DEF HandleRomHandshake
<1>7. QED
  BY <1>4, <1>5, <1>6 DEF HostHandshake

LEMMA HostGameplayOrder ==
  ASSUME TypeInv, LiveInv, OrderInv, NEW c \in Clients, NEW ch \in Channels, HostGameplay(c, ch), UNCHANGED clientVars
  PROVE  OrderInv'
<1> DEFINE m == Head(toHost[c][ch])
           accepts == hPeers[c].romConnected /\ ch = "State" /\ m.ok
<1>1. hEnd[c] = "up" /\ ch \in {"PlayerProfiles", "State"} /\ toHost[c][ch] # << >>
  BY DEF HostGameplay
<1>2. Conforming(c) => accepts
  <2>1. Conforming(c) => ch = "State" /\ Joined(c) /\ AllOk(toHost[c]["State"])
    BY <1>1, SlotFacts DEF GameplayOrder
  <2>2. AllOk(toHost[c][ch]) => m.ok
    <3>1. toHost[c][ch] \in Seq(Messages)
      BY SlotFacts
    <3>2. 1 \in 1..Len(toHost[c][ch]) /\ m = toHost[c][ch][1]
      BY <1>1, <3>1
    <3>3. QED
      BY <3>2 DEF AllOk
  <2>3. QED
    BY <1>1, <2>1, <2>2 DEF Joined
<1>3. CASE ~accepts /\ RejectPeer(c, TRUE)
  BY <1>2, <1>3, RejectOrder DEF TypeInv
<1>4. CASE /\ accepts /\ toHost' = Received(toHost, c, ch)
           /\ UNCHANGED <<hEnd, cEnd, toClient, number, connects, hPeers, hPending, hHandshake, hData, accused>>
  <2>1. ASSUME NEW d \in Clients PROVE Calms(d)
    <3>1. \/ toHost'[d] = toHost[d]
          \/ toHost[d]["State"] # << >> /\ toHost'[d] = [toHost[d] EXCEPT !["State"] = Tail(@)]
      BY <1>1, <1>4, SlotFacts DEF Received, Links
    <3>2. QED
      BY <1>4, <3>1 DEF Calms, clientVars
  <2>2. QED
    BY <1>4, <2>1, AllCalm, AccusedSame DEF TypeInv
<1>5. QED
  BY <1>3, <1>4 DEF HostGameplay

LEMMA HostDisconnectedOrder ==
  ASSUME TypeInv, LiveInv, OrderInv, NEW c \in Clients, HostDisconnected(c), UNCHANGED clientVars
  PROVE  OrderInv'
<1>1. ASSUME NEW d \in Clients PROVE Calms(d)
  <2>1. /\ hEnd'[d] = (IF d = c THEN "none" ELSE hEnd[d]) /\ hPeers'[d] = (IF d = c THEN NoPeer ELSE hPeers[d])
        /\ hPending' \in {hPending, 0} /\ d # 0
        /\ UNCHANGED <<cEnd, toHost, toClient, number, cState, cHandshake>>
    BY SlotFacts, Bounds DEF HostDisconnected, ForgetPeers, clientVars
  <2>2. QED
    BY <2>1 DEF Calms
<1>2. QED
  BY <1>1, AllCalm, AccusedSame DEF TypeInv, HostDisconnected

LEMMA AnswerOrder == ASSUME TypeInv, LiveInv, OrderInv, AnswerHandshake, UNCHANGED clientVars PROVE OrderInv'
<1>1. PICK c \in Clients : c = hPending
  BY DEF AnswerHandshake, Answers, LiveInv, PendingInv
<1>2. hPeers[c].compatible /\ hPeers[c].known /\ hEnd[c] \in {"up", "lost"} /\ cEnd[c] # "connecting"
  BY <1>1, SlotFacts
<1>3. /\ hPeers'[c] = [hPeers[c] EXCEPT !.romConnected = TRUE]
      /\ \A d \in Clients \ {c} : hPeers'[d] = hPeers[d]
      /\ hPending' = 0 /\ 0 \notin Clients
      /\ UNCHANGED <<hEnd, cEnd, toHost, number, cState, cHandshake>>
  BY <1>1, SlotFacts, Bounds DEF AnswerHandshake, clientVars
<1>4. \A d \in Clients \ {c} : toClient'[d] = toClient[d]
  BY <1>1, SlotFacts DEF AnswerHandshake, SentToClients, Sent
<1>5. /\ hPeers'[c].compatible = hPeers[c].compatible /\ hPeers'[c].known = hPeers[c].known
      /\ hPeers'[c].early = hPeers[c].early /\ hPeers'[c].romConnected
  <2>1. hPeers[c] \in Peers
    BY <1>1, SlotFacts
  <2>2. QED
    BY <1>3, <2>1 DEF Peers
<1>6. InOrder(c)'
  <2>1. SlotOrder(c)'
    BY <1>1, <1>2, <1>3, <1>5, SlotFacts DEF SlotOrder, IsForeign
  <2>2. ASSUME Conforming(c)' PROVE (HelloOrder(c) /\ HandshakeOrder(c) /\ GameplayOrder(c))'
    <3>1. Conforming(c) /\ HelloOrder(c) /\ HandshakeOrder(c) /\ GameplayOrder(c) /\ SlotOrder(c)
      BY <1>1, <1>3, <2>2, SlotFacts DEF Conforming
    <3>2. ~Unheard(c) /\ Joined(c)'
      BY <1>1, <1>2, <1>3, <1>5 DEF Unheard, Joined
    <3>3. HelloOrder(c)'
      BY <1>3, <1>5, <3>1 DEF HelloOrder
    <3>4. HandshakeOrder(c)'
      BY <1>3, <3>1, <3>2 DEF HandshakeOrder
    <3>5. GameplayOrder(c)'
      BY <1>3, <3>1, <3>2 DEF GameplayOrder
    <3>6. QED
      BY <3>3, <3>4, <3>5
  <2>3. QED
    BY <2>1, <2>2 DEF InOrder
<1>7. QED
  <2>1. ConformingAccepted' /\ LinkInv
    BY AccusedSame DEF AnswerHandshake, TypeInv
  <2>2. ASSUME NEW d \in Clients PROVE InOrder(d)'
    <3>1. CASE d = c
      BY <1>6, <3>1
    <3>2. CASE d # c
      <4>1. UNCHANGED slotOf(d) /\ (hPending' = d => hPending = d)
        BY <1>3, <1>4, <3>2 DEF slotOf
      <4>2. QED
        BY <2>1, <4>1, SameCalms, CalmsKeeps DEF OrderInv
    <3>3. QED
      BY <3>1, <3>2
  <2>3. QED
    BY <2>1, <2>2 DEF OrderInv

LEMMA ConnectedUpdateOrder ==
  ASSUME TypeInv, LiveInv, OrderInv, HostConnectedUpdate, UNCHANGED clientVars
  PROVE  OrderInv'
<1> DEFINE peers == {c \in Clients : hPeers[c].compatible /\ hPeers[c].romConnected}
           profiles == Message(TRUE, hBlob.version, 0)
           afterProfiles == IF hProfiles = hBlob.version THEN toClient
                              ELSE SentToClients(toClient, peers, "PlayerProfiles", profiles)
           state == Message(TRUE, 0, 0)
<1>1. toClient' = afterProfiles \/ toClient' = SentToClients(afterProfiles, peers, "State", state)
  BY DEF HostConnectedUpdate
<1>2. toClient \in Links /\ afterProfiles \in Links
  <2>1. profiles \in Messages
    <3>1. hBlob.version \in 1..MaxVersions
      BY DEF TypeInv, HostTypeOK, RomStates
    <3>2. QED
      BY <3>1, Bounds
  <2>2. toClient \in Links
    BY DEF TypeInv, LinkInv
  <2>3. SentToClients(toClient, peers, "PlayerProfiles", profiles) \in Links
    BY <2>1, <2>2, LinkSent DEF SentToClients
  <2>4. QED
    BY <2>2, <2>3
<1>3. ASSUME NEW d \in Clients
      PROVE  /\ toClient'[d]["Handshake"] = toClient[d]["Handshake"]
             /\ cEnd[d] = "connecting" => toClient'[d] = toClient[d]
  <2> HIDE DEF profiles, state, peers
  <2>1. /\ afterProfiles[d]["Handshake"] = toClient[d]["Handshake"]
        /\ cEnd[d] = "connecting" => afterProfiles[d] = toClient[d]
    BY <1>2 DEF SentToClients, Sent, Links
  <2> HIDE DEF afterProfiles
  <2>2. /\ SentToClients(afterProfiles, peers, "State", state)[d]["Handshake"] = afterProfiles[d]["Handshake"]
        /\ cEnd[d] = "connecting" => SentToClients(afterProfiles, peers, "State", state)[d] = afterProfiles[d]
    BY <1>2 DEF SentToClients, Sent, Links
  <2>3. QED
    BY <1>1, <2>1, <2>2
<1>4. ASSUME NEW d \in Clients PROVE Calms(d)
  BY <1>3 DEF Calms, HostConnectedUpdate, clientVars
<1>5. QED
  BY <1>4, AllCalm, AccusedSame DEF TypeInv, HostConnectedUpdate

LEMMA CloseHostOrder ==
  ASSUME TypeInv, OrderInv, CloseHostConnection, UNCHANGED clientVars
  PROVE  OrderInv'
<1>1. ASSUME NEW d \in Clients PROVE Calms(d)
  <2>1. hEnd'[d] = "none" /\ toHost'[d] = Quiet /\ hPeers'[d] = NoPeer /\ hPending' = 0 /\ d # 0
        /\ UNCHANGED <<cEnd, toClient, number, cState, cHandshake>>
    BY Bounds DEF CloseHostConnection, HostResets, clientVars
  <2>2. QED
    BY <2>1 DEF Calms
<1>2. QED
  BY <1>1, AllCalm, AccusedSame DEF TypeInv, CloseHostConnection

orderVars == <<hEnd, cEnd, toHost, toClient, number, hPeers, hPending, cState, cHandshake, accused>>

LEMMA OrderSame == ASSUME TypeInv, OrderInv, UNCHANGED orderVars PROVE OrderInv'
<1>1. ASSUME NEW d \in Clients PROVE Calms(d)
  BY DEF orderVars, Calms
<1>2. QED
  BY <1>1, AllCalm, AccusedSame DEF TypeInv, orderVars

LEMMA HostOrder == ASSUME TypeInv, LiveInv, OrderInv, HostNext PROVE OrderInv'
<1>1. UNCHANGED clientVars
  BY DEF HostNext
<1>2. CASE OpenHostConnection \/ HostBegin \/ HostExecute \/ RomAnswers \/ RomChangesProfiles
  <2>1. UNCHANGED orderVars
    BY <1>1, <1>2 DEF OpenHostConnection, HostBegin, HostExecute, RomAnswers, RomChangesProfiles, orderVars, linkVars, clientVars
  <2>2. QED
    BY <2>1, OrderSame
<1>3. ASSUME NEW c \in Clients, HostEvent(c) PROVE OrderInv'
  BY <1>1, <1>3, HostConnectOrder, HostHelloOrder, HostHandshakeOrder, HostDisconnectedOrder DEF HostEvent
<1>4. ASSUME NEW c \in Clients, HostGameplayEvent(c) PROVE OrderInv'
  BY <1>1, <1>4, HostGameplayOrder DEF HostGameplayEvent
<1>5. CASE HostExpire
  <2>1. PICK late \in SUBSET {c \in Clients : hPeers[c].known /\ ~hPeers[c].compatible} : ForgetPeers(late) /\ HostDrops(late)
    BY <1>5 DEF HostExpire
  <2>2. ConformingAccepted' /\ LinkInv
    BY <1>5, AccusedSame DEF HostExpire, TypeInv
  <2>3. QED
    BY <1>1, <2>1, <2>2, DropCalms
<1>6. CASE HostAct
  <2>1. CASE RejectAnswer
    <3>1. hPending \in Clients
      BY <2>1 DEF RejectAnswer, Answers, LiveInv, PendingInv
    <3>2. QED
      BY <1>1, <2>1, <3>1, RejectOrder DEF RejectAnswer, TypeInv
  <2>2. CASE ConfirmHost
    BY <1>1, <2>2, OrderSame DEF ConfirmHost, orderVars, linkVars, clientVars
  <2>3. QED
    BY <1>1, <1>6, <2>1, <2>2, AnswerOrder, ConnectedUpdateOrder DEF HostAct
<1>7. QED
  BY <1>1, <1>2, <1>3, <1>4, <1>5, <1>6, CloseHostOrder DEF HostNext

-----------------------------------------------------------------------------
(* The clients' part in the order *)

LEMMA ClientConnectOrder ==
  ASSUME TypeInv, LiveInv, OrderInv, NEW c \in Clients, ClientConnect(c), UNCHANGED hostVars
  PROVE  OrderInv'
<1> DEFINE m == Message(Matches(c), 0, 0)
<1>1. /\ cEnd[c] = "connect" /\ cEnd'[c] = "up" /\ cState \in [Clients -> Waiting \cup {"off", "ConnectionConfirmed", "Connected"}]
      /\ cState'[c] = (IF cState[c] = "Connecting" THEN "AwaitingCompatibility" ELSE cState[c])
      /\ UNCHANGED <<hEnd, toClient, number, hPeers, hPending, cHandshake, accused>>
  BY SlotFacts DEF ClientConnect, hostVars, TypeInv, ClientTypeOK
<1>2. m.ok = Matches(c)
  BY DEF Message
<1>3. /\ toHost \in Links /\ toHost[c]["Control"] \in Seq(Messages)
      /\ toHost' = SentToHost(c, "Control", m)
  BY SlotFacts DEF ClientConnect
<1> HIDE DEF m
<1>4. /\ \A other \in Channels \ {"Control"} : toHost'[c][other] = toHost[c][other]
      /\ \A d \in Clients \ {c} : toHost'[d] = toHost[d]
      /\ toHost'[c]["Control"] = toHost[c]["Control"] \/ toHost'[c]["Control"] = Append(toHost[c]["Control"], m)
  BY <1>3, HostSent
<1>5. InOrder(c)'
  <2>1. SlotOrder(c)'
    BY <1>1, SlotFacts DEF SlotOrder, IsForeign
  <2>2. ASSUME Conforming(c)' PROVE (HelloOrder(c) /\ HandshakeOrder(c) /\ GameplayOrder(c))'
    <3>1. Conforming(c) /\ HelloOrder(c) /\ HandshakeOrder(c) /\ GameplayOrder(c) /\ SlotOrder(c)
      BY <1>1, <2>2, SlotFacts DEF Conforming
    <3>2. cState[c] = "Connecting" /\ toHost[c]["Control"] = << >> /\ ~hPeers[c].compatible /\ m.ok
      BY <1>1, <1>2, <3>1 DEF HelloOrder, Matches, Conforming
    <3>3. HelloOrder(c)'
      <4>1. Append(<< >>, m) = <<m>> /\ Len(<<m>>) = 1 /\ <<m>>[1] = m
        OBVIOUS
      <4>2. QED
        BY <1>1, <1>4, <3>2, <4>1, ZenonT(60) DEF HelloOrder
    <3>4. Unheard(c) <=> Unheard(c)'
      BY <1>1 DEF Unheard
    <3>5. HandshakeOrder(c)'
      BY <1>1, <1>4, <3>1, <3>2, <3>4 DEF HandshakeOrder, BeforeHandshake
    <3>6. Joined(c) <=> Joined(c)'
      BY <1>1 DEF Joined
    <3>7. GameplayOrder(c)'
      BY <1>1, <1>4, <3>1, <3>2, <3>6 DEF GameplayOrder
    <3>8. QED
      BY <3>3, <3>5, <3>7
  <2>3. QED
    BY <2>1, <2>2 DEF InOrder
<1>6. \A d \in Clients \ {c} : UNCHANGED slotOf(d) /\ (hPending' = d => hPending = d)
  BY <1>1, <1>4, SlotFacts, SMTT(30) DEF ClientConnect, slotOf
<1>7. QED
  BY <1>1, <1>5, <1>6, OneGoesOn, AccusedSame DEF TypeInv

LEMMA SubmitAnswerOrder ==
  ASSUME TypeInv, LiveInv, OrderInv, NEW c \in Clients, NEW q, NEW answer \in BOOLEAN, SubmitAnswer(c, q, answer),
         cHandshake[c] => answer, answer => cState[c] = "AwaitingResponse",
         answer /\ Conforming(c) => Joined(c),
         \A d \in Clients : /\ toClient'[d]["Handshake"] # << >> => toClient[d]["Handshake"] # << >>
                            /\ cEnd[d] = "connecting" => toClient'[d] = toClient[d],
         UNCHANGED <<hEnd, cEnd, toHost, number, hostVars>>
  PROVE  OrderInv'
<1>1. /\ cHandshake'[c] = (answer /\ ~HasRoom(q)) /\ cState'[c] = (IF answer /\ HasRoom(q) THEN "ConnectionConfirmed" ELSE cState[c])
      /\ \A d \in Clients \ {c} : cHandshake'[d] = cHandshake[d] /\ cState'[d] = cState[d]
      /\ UNCHANGED <<hEnd, cEnd, toHost, number, hPeers, hPending, accused>>
  BY DEF SubmitAnswer, TypeInv, ClientTypeOK, hostVars
<1>2. ConformingAccepted' /\ LinkInv
  BY <1>1, AccusedSame DEF TypeInv
<1>3. InOrder(c)'
  <2>1. SlotOrder(c)'
    BY <1>1, SlotFacts, ZenonT(60) DEF SlotOrder, IsForeign
  <2>2. ASSUME Conforming(c)' PROVE (HelloOrder(c) /\ HandshakeOrder(c) /\ GameplayOrder(c))'
    <3>1. Conforming(c) /\ HelloOrder(c) /\ HandshakeOrder(c) /\ GameplayOrder(c) /\ SlotOrder(c)
      BY <1>1, <2>2, SlotFacts DEF Conforming
    <3>2. (Unheard(c) <=> Unheard(c)') /\ (Joined(c) <=> Joined(c)')
      BY <1>1 DEF Unheard, Joined
    <3>3. HelloOrder(c)'
      BY <1>1, <3>1 DEF HelloOrder
    <3>4. HandshakeOrder(c)'
      BY <1>1, <3>1, <3>2 DEF HandshakeOrder, BeforeHandshake
    <3>5. GameplayOrder(c)'
      BY <1>1, <3>1, <3>2 DEF GameplayOrder
    <3>6. QED
      BY <3>3, <3>4, <3>5
  <2>3. QED
    BY <2>1, <2>2 DEF InOrder
<1>4. ASSUME NEW d \in Clients PROVE InOrder(d)'
  <2>1. CASE d = c
    BY <1>3, <2>1
  <2>2. CASE d # c
    <3>1. Calms(d)
      BY <1>1, <2>2 DEF Calms
    <3>2. QED
      BY <1>2, <3>1, CalmsKeeps DEF OrderInv
  <2>3. QED
    BY <2>1, <2>2
<1>5. QED
  BY <1>2, <1>4 DEF OrderInv

LEMMA ClientHandshakeOrder ==
  ASSUME TypeInv, LiveInv, OrderInv, NEW c \in Clients, ClientHandshake(c), UNCHANGED hostVars
  PROVE  OrderInv'
<1>1. CASE RejectHost(c, TRUE)
  BY <1>1, ClientDropsOrder DEF RejectHost, TypeInv
<1>2. CASE /\ cEnd[c] = "up" /\ toClient[c]["Handshake"] # << >> /\ cState[c] = "AwaitingResponse"
           /\ SubmitAnswer(c, cSent[c], TRUE)
           /\ toClient' = Received(toClient, c, "Handshake")
           /\ UNCHANGED <<hEnd, cEnd, toHost, number, connects, cProfiles, cRemove, mistaken>>
  <2>1. Conforming(c) => Joined(c)
    BY <1>2, SlotFacts DEF GameplayOrder
  <2>2. \A d \in Clients : /\ toClient'[d]["Handshake"] # << >> => toClient[d]["Handshake"] # << >>
                           /\ cEnd[d] = "connecting" => toClient'[d] = toClient[d]
    BY <1>2, ClientReceivesCalm DEF TypeInv
  <2>3. QED
    BY <1>2, <2>1, <2>2, SubmitAnswerOrder
<1>3. QED
  BY <1>1, <1>2 DEF ClientHandshake

LEMMA ClientBeginOrder ==
  ASSUME TypeInv, LiveInv, OrderInv, NEW c \in Clients, ClientBegin(c), UNCHANGED hostVars
  PROVE  OrderInv'
<1>1. SubmitAnswer(c, Offer(cSent[c], Request("read", 0)), cHandshake[c]) /\ UNCHANGED linkVars
  BY DEF ClientBegin
<1>2. cHandshake[c] => cState[c] = "AwaitingResponse" /\ (Conforming(c) => Joined(c))
  BY SlotFacts DEF SlotOrder, GameplayOrder
<1>3. cHandshake[c] \in BOOLEAN
  BY DEF TypeInv, ClientTypeOK
<1>4. QED
  BY <1>1, <1>2, <1>3, SubmitAnswerOrder DEF linkVars

\* The client's state does not change, or only by the hello, when it receives.
LEMMA ClientReceivesOrder ==
  ASSUME TypeInv, OrderInv, NEW c \in Clients, NEW ch \in Channels, toClient[c][ch] # << >>, toClient' = Received(toClient, c, ch),
         cEnd[c] = "up",
         cState' \in {cState, [cState EXCEPT ![c] = IF @ = "AwaitingCompatibility" THEN "AwaitingHandshake" ELSE @]},
         UNCHANGED <<hEnd, cEnd, toHost, number, cHandshake, hostVars>>
  PROVE  OrderInv'
<1>1. ASSUME NEW d \in Clients PROVE Calms(d)
  <2>1. /\ toClient'[d]["Handshake"] # << >> => toClient[d]["Handshake"] # << >>
        /\ cEnd[d] = "connecting" => toClient'[d] = toClient[d]
    BY ClientReceivesCalm DEF TypeInv
  <2>2. cState'[d] = cState[d] \/ (cState[d] = "AwaitingCompatibility" /\ cState'[d] = "AwaitingHandshake")
    BY DEF TypeInv, ClientTypeOK
  <2>3. QED
    BY <2>1, <2>2 DEF Calms, hostVars
<1>2. QED
  BY <1>1, AllCalm, AccusedSame DEF TypeInv, hostVars

LEMMA ClientClosesOrder ==
  ASSUME TypeInv, OrderInv, NEW c \in Clients, CloseClientConnection(c), UNCHANGED <<toHost, hostVars>>
  PROVE  OrderInv'
<1>1. ASSUME NEW d \in Clients PROVE Calms(d)
  <2>1. CASE d = c
    <3>1. /\ cState'[d] = "off" /\ ~cHandshake'[d] /\ cEnd'[d] = "none" /\ toClient'[d] = Quiet
      BY <2>1 DEF CloseClientConnection, TypeInv, ClientTypeOK, LinkInv, Links
    <3>2. toClient'[d]["Handshake"] = << >>
      BY <3>1, QuietOk
    <3>3. QED
      BY <3>1, <3>2 DEF Calms, CloseClientConnection, hostVars
  <2>2. CASE d # c
    <3>1. UNCHANGED slotOf(d) /\ hPending' = hPending
      BY <2>2 DEF CloseClientConnection, TypeInv, ClientTypeOK, LinkInv, Links, slotOf, hostVars
    <3>2. QED
      BY <3>1, SameCalms
  <2>3. QED
    BY <2>1, <2>2
<1>2. QED
  BY <1>1, AllCalm, AccusedSame DEF TypeInv, hostVars

LEMMA ClientDisconnectedOrder ==
  ASSUME TypeInv, OrderInv, NEW c \in Clients, ClientDisconnected(c), UNCHANGED hostVars
  PROVE  OrderInv'
<1>1. ASSUME NEW d \in Clients PROVE Calms(d)
  <2>1. cEnd'[d] = cEnd[d] \/ cEnd'[d] = "none"
    BY DEF ClientDisconnected, TypeInv, LinkInv
  <2>2. UNCHANGED <<hEnd, toHost, toClient, number, cState, cHandshake, hPeers, hPending>>
    BY DEF ClientDisconnected, hostVars
  <2>3. QED
    BY <2>1, <2>2 DEF Calms
<1>2. QED
  BY <1>1, AllCalm, AccusedSame DEF TypeInv, hostVars

\* The handshake is sent once, and player state once the client is connected.
LEMMA ClientGoesOnOrder ==
  ASSUME TypeInv, LiveInv, OrderInv, NEW c \in Clients, ClientGoesOn(c), UNCHANGED hostVars
  PROVE  OrderInv'
<1> DEFINE handshake == Message(TRUE, number[c], 0)
           state == Message(TRUE, 0, 0)
           sends == cState[c] = "AwaitingHandshake" /\ cBlob[c]
<1>1. handshake.ok /\ state.ok /\ state \in Messages
  <2>1. 0 \in Numbers
    BY Bounds DEF Numbers
  <2>2. QED
    BY <2>1, Bounds DEF Message
<1>2. /\ cState'[c] = cState[c]
         \/ (cState[c] = "AwaitingHandshake" /\ cState'[c] = "AwaitingResponse")
         \/ (cState[c] = "ConnectionConfirmed" /\ cState'[c] = "Connected")
      /\ \A d \in Clients \ {c} : cState'[d] = cState[d]
      /\ UNCHANGED <<hEnd, cEnd, toClient, number, cHandshake, hPeers, hPending, accused>>
  BY DEF ClientGoesOn, TypeInv, ClientTypeOK, hostVars
<1>3. \/ UNCHANGED toHost
      \/ cState[c] = "AwaitingHandshake" /\ cState'[c] = "AwaitingResponse" /\ toHost' = SentToHost(c, "Handshake", handshake)
      \/ cState[c] = "Connected" /\ cState'[c] = "Connected" /\ toHost' = SentToHost(c, "State", state)
  BY DEF ClientGoesOn, TypeInv, ClientTypeOK
<1> HIDE DEF handshake, state
<1>4. /\ \A d \in Clients \ {c} : toHost'[d] = toHost[d]
      /\ \A ch \in Channels \ {"Handshake", "State"} : toHost'[c][ch] = toHost[c][ch]
      /\ \/ toHost'[c]["Handshake"] = toHost[c]["Handshake"]
         \/ /\ cState[c] = "AwaitingHandshake" /\ cState'[c] = "AwaitingResponse"
            /\ toHost'[c]["Handshake"] = Append(toHost[c]["Handshake"], handshake)
      /\ \/ toHost'[c]["State"] = toHost[c]["State"]
         \/ cState[c] = "Connected" /\ toHost'[c]["State"] = Append(toHost[c]["State"], state)
      /\ hEnd[c] = "none" => toHost'[c] = toHost[c]
  <2>1. toHost \in Links /\ "Handshake" \in Channels /\ "State" \in Channels
    BY SlotFacts
  <2>2. CASE UNCHANGED toHost
    BY <2>2
  <2>3. CASE cState[c] = "AwaitingHandshake" /\ cState'[c] = "AwaitingResponse" /\ toHost' = SentToHost(c, "Handshake", handshake)
    BY <2>1, <2>3, HostSent, SMTT(30)
  <2>4. CASE cState[c] = "Connected" /\ toHost' = SentToHost(c, "State", state)
    BY <2>1, <2>4, HostSent, SMTT(30)
  <2>5. QED
    BY <1>3, <2>2, <2>3, <2>4
<1>5. cEnd[c] = "connecting" => hEnd[c] = "none"
  BY DEF LiveInv, SlotInv
<1>6. InOrder(c)'
  <2>1. SlotOrder(c)'
    BY <1>2, <1>4, <1>5, SlotFacts DEF SlotOrder, IsForeign
  <2>2. ASSUME Conforming(c)' PROVE (HelloOrder(c) /\ HandshakeOrder(c) /\ GameplayOrder(c))'
    <3>1. Conforming(c) /\ HelloOrder(c) /\ HandshakeOrder(c) /\ GameplayOrder(c) /\ SlotOrder(c)
      BY <1>2, <2>2, SlotFacts DEF Conforming
    <3>2. (Unheard(c) <=> Unheard(c)') /\ (Joined(c) <=> Joined(c)')
      BY <1>2 DEF Unheard, Joined
    <3>3. HelloOrder(c)'
      BY <1>2, <1>4, <3>1, SMTT(30) DEF HelloOrder
    <3>4. HandshakeOrder(c)'
      <4>1. Append(<< >>, handshake) = <<handshake>> /\ Len(<<handshake>>) = 1 /\ <<handshake>>[1] = handshake
        OBVIOUS
      <4>2. CASE toHost'[c]["Handshake"] = toHost[c]["Handshake"]
        BY <1>2, <3>1, <3>2, <4>2 DEF HandshakeOrder, BeforeHandshake
      <4>3. CASE /\ cState[c] = "AwaitingHandshake" /\ cState'[c] = "AwaitingResponse"
                 /\ toHost'[c]["Handshake"] = Append(toHost[c]["Handshake"], handshake)
        BY <1>1, <3>1, <3>2, <4>1, <4>3 DEF HandshakeOrder, BeforeHandshake
      <4>4. QED
        BY <1>4, <4>2, <4>3
    <3>5. GameplayOrder(c)'
      <4>1. AllOk(toHost'[c]["State"])
        BY <1>1, <1>4, <3>1, SlotFacts, OkAppend, ZenonT(60) DEF GameplayOrder
      <4>2. toHost'[c]["State"] # << >> => Joined(c)
        BY <1>4, <3>1 DEF GameplayOrder
      <4>3. toHost'[c]["PlayerProfiles"] = toHost[c]["PlayerProfiles"]
        BY <1>4
      <4>4. QED
        BY <1>2, <3>1, <3>2, <4>1, <4>2, <4>3 DEF GameplayOrder
    <3>6. QED
      BY <3>3, <3>4, <3>5
  <2>3. QED
    BY <2>1, <2>2 DEF InOrder
<1>7. \A d \in Clients \ {c} : UNCHANGED slotOf(d) /\ (hPending' = d => hPending = d)
  BY <1>2, <1>4 DEF slotOf
<1>8. QED
  BY <1>2, <1>6, <1>7, OneGoesOn, AccusedSame DEF TypeInv

LEMMA ClientEventOrder ==
  ASSUME TypeInv, LiveInv, OrderInv, NEW c \in Clients, ClientEvent(c) \/ ClientGameplayEvent(c), UNCHANGED hostVars
  PROVE  OrderInv'
<1>1. CASE ClientHello(c)
  <2>1. CASE RejectHost(c, TRUE)
    BY <2>1, ClientDropsOrder DEF RejectHost, TypeInv
  <2>2. CASE ~RejectHost(c, TRUE)
    BY <1>1, <2>2, ClientReceivesOrder DEF ClientHello
  <2>3. QED
    BY <2>1, <2>2
<1>2. ASSUME NEW ch \in Channels, ClientGameplay(c, ch) PROVE OrderInv'
  <2>1. CASE RejectHost(c, TRUE)
    BY <2>1, ClientDropsOrder DEF RejectHost, TypeInv
  <2>2. CASE ~RejectHost(c, TRUE)
    BY <1>2, <2>2, ClientReceivesOrder DEF ClientGameplay
  <2>3. QED
    BY <2>1, <2>2
<1>3. QED
  BY <1>1, <1>2, ClientConnectOrder, ClientHandshakeOrder, ClientDisconnectedOrder DEF ClientEvent, ClientGameplayEvent

LEMMA ClientOrder == ASSUME TypeInv, LiveInv, OrderInv, NEW c \in Clients, ClientNext(c) PROVE OrderInv'
<1>1. UNCHANGED hostVars
  BY DEF ClientNext
<1>2. CASE OpenClientConnection(c)
  BY <1>1, <1>2, ConnectOrder DEF OpenClientConnection
<1>3. CASE ClientEnd(c)
  <2>1. CASE ClientRemoved(c) \/ ClientTimesOut(c)
    BY <1>1, <2>1, ClientClosesOrder DEF ClientRemoved, ClientTimesOut
  <2>2. QED
    BY <1>1, <1>3, <2>1, ClientGoesOnOrder DEF ClientEnd
<1>4. CASE ClientDetached(c)
  BY <1>1, <1>4, ClientClosesOrder DEF ClientDetached
<1>5. CASE ClientExecute(c)
  BY <1>1, <1>5, OrderSame DEF ClientExecute, orderVars, linkVars, hostVars
<1>6. QED
  BY <1>1, <1>2, <1>3, <1>4, <1>5, ClientBeginOrder, ClientEventOrder DEF ClientNext

LEMMA ForeignOrder ==
  ASSUME TypeInv, LiveInv, OrderInv, NEW c \in Clients, ForeignConnect(c) \/ ForeignSend(c) \/ ForeignClose(c)
  PROVE  OrderInv'
<1>1. UNCHANGED <<hostVars, clientVars>>
  BY DEF ForeignConnect, ForeignSend, ForeignClose
<1>2. CASE ForeignConnect(c)
  BY <1>1, <1>2, ConnectOrder DEF ForeignConnect
<1>3. CASE ForeignSend(c)
  <2>1. PICK ch \in Channels, ok \in BOOLEAN : toHost' = SentToHost(c, ch, Message(ok, number[c], 0))
    BY <1>3 DEF ForeignSend
  <2>2. \A d \in Clients \ {c} : toHost'[d] = toHost[d]
    BY <2>1 DEF SentToHost, Sent
  <2>3. /\ number[c] \in Foreign /\ cEnd[c] # "connecting"
        /\ UNCHANGED <<hEnd, cEnd, toClient, number, hPeers, hPending, cState, cHandshake, accused>>
    BY <1>1, <1>3 DEF ForeignSend, IsForeign, hostVars, clientVars
  <2>4. InOrder(c)'
    BY <2>3, SlotFacts DEF InOrder, SlotOrder, Conforming, IsForeign
  <2>5. \A d \in Clients \ {c} : UNCHANGED slotOf(d) /\ (hPending' = d => hPending = d)
    BY <2>2, <2>3 DEF slotOf
  <2>6. QED
    BY <2>3, <2>4, <2>5, OneGoesOn, AccusedSame DEF TypeInv
<1>4. CASE ForeignClose(c)
  BY <1>1, <1>4, ClientDropsOrder DEF ForeignClose, TypeInv, clientVars
<1>5. QED
  BY <1>2, <1>3, <1>4

\* Hello, handshake and player state of an assistant reach the host in an order
\* the host accepts, although their channels overtake each other.
THEOREM OrderInvHolds == Spec => []OrderInv
<1>1. Init => OrderInv
  <2> SUFFICES ASSUME Init PROVE OrderInv
    OBVIOUS
  <2>1. ConformingAccepted
    BY DEF Init, HostInit, ConformingAccepted
  <2>2. ASSUME NEW c \in Clients PROVE InOrder(c)
    <3>1. /\ hEnd[c] = "none" /\ cEnd[c] = "none" /\ toHost[c] = Quiet /\ toClient[c] = Quiet /\ number[c] = 0
          /\ hPeers[c] = NoPeer /\ hPending = 0 /\ cState[c] = "off" /\ ~cHandshake[c] /\ c # 0
      BY Bounds DEF Init, LinkInit, HostInit, ClientInit
    <3>2. \A ch \in Channels : toHost[c][ch] = << >> /\ toClient[c][ch] = << >>
      BY <3>1, QuietOk
    <3>3. SlotOrder(c) /\ HelloOrder(c) /\ HandshakeOrder(c) /\ GameplayOrder(c)
      BY <3>1, <3>2, QuietOk DEF SlotOrder, HelloOrder, HandshakeOrder, GameplayOrder, NoPeer, BeforeHandshake
    <3>4. QED
      BY <3>3 DEF InOrder
  <2>3. QED
    BY <2>1, <2>2 DEF OrderInv
<1>2. TypeInv /\ LiveInv /\ OrderInv /\ [Next]_vars => OrderInv'
  <2> SUFFICES ASSUME TypeInv, LiveInv, OrderInv, [Next]_vars PROVE OrderInv'
    OBVIOUS
  <2>1. CASE UNCHANGED vars
    BY <2>1, OrderSame DEF vars, linkVars, hostVars, clientVars, orderVars
  <2>2. ASSUME NEW c \in Clients, NetNext(c) PROVE OrderInv'
    BY <2>2, EstablishOrder, LinkLostOrder, StateLostOrder DEF NetNext, TypeInv
  <2>3. QED
    BY <2>1, <2>2, HostOrder, ClientOrder, ForeignOrder DEF Next
<1>3. QED
  BY <1>1, <1>2, TypeInvHolds, LiveInvHolds, PTL DEF Spec

\* The host disconnects no client that keeps to the protocol for what it sent or
\* for when it sent it (HandleControl, HandleRomHandshake, HandleGameplay), however
\* the channels race.
THEOREM ConformingIsAccepted == Spec => []ConformingAccepted
<1>1. OrderInv => ConformingAccepted
  BY DEF OrderInv
<1>2. QED
  BY <1>1, OrderInvHolds, PTL

-----------------------------------------------------------------------------
(* ProfilesKept: the profiles that the host has sent last are the last on    *)
(* their way through the channel, m_PendingPlayerProfiles and the bridge.    *)

IsProfiles(r) == r.kind = "profiles"

\* A game that has version b has version v when its requests q have run.
Leaves(q, b, v) ==
  \/ b = v /\ \A i \in 1..Len(q) : ~IsProfiles(q[i])
  \/ \E i \in 1..Len(q) : IsProfiles(q[i]) /\ q[i].of = v /\ \A j \in (i + 1)..Len(q) : ~IsProfiles(q[j])

Latest(c, v) ==
  LET ch == toClient[c]["PlayerProfiles"] IN
  IF ch # << >> THEN ch[Len(ch)].of = v
  ELSE IF cProfiles[c] # 0 THEN cProfiles[c] = v
  ELSE Leaves(cSent[c], cRom[c].version, v)

Expected(c) ==
  /\ ~IsForeign(c) /\ hEnd[c] = "up" /\ cEnd[c] \in {"connect", "up"}
  /\ hPeers[c].romConnected /\ hProfiles # 0

\* A client without a connection has no host.
OffInv(c) == cState[c] = "off" => cPc[c] = "idle" /\ cPeer[c] = NoHost

ProfileInv == \A c \in Clients : OffInv(c) /\ (Expected(c) => Latest(c, hProfiles))

LEMMA ProfileInvImplies == ASSUME TypeInv, OrderInv, ProfileInv PROVE ProfilesKept
<1> SUFFICES ASSUME NEW c \in Clients,
               /\ hEnd[c] = "up" /\ cEnd[c] = "up"
               /\ hPeers[c].romConnected /\ cPeer[c].romConnected /\ hProfiles # 0
               /\ toClient[c]["PlayerProfiles"] = << >> /\ cProfiles[c] = 0
               /\ \A i \in DOMAIN cSent[c] : cSent[c][i].kind # "profiles"
             PROVE cRom[c].version = hProfiles
  BY DEF ProfilesKept
<1>1. ~IsForeign(c)
  BY DEF OrderInv, InOrder, SlotOrder, ProfileInv, OffInv, NoHost
<1>2. Leaves(cSent[c], cRom[c].version, hProfiles)
  BY <1>1 DEF ProfileInv, Expected, Latest
<1>3. DOMAIN cSent[c] = 1..Len(cSent[c])
  BY DEF TypeInv, ClientTypeOK
<1>4. QED
  BY <1>2, <1>3 DEF Leaves, IsProfiles

LEMMA LeavesOther ==
  ASSUME NEW q \in Requests, NEW b, NEW v, NEW r, ~IsProfiles(r), Leaves(q, b, v)
  PROVE  Leaves(Append(q, r), b, v)
<1>1. /\ Len(q) \in Nat /\ Len(Append(q, r)) = Len(q) + 1
      /\ \A i \in 1..Len(q) : Append(q, r)[i] = q[i]
      /\ Append(q, r)[Len(q) + 1] = r
  BY DEF Requests
<1> DEFINE s == Append(q, r)
<1> HIDE DEF s
<1>2. CASE b = v /\ \A i \in 1..Len(q) : ~IsProfiles(q[i])
  <2>1. \A i \in 1..Len(s) : i \in 1..Len(q) \/ i = Len(q) + 1
    BY <1>1 DEF s
  <2>2. \A i \in 1..Len(s) : ~IsProfiles(s[i])
    BY <1>1, <1>2, <2>1 DEF s
  <2>3. QED
    BY <1>2, <2>2 DEF Leaves, s
<1>3. CASE \E i \in 1..Len(q) : IsProfiles(q[i]) /\ q[i].of = v /\ \A j \in (i + 1)..Len(q) : ~IsProfiles(q[j])
  <2>1. PICK i \in 1..Len(q) : IsProfiles(q[i]) /\ q[i].of = v /\ \A j \in (i + 1)..Len(q) : ~IsProfiles(q[j])
    BY <1>3
  <2>2. i \in 1..Len(s) /\ s[i] = q[i]
    BY <1>1 DEF s
  <2>3. \A j \in (i + 1)..Len(s) : (j \in (i + 1)..Len(q) /\ j \in 1..Len(q)) \/ j = Len(q) + 1
    BY <1>1 DEF s
  <2>4. \A j \in (i + 1)..Len(s) : ~IsProfiles(s[j])
    BY <1>1, <2>1, <2>3 DEF s
  <2>5. QED
    BY <2>1, <2>2, <2>4 DEF Leaves, s
<1>4. QED
  BY <1>2, <1>3 DEF Leaves

LEMMA LeavesNew ==
  ASSUME NEW q \in Requests, NEW b, NEW v
  PROVE  Leaves(Append(q, Request("profiles", v)), b, v)
<1> DEFINE r == Request("profiles", v)
           s == Append(q, r)
<1>1. r.of = v /\ IsProfiles(r)
  BY DEF Request, IsProfiles
<1> HIDE DEF r
<1>2. Len(q) \in Nat /\ Len(s) = Len(q) + 1 /\ s[Len(q) + 1] = r
  BY DEF Requests
<1> HIDE DEF s
<1>3. Len(q) + 1 \in 1..Len(s) /\ (Len(q) + 1 + 1)..Len(s) = {}
  BY <1>2
<1>4. Leaves(s, b, v)
  BY <1>1, <1>2, <1>3 DEF Leaves
<1>5. QED
  BY <1>4 DEF s, r

LEMMA LeavesRun ==
  ASSUME NEW q \in Requests, q # << >>, NEW b, NEW v, Leaves(q, b, v)
  PROVE  Leaves(Tail(q), IF IsProfiles(Head(q)) THEN Head(q).of ELSE b, v)
<1> DEFINE s == Tail(q)
<1>1. /\ Len(q) \in Nat /\ Len(q) # 0 /\ Len(s) = Len(q) - 1 /\ Head(q) = q[1]
      /\ \A i \in 1..Len(s) : s[i] = q[i + 1]
  BY DEF Requests
<1> HIDE DEF s
<1>2. CASE b = v /\ \A i \in 1..Len(q) : ~IsProfiles(q[i])
  <2>1. ~IsProfiles(Head(q)) /\ \A i \in 1..Len(s) : ~IsProfiles(s[i])
    BY <1>1, <1>2
  <2>2. QED
    BY <1>2, <2>1 DEF Leaves, s
<1>3. CASE \E i \in 1..Len(q) : IsProfiles(q[i]) /\ q[i].of = v /\ \A j \in (i + 1)..Len(q) : ~IsProfiles(q[j])
  <2>1. PICK i \in 1..Len(q) : IsProfiles(q[i]) /\ q[i].of = v /\ \A j \in (i + 1)..Len(q) : ~IsProfiles(q[j])
    BY <1>3
  <2>2. CASE i = 1
    <3>1. IsProfiles(Head(q)) /\ Head(q).of = v
      BY <1>1, <2>1, <2>2
    <3>2. \A k \in 1..Len(s) : k + 1 \in 2..Len(q)
      BY <1>1
    <3>3. \A k \in 1..Len(s) : ~IsProfiles(s[k])
      BY <1>1, <2>1, <2>2, <3>2
    <3>4. QED
      BY <3>1, <3>3 DEF Leaves, s
  <2>3. CASE i # 1
    <3>1. i - 1 \in 1..Len(s) /\ s[i - 1] = q[i]
      BY <1>1, <2>3
    <3>2. \A k \in ((i - 1) + 1)..Len(s) : k + 1 \in (i + 1)..Len(q) /\ k \in 1..Len(s)
      BY <1>1, <2>3
    <3>3. \A k \in ((i - 1) + 1)..Len(s) : ~IsProfiles(s[k])
      BY <1>1, <2>1, <3>2
    <3>4. QED
      BY <2>1, <3>1, <3>3 DEF Leaves, s
  <2>4. QED
    BY <2>2, <2>3
<1>4. QED
  BY <1>2, <1>3 DEF Leaves

LEMMA LeavesOffered ==
  ASSUME NEW q \in Requests, NEW b, NEW v, NEW r, ~IsProfiles(r), Leaves(q, b, v)
  PROVE  Leaves(Offer(q, r), b, v)
  BY LeavesOther DEF Offer

LEMMA OtherRequests ==
  /\ ~IsProfiles(Request("read", 0)) /\ ~IsProfiles(Request("handshake", 0)) /\ ~IsProfiles(Request("other", 0))
  BY DEF Request, IsProfiles

-----------------------------------------------------------------------------
(* A step leaves what Latest says of a client alone, or the client expects   *)
(* no profiles after it.                                                     *)

LatestSame(c) ==
  /\ toClient'[c]["PlayerProfiles"] = toClient[c]["PlayerProfiles"] /\ cProfiles'[c] = cProfiles[c]
  /\ cSent'[c] = cSent[c] /\ cRom'[c] = cRom[c]

\* A step of the host or the network that sends no profiles
LEMMA HostLeaves ==
  ASSUME ProfileInv, UNCHANGED <<number, hProfiles, clientVars>>,
         \A c \in Clients : hEnd'[c] = "up" /\ hPeers'[c].romConnected =>
           /\ hEnd[c] = "up" /\ hPeers[c].romConnected
           /\ cEnd'[c] \in {"connect", "up"} =>
                cEnd[c] \in {"connect", "up"} /\ toClient'[c]["PlayerProfiles"] = toClient[c]["PlayerProfiles"]
  PROVE  ProfileInv'
<1> SUFFICES ASSUME NEW c \in Clients PROVE OffInv(c)' /\ (Expected(c)' => Latest(c, hProfiles)')
  BY DEF ProfileInv
<1>1. OffInv(c)'
  BY DEF ProfileInv, OffInv, clientVars
<1>2. ASSUME Expected(c)' PROVE Latest(c, hProfiles)'
  <2>1. hEnd'[c] = "up" /\ hPeers'[c].romConnected /\ cEnd'[c] \in {"connect", "up"}
    BY <1>2 DEF Expected
  <2>2. Expected(c)
    BY <1>2, <2>1 DEF Expected, IsForeign
  <2>3. LatestSame(c)
    BY <2>1 DEF LatestSame, clientVars
  <2>4. hProfiles' = hProfiles
    OBVIOUS
  <2>5. Latest(c, hProfiles)
    BY <2>2 DEF ProfileInv
  <2>6. QED
    BY <2>3, <2>4, <2>5 DEF Latest, LatestSame
<1>3. QED
  BY <1>1, <1>2

\* A step after which nobody has been sent profiles
LEMMA HostForgets == ASSUME ProfileInv, UNCHANGED clientVars, hProfiles' = 0 PROVE ProfileInv'
  BY DEF ProfileInv, OffInv, Expected, clientVars

\* A step of one client
LEMMA ClientLeaves ==
  ASSUME TypeInv, ProfileInv, NEW c \in Clients, UNCHANGED hostVars, OffInv(c)', Expected(c)' => Latest(c, hProfiles)',
         \A d \in Clients \ {c} :
           /\ hEnd'[d] = hEnd[d] /\ cEnd'[d] = cEnd[d] /\ toClient'[d] = toClient[d] /\ number'[d] = number[d]
           /\ cState'[d] = cState[d] /\ cPeer'[d] = cPeer[d] /\ cProfiles'[d] = cProfiles[d] /\ cPc'[d] = cPc[d]
           /\ cSent'[d] = cSent[d] /\ cRom'[d] = cRom[d]
  PROVE  ProfileInv'
<1> SUFFICES ASSUME NEW d \in Clients PROVE OffInv(d)' /\ (Expected(d)' => Latest(d, hProfiles)')
  BY DEF ProfileInv
<1>1. CASE d = c
  BY <1>1
<1>2. CASE d # c
  <2>1. OffInv(d)'
    BY <1>2 DEF ProfileInv, OffInv
  <2>2. Expected(d)' => Expected(d)
    BY <1>2 DEF Expected, IsForeign, hostVars
  <2>3. LatestSame(d) /\ hProfiles' = hProfiles
    BY <1>2 DEF LatestSame, hostVars
  <2>4. QED
    BY <2>1, <2>2, <2>3 DEF ProfileInv, Latest, LatestSame
<1>3. QED
  BY <1>1, <1>2

-----------------------------------------------------------------------------
LEMMA DropProfiles ==
  ASSUME ProfileInv, NEW peers \in SUBSET Clients, ForgetPeers(peers), HostDrops(peers), UNCHANGED <<hProfiles, clientVars>>
  PROVE  ProfileInv'
<1>1. PICK told \in SUBSET peers :
        /\ cEnd' = [c \in Clients |-> IF c \in told THEN Lost(cEnd[c]) ELSE cEnd[c]]
        /\ toClient' = [c \in Clients |-> IF c \in told THEN Quiet ELSE toClient[c]]
  BY DEF HostDrops
<1>2. ASSUME NEW c \in Clients, hEnd'[c] = "up"
      PROVE  hEnd[c] = "up" /\ hPeers'[c] = hPeers[c] /\ cEnd'[c] = cEnd[c] /\ toClient'[c] = toClient[c]
  BY <1>1, <1>2 DEF HostDrops, ForgetPeers
<1>3. number' = number
  BY DEF HostDrops
<1>4. QED
  BY <1>2, <1>3, HostLeaves

LEMMA RejectProfiles ==
  ASSUME ProfileInv, NEW c \in Clients, NEW invalid, RejectPeer(c, invalid), UNCHANGED <<hProfiles, clientVars>>
  PROVE  ProfileInv'
  BY DropProfiles DEF RejectPeer

\* The host handles a message of a client, of which it then knows `peer`.
LEMMA HandledProfiles ==
  ASSUME TypeInv, ProfileInv, NEW c \in Clients, NEW peer, hPeers' = [hPeers EXCEPT ![c] = peer],
         peer.romConnected = hPeers[c].romConnected,
         UNCHANGED <<hEnd, cEnd, toClient, number, hProfiles, clientVars>>
  PROVE  ProfileInv'
<1>1. \A d \in Clients : hPeers'[d].romConnected = hPeers[d].romConnected
  BY DEF TypeInv, HostTypeOK
<1>2. QED
  BY <1>1, HostLeaves

LEMMA HandshakeProfiles ==
  ASSUME TypeInv, ProfileInv, NEW c \in Clients, NEW peer, NEW ok, NEW of, NEW ch,
         HandleRomHandshake(c, peer, ok, of, ch), peer.romConnected = hPeers[c].romConnected, UNCHANGED <<hProfiles, clientVars>>
  PROVE  ProfileInv'
  BY HandledProfiles, RejectProfiles DEF HandleRomHandshake

LEMMA HostEventProfiles ==
  ASSUME TypeInv, LiveInv, ProfileInv, NEW c \in Clients, HostEvent(c) \/ HostGameplayEvent(c), UNCHANGED clientVars
  PROVE  ProfileInv'
<1>1. hProfiles' = hProfiles
  BY DEF HostEvent, HostGameplayEvent
<1>2. hPeers[c] \in Peers
  BY DEF TypeInv, HostTypeOK
<1>3. CASE HostConnect(c)
  <2>1. ~NewPeer(number[c]).romConnected
    BY DEF NewPeer, NoPeer
  <2>2. ASSUME NEW d \in Clients, hEnd'[d] = "up", hPeers'[d].romConnected
        PROVE  /\ hEnd[d] = "up" /\ hPeers[d].romConnected
               /\ cEnd'[d] \in {"connect", "up"} =>
                    cEnd[d] \in {"connect", "up"} /\ toClient'[d]["PlayerProfiles"] = toClient[d]["PlayerProfiles"]
    <3>1. d # c
      BY <1>3, <2>1, <2>2 DEF HostConnect, TypeInv, HostTypeOK
    <3>2. hEnd'[d] = hEnd[d] /\ hPeers'[d] = hPeers[d] /\ cEnd' = cEnd
      BY <1>3, <3>1 DEF HostConnect, TypeInv, HostTypeOK, LinkInv
    <3>3. toClient'[d] = toClient[d]
      BY <1>3, <3>1 DEF HostConnect, SentToClients, Sent
    <3>4. QED
      BY <2>2, <3>2, <3>3
  <2>3. QED
    BY <1>1, <1>3, <2>2, HostLeaves DEF HostConnect
<1>4. CASE HostHello(c)
  <2> DEFINE peer == [hPeers[c] EXCEPT !.compatible = TRUE, !.early = 0]
  <2>1. peer.romConnected = hPeers[c].romConnected
    BY <1>2 DEF Peers
  <2> HIDE DEF peer
  <2>2. CASE RejectPeer(c, TRUE)
    BY <1>1, <2>2, RejectProfiles
  <2>3. CASE hPeers' = [hPeers EXCEPT ![c] = peer] /\ UNCHANGED <<hEnd, cEnd, toClient, number>>
    BY <1>1, <2>1, <2>3, HandledProfiles
  <2>4. CASE HandleRomHandshake(c, peer, TRUE, hPeers[c].early, "Control")
    BY <1>1, <2>1, <2>4, HandshakeProfiles
  <2>5. QED
    BY <1>4, <2>2, <2>3, <2>4 DEF HostHello, peer
<1>5. CASE HostHandshake(c)
  <2> DEFINE m == Head(toHost[c]["Handshake"])
             peer == [hPeers[c] EXCEPT !.early = m.of]
  <2>1. peer.romConnected = hPeers[c].romConnected
    BY <1>2 DEF Peers
  <2>2. CASE RejectPeer(c, TRUE)
    BY <1>1, <2>2, RejectProfiles
  <2>3. CASE hPeers' = [hPeers EXCEPT ![c].early = m.of] /\ UNCHANGED <<hEnd, cEnd, toClient, number>>
    <3>1. hPeers' = [hPeers EXCEPT ![c] = peer]
      BY <2>3 DEF TypeInv, HostTypeOK
    <3> HIDE DEF peer
    <3>2. QED
      BY <1>1, <2>1, <2>3, <3>1, HandledProfiles
  <2>4. CASE HandleRomHandshake(c, hPeers[c], m.ok, m.of, "Handshake")
    BY <1>1, <2>4, HandshakeProfiles
  <2>5. QED
    BY <1>5, <2>2, <2>3, <2>4 DEF HostHandshake
<1>6. CASE HostDisconnected(c)
  <2>1. ASSUME NEW d \in Clients, hEnd'[d] = "up" PROVE hEnd[d] = "up" /\ hPeers'[d] = hPeers[d]
    BY <1>6, <2>1 DEF HostDisconnected, ForgetPeers, TypeInv, LinkInv
  <2>2. QED
    BY <1>1, <1>6, <2>1, HostLeaves DEF HostDisconnected
<1>7. ASSUME NEW ch \in Channels, HostGameplay(c, ch) PROVE ProfileInv'
  <2>1. CASE RejectPeer(c, TRUE)
    BY <1>1, <2>1, RejectProfiles
  <2>2. CASE UNCHANGED <<hEnd, cEnd, toClient, number, hPeers>>
    BY <1>1, <2>2, HostLeaves
  <2>3. QED
    BY <1>7, <2>1, <2>2 DEF HostGameplay
<1>8. QED
  BY <1>3, <1>4, <1>5, <1>6, <1>7 DEF HostEvent, HostGameplayEvent

\* Every client whose ROM is connected is sent the new profiles.
LEMMA ConnectedUpdateProfiles ==
  ASSUME TypeInv, LiveInv, OrderInv, ProfileInv, HostConnectedUpdate, UNCHANGED clientVars
  PROVE  ProfileInv'
<1> DEFINE peers == {c \in Clients : hPeers[c].compatible /\ hPeers[c].romConnected}
           m == Message(TRUE, hBlob.version, 0)
           sent == SentToClients(toClient, peers, "PlayerProfiles", m)
           afterProfiles == IF hProfiles = hBlob.version THEN toClient ELSE sent
           state == Message(TRUE, 0, 0)
<1>1. toClient' = afterProfiles \/ toClient' = SentToClients(afterProfiles, peers, "State", state)
  BY DEF HostConnectedUpdate
<1>2. m \in Messages /\ m.of = hBlob.version
  <2>1. hBlob.version \in 1..MaxVersions
    BY DEF TypeInv, HostTypeOK, RomStates
  <2>2. QED
    BY <2>1, Bounds DEF Message
<1>3. toClient \in Links /\ sent \in Links /\ afterProfiles \in Links
  <2>1. toClient \in Links
    BY DEF TypeInv, LinkInv
  <2>2. sent \in Links
    BY <1>2, <2>1, LinkSent DEF SentToClients
  <2>3. QED
    BY <2>1, <2>2
<1>4. \A d \in Clients : toClient'[d]["PlayerProfiles"] = afterProfiles[d]["PlayerProfiles"]
  <2> HIDE DEF peers, afterProfiles, state
  <2>1. \A d \in Clients : SentToClients(afterProfiles, peers, "State", state)[d]["PlayerProfiles"] = afterProfiles[d]["PlayerProfiles"]
    BY <1>3 DEF SentToClients, Sent, Links
  <2>2. QED
    BY <1>1, <2>1
<1>5. UNCHANGED <<hEnd, cEnd, number, hPeers>> /\ hProfiles' = hBlob.version
  BY DEF HostConnectedUpdate
<1>6. CASE hProfiles = hBlob.version
  BY <1>4, <1>5, <1>6, HostLeaves
<1>7. CASE hProfiles # hBlob.version
  <2> SUFFICES ASSUME NEW c \in Clients PROVE OffInv(c)' /\ (Expected(c)' => Latest(c, hProfiles)')
    BY DEF ProfileInv
  <2>1. OffInv(c)'
    BY DEF ProfileInv, OffInv, clientVars
  <2>2. ASSUME Expected(c)' PROVE Latest(c, hProfiles)'
    <3>1. ~IsForeign(c) /\ cEnd[c] \in {"connect", "up"} /\ hPeers[c].romConnected
      BY <1>5, <2>2 DEF Expected, IsForeign
    <3>2. c \in peers
      BY <3>1 DEF OrderInv, InOrder, SlotOrder
    <3> HIDE DEF peers, m
    <3>3. sent[c] = [toClient[c] EXCEPT !["PlayerProfiles"] = Append(@, m)]
      BY <3>1, <3>2 DEF SentToClients, Sent
    <3>4. toClient'[c]["PlayerProfiles"] = Append(toClient[c]["PlayerProfiles"], m)
      BY <1>3, <1>4, <1>7, <3>3 DEF Links
    <3> DEFINE q == toClient[c]["PlayerProfiles"]
    <3>5. q \in Seq(Messages)
      BY <1>3 DEF Links
    <3> HIDE DEF q
    <3>6. Append(q, m) # << >> /\ Append(q, m)[Len(Append(q, m))] = m
      BY <1>2, <3>5
    <3>7. QED
      BY <1>2, <1>5, <3>4, <3>6 DEF Latest, q
  <2>3. QED
    BY <2>1, <2>2
<1>8. QED
  BY <1>6, <1>7

LEMMA HostProfiles == ASSUME TypeInv, LiveInv, OrderInv, ProfileInv, HostNext PROVE ProfileInv'
<1>1. UNCHANGED clientVars
  BY DEF HostNext
<1>2. CASE OpenHostConnection \/ HostBegin \/ HostExecute \/ RomAnswers \/ RomChangesProfiles
  <2>1. UNCHANGED <<hEnd, cEnd, toClient, number, hPeers, hProfiles>>
    BY <1>2 DEF OpenHostConnection, HostBegin, HostExecute, RomAnswers, RomChangesProfiles, linkVars
  <2>2. QED
    BY <1>1, <2>1, HostLeaves
<1>3. CASE CloseHostConnection
  BY <1>1, <1>3, HostForgets DEF CloseHostConnection
<1>4. ASSUME NEW c \in Clients, HostEvent(c) \/ HostGameplayEvent(c) PROVE ProfileInv'
  BY <1>1, <1>4, HostEventProfiles
<1>5. CASE HostExpire
  <2>1. PICK late \in SUBSET {c \in Clients : hPeers[c].known /\ ~hPeers[c].compatible} : ForgetPeers(late) /\ HostDrops(late)
    BY <1>5 DEF HostExpire
  <2>2. hProfiles' = hProfiles
    BY <1>5 DEF HostExpire
  <2>3. QED
    BY <1>1, <2>1, <2>2, DropProfiles
<1>6. CASE HostAct
  <2>1. CASE AnswerHandshake
    BY <1>1, <2>1, HostForgets DEF AnswerHandshake
  <2>2. CASE RejectAnswer
    <3>1. hPending \in Clients
      BY <2>2 DEF RejectAnswer, Answers, LiveInv, PendingInv
    <3>2. QED
      BY <1>1, <2>2, <3>1, RejectProfiles DEF RejectAnswer
  <2>3. CASE ConfirmHost
    BY <1>1, <2>3, HostLeaves DEF ConfirmHost, linkVars
  <2>4. QED
    BY <1>1, <1>6, <2>1, <2>2, <2>3, ConnectedUpdateProfiles DEF HostAct
<1>7. QED
  BY <1>2, <1>3, <1>4, <1>5, <1>6 DEF HostNext

-----------------------------------------------------------------------------
(* The network and the clients *)

\* A client's end goes: it expects nothing.
LEMMA ClientEndsProfiles ==
  ASSUME TypeInv, ProfileInv, NEW c \in Clients, cEnd'[c] \notin {"connect", "up"}, OffInv(c)', UNCHANGED hostVars,
         \A d \in Clients \ {c} :
           /\ hEnd'[d] = hEnd[d] /\ cEnd'[d] = cEnd[d] /\ toClient'[d] = toClient[d] /\ number'[d] = number[d]
           /\ cState'[d] = cState[d] /\ cPeer'[d] = cPeer[d] /\ cProfiles'[d] = cProfiles[d] /\ cPc'[d] = cPc[d]
           /\ cSent'[d] = cSent[d] /\ cRom'[d] = cRom[d]
  PROVE  ProfileInv'
<1>1. ~Expected(c)'
  BY DEF Expected
<1>2. QED
  BY <1>1, ClientLeaves

LEMMA NetProfiles ==
  ASSUME TypeInv, LiveInv, OrderInv, ProfileInv, NEW c \in Clients, NetNext(c)
  PROVE  ProfileInv'
<1>1. UNCHANGED <<hostVars, clientVars>>
  BY DEF NetNext
<1>2. hProfiles' = hProfiles /\ hPeers' = hPeers /\ UNCHANGED clientVars
  BY <1>1 DEF hostVars
<1>3. CASE Establish(c)
  <2>1. \A d \in Clients : hEnd'[d] = "up" => hEnd[d] = "up" /\ cEnd'[d] = cEnd[d]
    BY <1>3 DEF Establish, TypeInv, LinkInv
  <2>2. QED
    BY <1>2, <1>3, <2>1, HostLeaves DEF Establish
<1>4. CASE LinkLost(c)
  <2>1. \A d \in Clients : hEnd'[d] = "up" => hEnd[d] = "up" /\ cEnd'[d] = cEnd[d] /\ toClient'[d] = toClient[d]
    <3> SUFFICES ASSUME NEW d \in Clients, hEnd'[d] = "up"
                 PROVE  hEnd[d] = "up" /\ cEnd'[d] = cEnd[d] /\ toClient'[d] = toClient[d]
      OBVIOUS
    <3>1. hEnd \in [Clients -> Ends] /\ cEnd \in [Clients -> Ends] /\ toClient \in Links
      BY DEF TypeInv, LinkInv
    <3>2. d # c
      BY <1>4, <3>1 DEF LinkLost, Lost
    <3>3. hEnd'[d] = hEnd[d] /\ cEnd'[d] = cEnd[d]
      BY <1>4, <3>1, <3>2 DEF LinkLost
    <3>4. toClient'[d] = toClient[d]
      BY <1>4, <3>1, <3>2 DEF LinkLost, Links
    <3>5. QED
      BY <3>3, <3>4
  <2>2. QED
    BY <1>2, <1>4, <2>1, HostLeaves DEF LinkLost
<1>5. CASE StateLost(c)
  <2>1. \A d \in Clients : toClient'[d]["PlayerProfiles"] = toClient[d]["PlayerProfiles"]
    <3>1. toClient \in [Clients -> [Channels -> Seq(Messages)]]
      BY DEF TypeInv, LinkInv, Links
    <3>2. CASE toClient' = toClient
      BY <3>2
    <3>3. CASE toClient' = [toClient EXCEPT ![c]["State"] = Tail(toClient[c]["State"])]
      BY <3>1, <3>3
    <3>4. QED
      BY <1>5, <3>2, <3>3 DEF StateLost
  <2>2. QED
    BY <1>2, <1>5, <2>1, HostLeaves DEF StateLost
<1>6. QED
  BY <1>3, <1>4, <1>5 DEF NetNext

\* The requests of a client are others, of which the profiles are the same.
LEMMA QueueProfiles ==
  ASSUME TypeInv, ProfileInv, NEW c \in Clients, NEW q, cSent' = [cSent EXCEPT ![c] = q],
         \A v : Leaves(cSent[c], cRom[c].version, v) => Leaves(q, cRom[c].version, v),
         OffInv(c)', \A d \in Clients \ {c} : cState'[d] = cState[d] /\ cPeer'[d] = cPeer[d] /\ cPc'[d] = cPc[d],
         \A d \in Clients : toClient'[d]["PlayerProfiles"] = toClient[d]["PlayerProfiles"],
         UNCHANGED <<hEnd, cEnd, number, hostVars, cProfiles, cRom>>
  PROVE  ProfileInv'
<1> SUFFICES ASSUME NEW d \in Clients PROVE OffInv(d)' /\ (Expected(d)' => Latest(d, hProfiles)')
  BY DEF ProfileInv
<1>1. OffInv(d)'
  BY DEF ProfileInv, OffInv
<1>2. Expected(d)' => Latest(d, hProfiles)
  BY DEF ProfileInv, Expected, IsForeign, hostVars
<1>3. cSent'[d] = (IF d = c THEN q ELSE cSent[d]) /\ hProfiles' = hProfiles
  BY DEF TypeInv, ClientTypeOK, hostVars
<1>4. Latest(d, hProfiles) => Latest(d, hProfiles)'
  BY <1>3 DEF Latest
<1>5. QED
  BY <1>1, <1>2, <1>4

LEMMA LeavesAnswered ==
  ASSUME NEW q \in Requests, NEW b, NEW v, NEW answer, Leaves(q, b, v)
  PROVE  Leaves(AfterAnswer(q, answer), b, v)
  BY LeavesOffered, OtherRequests DEF AfterAnswer

\* TrySubmitClientPlayerProfiles: the version is in the queue, or still kept.
LEMMA SubmitLatest ==
  ASSUME TypeInv, NEW c \in Clients, NEW q, Queued(q), NEW version \in 0..MaxVersions, SubmitProfiles(c, q, version)
  PROVE  /\ version # 0 => \/ cProfiles'[c] = version
                           \/ cProfiles'[c] = 0 /\ \A b : Leaves(cSent'[c], b, version)
         /\ version = 0 => cProfiles'[c] = 0 /\ cSent'[c] = q
<1>1. /\ cSent'[c] = (IF version = 0 THEN q ELSE Offer(q, Request("profiles", version)))
      /\ cProfiles'[c] = (IF HasRoom(q) THEN 0 ELSE version)
  BY DEF SubmitProfiles, TypeInv, ClientTypeOK
<1>2. q \in Requests
  BY DEF Queued
<1>3. HasRoom(q) /\ version # 0 => \A b : Leaves(cSent'[c], b, version)
  BY <1>1, <1>2, LeavesNew DEF Offer
<1>4. QED
  BY <1>1, <1>3

LEMMA ClientBeginProfiles ==
  ASSUME TypeInv, OrderInv, ProfileInv, NEW c \in Clients, ClientBegin(c), UNCHANGED hostVars
  PROVE  ProfileInv'
<1> DEFINE q == Offer(cSent[c], Request("read", 0))
           r == AfterAnswer(q, cHandshake[c])
<1>1. /\ SubmitProfiles(c, r, cProfiles[c]) /\ SubmitAnswer(c, q, cHandshake[c]) /\ cState[c] # "off"
      /\ UNCHANGED <<hEnd, cEnd, toClient, number, cRom>> /\ cPc' = [cPc EXCEPT ![c] = "poll"]
  BY DEF ClientBegin, linkVars
<1>2. Queued(r) /\ cProfiles[c] \in 0..MaxVersions /\ cSent[c] \in Requests /\ q \in Requests
  <2>1. ClientTypeOK /\ cProfiles[c] \in 0..MaxVersions
    BY DEF TypeInv, ClientTypeOK
  <2>2. Queued(cSent[c]) /\ Queued(q)
    BY <2>1, ClientQueued, QueueOffer, ZeroVersion DEF Kinds
  <2>3. QED
    BY <2>1, <2>2, AfterAnswerQueued DEF Queued
<1>3. \A v : Leaves(cSent[c], cRom[c].version, v) => Leaves(r, cRom[c].version, v)
  BY <1>2, LeavesOffered, LeavesAnswered, OtherRequests
<1> HIDE DEF r
<1>4. /\ cProfiles[c] # 0 => \/ cProfiles'[c] = cProfiles[c]
                             \/ cProfiles'[c] = 0 /\ \A b : Leaves(cSent'[c], b, cProfiles[c])
      /\ cProfiles[c] = 0 => cProfiles'[c] = 0 /\ cSent'[c] = r
  BY <1>1, <1>2, SubmitLatest
<1>5. OffInv(c)'
  BY <1>1 DEF OffInv, SubmitAnswer, TypeInv, ClientTypeOK
<1>6. Expected(c)' => Latest(c, hProfiles)'
  <2>1. Expected(c)' => Latest(c, hProfiles) /\ hProfiles' = hProfiles
    BY <1>1 DEF ProfileInv, Expected, IsForeign, hostVars
  <2>2. Latest(c, hProfiles) /\ hProfiles' = hProfiles => Latest(c, hProfiles)'
    BY <1>1, <1>3, <1>4 DEF Latest
  <2>3. QED
    BY <2>1, <2>2
<1>7. \A d \in Clients \ {c} :
        /\ cState'[d] = cState[d] /\ cPeer'[d] = cPeer[d] /\ cProfiles'[d] = cProfiles[d] /\ cPc'[d] = cPc[d]
        /\ cSent'[d] = cSent[d]
  BY <1>1 DEF SubmitProfiles, SubmitAnswer, TypeInv, ClientTypeOK
<1>8. QED
  BY <1>1, <1>5, <1>6, <1>7, ClientLeaves

LEMMA RejectHostProfiles ==
  ASSUME TypeInv, ProfileInv, NEW c \in Clients, NEW invalid, RejectHost(c, invalid), UNCHANGED <<hostVars, cPc, cRom>>
  PROVE  ProfileInv'
<1>1. cEnd'[c] = "none" /\ OffInv(c)'
  BY DEF RejectHost, ClientDrops, TypeInv, LinkInv, ClientTypeOK, ProfileInv, OffInv
<1>2. \A d \in Clients \ {c} :
        /\ hEnd'[d] = hEnd[d] /\ cEnd'[d] = cEnd[d] /\ toClient'[d] = toClient[d] /\ number'[d] = number[d]
        /\ cState'[d] = cState[d] /\ cPeer'[d] = cPeer[d] /\ cProfiles'[d] = cProfiles[d] /\ cSent'[d] = cSent[d]
  BY ZenonT(60) DEF RejectHost, ClientDrops, TypeInv, LinkInv, Links, ClientTypeOK
<1>3. QED
  BY <1>1, <1>2, ClientEndsProfiles

\* The last message of a channel stays the last when others are received.
LEMMA LastStays ==
  ASSUME NEW q \in Seq(Profiles), q # << >>
  PROVE  /\ Tail(q) # << >> => Tail(q)[Len(Tail(q))] = q[Len(q)]
         /\ Tail(q) = << >> => Head(q) = q[Len(q)]
<1>1. /\ Len(q) \in Nat \ {0} /\ Len(Tail(q)) = Len(q) - 1 /\ Head(q) = q[1] /\ Tail(q) \in Seq(Profiles)
      /\ \A i \in 1..Len(Tail(q)) : Tail(q)[i] = q[i + 1]
  OBVIOUS
<1>2. Tail(q) # << >> => Len(Tail(q)) \in 1..Len(Tail(q))
  BY <1>1
<1>3. Tail(q) = << >> => Len(q) = 1
  <2>1. ASSUME NEW t, NEW n \in Nat, Len(t) = n - 1, t = << >> PROVE n = 1
    <3>1. Len(t) = 0
      BY <2>1
    <3>2. QED
      BY <2>1, <3>1
  <2>2. QED
    BY <1>1, <2>1
<1>4. QED
  BY <1>1, <1>2, <1>3

LEMMA GameplayProfiles ==
  ASSUME TypeInv, OrderInv, ProfileInv, NEW c \in Clients, NEW ch \in Channels, ClientGameplay(c, ch), cPc[c] = "poll",
         UNCHANGED <<hostVars, cPc, cRom>>
  PROVE  ProfileInv'
<1>1. CASE RejectHost(c, TRUE)
  BY <1>1, RejectHostProfiles
<1>2. CASE /\ ch = "PlayerProfiles" /\ toClient[c][ch] # << >> /\ SubmitProfiles(c, cSent[c], Head(toClient[c][ch]).of)
           /\ toClient' = Received(toClient, c, ch)
           /\ UNCHANGED <<hEnd, cEnd, toHost, number, connects, cState, cPeer, cHandshake, cRemove, mistaken>>
  <2> DEFINE q == toClient[c]["PlayerProfiles"]
             v == Head(q).of
  <2>1. q \in Seq(Profiles) /\ q # << >> /\ toClient \in Links
    BY <1>2 DEF TypeInv, LinkInv
  <2>2. toClient'[c]["PlayerProfiles"] = Tail(q)
    BY <1>2, <2>1, ReceivedAt
  <2>3. v \in 1..MaxVersions
    <3>1. Head(q) \in Profiles
      BY <2>1, HeadIn
    <3>2. QED
      BY <3>1 DEF Profiles
  <2>4. v \in 0..MaxVersions /\ v # 0
    BY <2>3
  <2>5. Queued(cSent[c])
    BY ClientQueued DEF TypeInv
  <2>6. cProfiles'[c] = v \/ (cProfiles'[c] = 0 /\ \A b : Leaves(cSent'[c], b, v))
    BY <1>2, <2>4, <2>5, SubmitLatest
  <2>7. Expected(c)' => Latest(c, hProfiles)'
    <3>1. Expected(c)' => Latest(c, hProfiles) /\ hProfiles' = hProfiles
      BY <1>2 DEF ProfileInv, Expected, IsForeign, hostVars
    <3>2. Latest(c, hProfiles) => q[Len(q)].of = hProfiles
      BY <2>1 DEF Latest
    <3>3. /\ Tail(q) # << >> => Tail(q)[Len(Tail(q))] = q[Len(q)]
          /\ Tail(q) = << >> => Head(q) = q[Len(q)]
      BY <2>1, LastStays
    <3>4. q[Len(q)].of = hProfiles /\ hProfiles' = hProfiles => Latest(c, hProfiles)'
      <4>1. CASE Tail(q) # << >>
        BY <2>2, <3>3, <4>1 DEF Latest
      <4>2. CASE Tail(q) = << >>
        BY <2>2, <2>4, <2>6, <3>3, <4>2 DEF Latest
      <4>3. QED
        BY <4>1, <4>2
    <3>5. QED
      BY <3>1, <3>2, <3>4
  <2>8. OffInv(c)'
    BY <1>2 DEF ProfileInv, OffInv
  <2>9. \A d \in Clients \ {c} : cProfiles'[d] = cProfiles[d] /\ cSent'[d] = cSent[d] /\ toClient'[d] = toClient[d]
    BY <1>2, <2>1, ReceivedAt, SMTT(30) DEF SubmitProfiles, TypeInv, ClientTypeOK
  <2>10. QED
    BY <1>2, <2>7, <2>8, <2>9, ClientLeaves
<1>3. CASE /\ ch = "State" /\ toClient[c][ch] # << >>
           /\ cSent' = [cSent EXCEPT ![c] = Offer(@, Request("other", 0))] /\ UNCHANGED cProfiles
           /\ toClient' = Received(toClient, c, ch)
           /\ UNCHANGED <<hEnd, cEnd, toHost, number, connects, cState, cPeer, cHandshake, cRemove, mistaken>>
  <2>1. \A d \in Clients : toClient'[d]["PlayerProfiles"] = toClient[d]["PlayerProfiles"]
    BY <1>3 DEF Received, TypeInv, LinkInv, Links
  <2>2. cSent[c] \in Requests /\ cSent' = [cSent EXCEPT ![c] = Offer(cSent[c], Request("other", 0))]
    BY <1>3, ClientQueued DEF TypeInv
  <2>3. \A v : Leaves(cSent[c], cRom[c].version, v) => Leaves(Offer(cSent[c], Request("other", 0)), cRom[c].version, v)
    BY <2>2, LeavesOffered, OtherRequests
  <2>4. OffInv(c)'
    BY <1>3 DEF ProfileInv, OffInv
  <2>5. QED
    BY <1>3, <2>1, <2>2, <2>3, <2>4, QueueProfiles
<1>4. QED
  BY <1>1, <1>2, <1>3 DEF ClientGameplay

LEMMA ClientEventProfiles ==
  ASSUME TypeInv, OrderInv, ProfileInv, NEW c \in Clients, ClientEvent(c), UNCHANGED hostVars
  PROVE  ProfileInv'
<1>1. cState[c] # "off" /\ cPc[c] = "poll" /\ UNCHANGED <<cPc, cRom>>
  BY DEF ClientEvent, ProfileInv, OffInv
<1>2. CASE ClientConnect(c)
  <2>1. /\ cState'[c] # "off" /\ cEnd[c] = "connect" /\ UNCHANGED <<hEnd, toClient, number, cProfiles, cSent>>
        /\ \A d \in Clients \ {c} : cState'[d] = cState[d] /\ cPeer'[d] = cPeer[d] /\ cEnd'[d] = cEnd[d]
    BY <1>1, <1>2 DEF ClientConnect, TypeInv, ClientTypeOK, LinkInv
  <2>2. OffInv(c)'
    BY <2>1 DEF OffInv
  <2>3. Expected(c)' => Expected(c)
    BY <2>1 DEF Expected, IsForeign, hostVars
  <2>4. Expected(c)' => Latest(c, hProfiles)'
    BY <1>1, <2>1, <2>3 DEF ProfileInv, Latest, hostVars
  <2>5. QED
    BY <1>1, <2>1, <2>2, <2>4, ClientLeaves
<1>3. CASE RejectHost(c, TRUE)
  BY <1>1, <1>3, RejectHostProfiles
<1>4. CASE ClientHello(c) /\ ~RejectHost(c, TRUE)
  <2>1. /\ cPeer' = [cPeer EXCEPT ![c].compatible = TRUE]
        /\ cState' = [cState EXCEPT ![c] = IF @ = "AwaitingCompatibility" THEN "AwaitingHandshake" ELSE @]
        /\ toClient' = Received(toClient, c, "Control")
        /\ UNCHANGED <<hEnd, cEnd, number, cProfiles, cSent>>
    BY <1>4 DEF ClientHello
  <2>2. \A d \in Clients : toClient'[d]["PlayerProfiles"] = toClient[d]["PlayerProfiles"]
    BY <2>1 DEF Received, TypeInv, LinkInv, Links
  <2>3. cState'[c] # "off" /\ \A d \in Clients \ {c} : cState'[d] = cState[d] /\ cPeer'[d] = cPeer[d]
    BY <1>1, <2>1 DEF TypeInv, ClientTypeOK
  <2>4. OffInv(c)' /\ cSent' = [cSent EXCEPT ![c] = cSent[c]]
    BY <2>1, <2>3 DEF OffInv, TypeInv, ClientTypeOK
  <2>5. QED
    BY <1>1, <2>1, <2>2, <2>3, <2>4, QueueProfiles
<1>5. CASE ClientHandshake(c) /\ ~RejectHost(c, TRUE)
  <2>1. /\ SubmitAnswer(c, cSent[c], TRUE) /\ cSent' = [cSent EXCEPT ![c] = AfterAnswer(cSent[c], TRUE)]
        /\ toClient' = Received(toClient, c, "Handshake")
        /\ UNCHANGED <<hEnd, cEnd, number, cProfiles>>
    BY <1>5 DEF ClientHandshake
  <2>2. \A d \in Clients : toClient'[d]["PlayerProfiles"] = toClient[d]["PlayerProfiles"]
    BY <2>1 DEF Received, TypeInv, LinkInv, Links
  <2>3. cState'[c] # "off" /\ \A d \in Clients \ {c} : cState'[d] = cState[d] /\ cPeer'[d] = cPeer[d]
    BY <1>1, <2>1 DEF SubmitAnswer, TypeInv, ClientTypeOK
  <2>4. OffInv(c)' /\ cSent[c] \in Requests
    BY <2>3, ClientQueued DEF OffInv, TypeInv
  <2>5. \A v : Leaves(cSent[c], cRom[c].version, v) => Leaves(AfterAnswer(cSent[c], TRUE), cRom[c].version, v)
    BY <2>4, LeavesAnswered
  <2>6. QED
    BY <1>1, <2>1, <2>2, <2>3, <2>4, <2>5, QueueProfiles
<1>6. CASE ClientDisconnected(c)
  <2>1. cEnd'[c] = "none" /\ OffInv(c)'
    BY <1>1, <1>6 DEF ClientDisconnected, TypeInv, LinkInv, OffInv
  <2>2. \A d \in Clients \ {c} : cEnd'[d] = cEnd[d] /\ cPeer'[d] = cPeer[d]
    BY <1>6 DEF ClientDisconnected, TypeInv, LinkInv, ClientTypeOK
  <2>3. UNCHANGED <<hEnd, toClient, number, cState, cProfiles, cSent>>
    BY <1>6 DEF ClientDisconnected
  <2>4. QED
    BY <1>1, <2>1, <2>2, <2>3, ClientEndsProfiles
<1>7. QED
  BY <1>2, <1>3, <1>4, <1>5, <1>6 DEF ClientEvent

LEMMA ClosesProfiles ==
  ASSUME TypeInv, ProfileInv, NEW c \in Clients, CloseClientConnection(c), cPc'[c] = "idle",
         \A d \in Clients \ {c} : cSent'[d] = cSent[d] /\ cPc'[d] = cPc[d], UNCHANGED <<cRom, hostVars>>
  PROVE  ProfileInv'
<1>1. cEnd'[c] = "none" /\ OffInv(c)'
  BY DEF CloseClientConnection, TypeInv, LinkInv, ClientTypeOK, OffInv
<1>2. \A d \in Clients \ {c} :
        /\ hEnd'[d] = hEnd[d] /\ cEnd'[d] = cEnd[d] /\ toClient'[d] = toClient[d] /\ number'[d] = number[d]
        /\ cState'[d] = cState[d] /\ cPeer'[d] = cPeer[d] /\ cProfiles'[d] = cProfiles[d]
  BY DEF CloseClientConnection, TypeInv, LinkInv, Links, ClientTypeOK
<1>3. QED
  BY <1>1, <1>2, ClientEndsProfiles

LEMMA ClientEndProfiles ==
  ASSUME TypeInv, ProfileInv, NEW c \in Clients, ClientEnd(c), UNCHANGED hostVars
  PROVE  ProfileInv'
<1>1. cPc'[c] = "idle" /\ cPc[c] = "poll" /\ (\A d \in Clients \ {c} : cPc'[d] = cPc[d]) /\ cRom' = cRom
  BY DEF ClientEnd, TypeInv, ClientTypeOK
<1>2. CASE ClientRemoved(c) \/ ClientTimesOut(c)
  <2>1. \A d \in Clients \ {c} : cSent'[d] = cSent[d]
    BY <1>2 DEF ClientRemoved, ClientTimesOut, TypeInv, ClientTypeOK
  <2>2. CloseClientConnection(c)
    BY <1>2 DEF ClientRemoved, ClientTimesOut
  <2>3. QED
    BY <1>1, <2>1, <2>2, ClosesProfiles
<1>3. CASE ClientGoesOn(c)
  <2> DEFINE q == IF cState[c] = "ConnectionConfirmed" /\ HasRoom(cSent[c]) THEN Append(cSent[c], Request("other", 0)) ELSE cSent[c]
  <2>1. /\ cSent' = [cSent EXCEPT ![c] = q] /\ UNCHANGED <<hEnd, cEnd, toClient, number, cPeer, cProfiles>>
        /\ cState' = [cState EXCEPT ![c] = IF cState[c] = "AwaitingHandshake" /\ cBlob[c] THEN "AwaitingResponse"
                                           ELSE IF cState[c] = "ConnectionConfirmed" /\ HasRoom(cSent[c]) THEN "Connected" ELSE @]
    BY <1>3 DEF ClientGoesOn
  <2>2. \A v : Leaves(cSent[c], cRom[c].version, v) => Leaves(q, cRom[c].version, v)
    <3>1. cSent[c] \in Requests
      BY ClientQueued DEF TypeInv
    <3>2. QED
      BY <3>1, LeavesOther, OtherRequests
  <2> HIDE DEF q
  <2>3. cState'[c] # "off" /\ \A d \in Clients \ {c} : cState'[d] = cState[d]
    BY <1>1, <2>1 DEF ProfileInv, OffInv, TypeInv, ClientTypeOK
  <2>4. OffInv(c)'
    BY <2>3 DEF OffInv
  <2>5. QED
    BY <1>1, <2>1, <2>2, <2>3, <2>4, QueueProfiles
<1>4. QED
  BY <1>2, <1>3 DEF ClientEnd

LEMMA ExecuteProfiles ==
  ASSUME TypeInv, ProfileInv, NEW c \in Clients, ClientExecute(c), UNCHANGED hostVars
  PROVE  ProfileInv'
<1> DEFINE r == Head(cSent[c])
<1>1. /\ cSent[c] # << >> /\ cSent[c] \in Requests
      /\ cSent'[c] = Tail(cSent[c]) /\ \A d \in Clients \ {c} : cSent'[d] = cSent[d] /\ cRom'[d] = cRom[d]
      /\ UNCHANGED <<hEnd, cEnd, toClient, number, cState, cPeer, cProfiles, cPc>>
  BY ClientQueued DEF ClientExecute, TypeInv, ClientTypeOK, linkVars
<1>2. cRom'[c].version = IF IsProfiles(r) THEN r.of ELSE cRom[c].version
  <2>1. cRom'[c] = IF r.kind = "handshake" THEN [cRom[c] EXCEPT !.answered = TRUE]
                   ELSE IF r.kind = "profiles" THEN [cRom[c] EXCEPT !.version = r.of] ELSE cRom[c]
    BY DEF ClientExecute, TypeInv, ClientTypeOK
  <2>2. cRom[c] \in [answered : BOOLEAN, version : 0..MaxVersions]
    BY DEF TypeInv, ClientTypeOK
  <2> HIDE DEF r
  <2>3. QED
    BY <2>1, <2>2 DEF IsProfiles
<1>3. \A v : Leaves(cSent[c], cRom[c].version, v) => Leaves(cSent'[c], cRom'[c].version, v)
  <2> DEFINE q == cSent[c]
             b == cRom[c].version
  <2>1. cSent'[c] = Tail(q) /\ cRom'[c].version = (IF IsProfiles(Head(q)) THEN Head(q).of ELSE b) /\ q \in Requests /\ q # << >>
    BY <1>1, <1>2
  <2> HIDE DEF q, b
  <2>2. ASSUME NEW v, Leaves(q, b, v) PROVE Leaves(Tail(q), IF IsProfiles(Head(q)) THEN Head(q).of ELSE b, v)
    BY <2>1, <2>2, LeavesRun
  <2>3. QED
    BY <2>1, <2>2 DEF q, b
<1>4. OffInv(c)'
  BY <1>1 DEF ProfileInv, OffInv
<1>5. Expected(c)' => Latest(c, hProfiles)'
  <2>1. Expected(c)' => Latest(c, hProfiles) /\ hProfiles' = hProfiles
    BY <1>1 DEF ProfileInv, Expected, IsForeign, hostVars
  <2>2. Latest(c, hProfiles) /\ hProfiles' = hProfiles => Latest(c, hProfiles)'
    BY <1>1, <1>3 DEF Latest
  <2>3. QED
    BY <2>1, <2>2
<1>6. QED
  BY <1>1, <1>4, <1>5, ClientLeaves

\* A new connection: the host's end of it is not up.
LEMMA ConnectProfiles ==
  ASSUME TypeInv, ProfileInv, NEW c \in Clients, Connect(c), UNCHANGED <<hostVars, cPeer, cProfiles, cPc, cSent>>,
         \A d \in Clients \ {c} : cState'[d] = cState[d] /\ cRom'[d] = cRom[d],
         cState'[c] = "off" => cState[c] = "off"
  PROVE  ProfileInv'
<1>1. cEnd'[c] = "connecting"
  BY DEF Connect, TypeInv, LinkInv
<1>2. OffInv(c)'
  BY DEF ProfileInv, OffInv
<1>3. \A d \in Clients \ {c} : hEnd'[d] = hEnd[d] /\ cEnd'[d] = cEnd[d] /\ toClient'[d] = toClient[d] /\ number'[d] = number[d]
  BY DEF Connect, TypeInv, LinkInv, Links
<1>4. QED
  BY <1>1, <1>2, <1>3, ClientEndsProfiles

LEMMA ClientProfiles == ASSUME TypeInv, OrderInv, ProfileInv, NEW c \in Clients, ClientNext(c) PROVE ProfileInv'
<1>1. UNCHANGED hostVars
  BY DEF ClientNext
<1>2. CASE OpenClientConnection(c)
  <2>1. cState'[c] = "Connecting" /\ \A d \in Clients \ {c} : cState'[d] = cState[d] /\ cRom'[d] = cRom[d]
    BY <1>2 DEF OpenClientConnection, TypeInv, ClientTypeOK
  <2>2. QED
    BY <1>1, <1>2, <2>1, ConnectProfiles DEF OpenClientConnection
<1>3. CASE ClientGameplayEvent(c)
  BY <1>1, <1>3, GameplayProfiles DEF ClientGameplayEvent
<1>4. CASE ClientDetached(c)
  <2>1. cPc'[c] = "idle" /\ \A d \in Clients \ {c} : cSent'[d] = cSent[d] /\ cPc'[d] = cPc[d]
    BY <1>4 DEF ClientDetached, TypeInv, ClientTypeOK
  <2>2. QED
    BY <1>1, <1>4, <2>1, ClosesProfiles DEF ClientDetached
<1>5. QED
  BY <1>1, <1>2, <1>3, <1>4, ClientBeginProfiles, ClientEventProfiles, ClientEndProfiles, ExecuteProfiles DEF ClientNext

LEMMA ForeignProfiles ==
  ASSUME TypeInv, ProfileInv, NEW c \in Clients, ForeignConnect(c) \/ ForeignSend(c) \/ ForeignClose(c)
  PROVE  ProfileInv'
<1>1. UNCHANGED <<hostVars, clientVars>>
  BY DEF ForeignConnect, ForeignSend, ForeignClose
<1>2. CASE ForeignConnect(c)
  BY <1>1, <1>2, ConnectProfiles DEF ForeignConnect, clientVars
<1>3. CASE ForeignSend(c)
  BY <1>1, <1>3, HostLeaves DEF ForeignSend, hostVars
<1>4. CASE ForeignClose(c)
  <2>1. \A d \in Clients : /\ hEnd'[d] = "up" => hEnd[d] = "up"
                           /\ cEnd'[d] \in {"connect", "up"} => cEnd'[d] = cEnd[d] /\ toClient'[d] = toClient[d]
    BY <1>4 DEF ForeignClose, ClientDrops, Lost, TypeInv, LinkInv, Links
  <2>2. number' = number /\ hProfiles' = hProfiles /\ hPeers' = hPeers
    BY <1>1, <1>4 DEF ForeignClose, ClientDrops, hostVars
  <2>3. QED
    BY <1>1, <2>1, <2>2, HostLeaves
<1>5. QED
  BY <1>2, <1>3, <1>4

\* The invariant of the way of the profiles, from the host's last ConnectedUpdate
\* to the client's game.
THEOREM ProfileInvHolds == Spec => []ProfileInv
<1>1. Init => ProfileInv
  BY DEF Init, LinkInit, HostInit, ClientInit, ProfileInv, OffInv, Expected
<1>2. TypeInv /\ LiveInv /\ OrderInv /\ ProfileInv /\ [Next]_vars => ProfileInv'
  <2> SUFFICES ASSUME TypeInv, LiveInv, OrderInv, ProfileInv, [Next]_vars PROVE ProfileInv'
    OBVIOUS
  <2>1. CASE UNCHANGED vars
    BY <2>1, HostLeaves DEF vars, linkVars, hostVars
  <2>2. QED
    BY <2>1, HostProfiles, ClientProfiles, NetProfiles, ForeignProfiles DEF Next
<1>3. QED
  BY <1>1, <1>2, TypeInvHolds, LiveInvHolds, OrderInvHolds, PTL DEF Spec

\* A client's game ends up with the profiles that the host sent last, once nothing
\* is left in the channel, in m_PendingPlayerProfiles or with the bridge.
THEOREM ProfilesAreKept == Spec => []ProfilesKept
<1>1. QED
  BY ProfileInvImplies, TypeInvHolds, OrderInvHolds, ProfileInvHolds, PTL
=============================================================================
