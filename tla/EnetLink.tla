------------------------------- MODULE EnetLink -------------------------------
(***************************************************************************)
(* ENet as MultiplayerBehaviour uses it (external): one host, and a peer   *)
(* slot for each client.  An end of a connection has an event to report    *)
(* ("connect", "lost"), is "up", or is not there.  Messages keep their     *)
(* order within a channel only.  A disconnect that one end makes reaches   *)
(* the other at once, or as a timeout later.                               *)
(***************************************************************************)
EXTENDS Naturals, Sequences, FiniteSets

CONSTANTS
  Clients,        \* peer slots of the host
  Incompatible,   \* connections, by number, of games that do not match the host's
  Foreign,        \* connections of what is no assistant and sends anything
  MaxConnects,    \* bound: connections ever made
  MaxState,       \* bound: State messages under way on a channel
  MaxVersions,    \* bound: times the host's player profiles change
  MaxOutstanding  \* MaximumOutstandingMemoryRequests

ASSUME LinkAssumption ==
  /\ Clients \subseteq Nat \ {0} /\ Incompatible \subseteq Nat \ {0} /\ Foreign \subseteq Nat \ {0}
  /\ MaxConnects \in Nat /\ MaxState \in Nat /\ MaxVersions \in Nat \ {0} /\ MaxOutstanding \in Nat \ {0}

VARIABLES
  hEnd, cEnd,          \* the host's and the client's end of each connection
  toHost, toClient,    \* messages under way, by client and channel
  number,              \* which connection a slot has: slots are used again
  connects             \* connections made so far

linkVars == <<hEnd, cEnd, toHost, toClient, number, connects>>

Numbers == 0..MaxConnects
IsForeign(c) == number[c] \in Foreign
Matches(c) == number[c] \notin Incompatible
Ends == {"none", "connecting", "connect", "up", "lost"}

\* RogueNetChannel; GameState and PlayerState, which are sent again and again
\* and never repaired, are one channel.
Channels == {"Control", "Handshake", "PlayerProfiles", "State"}

\* ok: the size is right and, for a hello, the games match
\* of: the connection a ROM handshake belongs to, or the profiles' version
\* id: the player ID in a handshake answer, 0 if out of range
Message(ok, of, id) == [ok |-> ok, of |-> of, id |-> id]
Messages == [ok : BOOLEAN, of : 0..(MaxConnects + MaxVersions), id : {0, 1}]

\* Requests to a game's memory that have not run yet
Kinds == {"read", "handshake", "profiles", "other"}
Request(kind, of) == [kind |-> kind, of |-> of]

\* Mutant: one request too many.
HasRoomForOneMore(q) == Len(q) <= MaxOutstanding

\* GameSession::CanSubmit, and a submission that may be refused
HasRoom(q) == Len(q) < MaxOutstanding
Offer(q, r) == IF HasRoom(q) THEN Append(q, r) ELSE q

Quiet == [ch \in Channels |-> << >>]

LinkInit ==
  /\ hEnd = [c \in Clients |-> "none"] /\ cEnd = [c \in Clients |-> "none"]
  /\ toHost = [c \in Clients |-> Quiet] /\ toClient = [c \in Clients |-> Quiet]
  /\ number = [c \in Clients |-> 0]
  /\ connects = 0

LinkTypeOK ==
  /\ hEnd \in [Clients -> Ends] /\ cEnd \in [Clients -> Ends]
  /\ \A c \in Clients, ch \in Channels : toHost[c][ch] \in Seq(Messages) /\ toClient[c][ch] \in Seq(Messages)
  /\ number \in [Clients -> Numbers] /\ connects \in Numbers

\* enet_host_connect: the host's slot is free (again)
Connect(c) ==
  /\ hEnd[c] = "none" /\ cEnd[c] = "none" /\ connects < MaxConnects
  /\ connects' = connects + 1
  /\ number' = [number EXCEPT ![c] = connects + 1]
  /\ cEnd' = [cEnd EXCEPT ![c] = "connecting"]
  /\ toHost' = [toHost EXCEPT ![c] = Quiet] /\ toClient' = [toClient EXCEPT ![c] = Quiet]
  /\ UNCHANGED hEnd

Establish(c) ==
  /\ cEnd[c] = "connecting"
  /\ cEnd' = [cEnd EXCEPT ![c] = "connect"] /\ hEnd' = [hEnd EXCEPT ![c] = "connect"]
  /\ UNCHANGED <<toHost, toClient, number, connects>>

Lost(end) == IF end = "none" THEN "none" ELSE "lost"

\* The network, or a timeout, breaks a connection for the ends that are left.
LinkLost(c) ==
  /\ {hEnd[c], cEnd[c]} \cap {"connecting", "connect", "up"} # {}
  /\ hEnd' = [hEnd EXCEPT ![c] = Lost(@)] /\ cEnd' = [cEnd EXCEPT ![c] = Lost(@)]
  /\ toHost' = [toHost EXCEPT ![c] = Quiet] /\ toClient' = [toClient EXCEPT ![c] = Quiet]
  /\ UNCHANGED <<number, connects>>

\* Channel 3 is not reliable.
StateLost(c) ==
  /\ \/ /\ toHost[c]["State"] # << >>
        /\ toHost' = [toHost EXCEPT ![c]["State"] = Tail(@)] /\ UNCHANGED toClient
     \/ /\ toClient[c]["State"] # << >>
        /\ toClient' = [toClient EXCEPT ![c]["State"] = Tail(@)] /\ UNCHANGED toHost
  /\ UNCHANGED <<hEnd, cEnd, number, connects>>

\* enet_peer_send on one channel of some connections, to ends that are there.
Sent(to, ends, peers, ch, m) ==
  [c \in Clients |->
     IF c \in peers /\ ends[c] \in {"connect", "up"} /\ (ch = "State" => Len(to[c][ch]) < MaxState)
       THEN [to[c] EXCEPT ![ch] = Append(@, m)] ELSE to[c]]

SentToHost(c, ch, m) == Sent(toHost, hEnd, {c}, ch, m)

\* What a foreign peer is sent has no effect.
SentToClients(to, peers, ch, m) == Sent(to, cEnd, {c \in peers : ~IsForeign(c)}, ch, m)

Received(to, c, ch) == [to EXCEPT ![c][ch] = Tail(@)]

\* enet_peer_disconnect_now by the host
HostDrops(peers) ==
  /\ hEnd' = [c \in Clients |-> IF c \in peers THEN "none" ELSE hEnd[c]]
  /\ toHost' = [c \in Clients |-> IF c \in peers THEN Quiet ELSE toHost[c]]
  /\ \E told \in SUBSET peers :
       /\ cEnd' = [c \in Clients |-> IF c \in told THEN Lost(cEnd[c]) ELSE cEnd[c]]
       /\ toClient' = [c \in Clients |-> IF c \in told THEN Quiet ELSE toClient[c]]
  /\ UNCHANGED <<number, connects>>

\* enet_peer_disconnect_now by a client
ClientDrops(c) ==
  /\ cEnd' = [cEnd EXCEPT ![c] = "none"]
  /\ toClient' = [toClient EXCEPT ![c] = Quiet]
  /\ \/ UNCHANGED <<hEnd, toHost>>
     \/ hEnd' = [hEnd EXCEPT ![c] = Lost(@)] /\ toHost' = [toHost EXCEPT ![c] = Quiet]
  /\ UNCHANGED <<number, connects>>

\* enet_host_destroy and enet_peer_reset tell the other end nothing.
HostResets ==
  /\ hEnd' = [c \in Clients |-> "none"] /\ toHost' = [c \in Clients |-> Quiet]
  /\ UNCHANGED <<cEnd, toClient, number, connects>>
=============================================================================
