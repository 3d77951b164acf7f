------------------------------ MODULE BridgeWire ------------------------------
(***************************************************************************)
(* What the two ends of the local bridge share: the frames of bridge       *)
(* protocol 1.0 and the TCP connections that carry them.  A connection is  *)
(* a number in opening order.  Frames travel whole here; how frames are    *)
(* cut into and put back together from bytes is module FrameStream.        *)
(*                                                                         *)
(* A request is identified by a history number, its tag, given out in the  *)
(* order in which sessions submit.  The code does not have it: frames      *)
(* carry it so that the properties can say WHICH request a result, named   *)
(* by a request ID that is used again and again, really answers.           *)
(***************************************************************************)
EXTENDS Naturals, Sequences, FiniteSets

CONSTANTS
  MaxConns,       \* bound: TCP connections opened in one behaviour
  Foreign,        \* the connections not opened by the shipped script
  MaxRequests,    \* bound: requests submitted in one behaviour
  MaxId,          \* largest request ID (2^32 - 1 in the code)
  WireCap         \* frames a socket buffer takes before a send would block

ASSUME WireAssumption ==
  /\ MaxConns \in Nat /\ MaxRequests \in Nat
  /\ MaxId \in Nat \ {0} /\ WireCap \in Nat \ {0}
  /\ Foreign \subseteq 1..MaxConns

Conns == 1..MaxConns
NoConn == 0
Ids == 1..MaxId
Tags == 1..MaxRequests
NoTag == 0
Ops == {"read", "write"}

\* The memory work one frame or queue entry stands for.
Requests == [id : Ids, op : Ops, tag : Tags]

ControlTypes == {"ClientHello", "OldHello", "ServerHello", "Rejected", "Close", "Malformed"}
WorkTypes == {"Request", "Result", "Error"}

\* Request ID 0 and no tag: hellos, Close, and errors about the connection.
Control(type) == [type |-> type, id |-> 0, op |-> "read", tag |-> NoTag]
Work(type, r) == [type |-> type, id |-> r.id, op |-> r.op, tag |-> r.tag]

\* A result or an error without a tag is made up by a client (see Foreign).
Frames ==
  [type : ControlTypes \cup {"Error"}, id : {0}, op : Ops, tag : {NoTag}]
    \cup [type : WorkTypes, id : Ids, op : Ops, tag : Tags]
    \cup [type : WorkTypes \ {"Request"}, id : Ids, op : Ops, tag : {NoTag}]

\* For every connection, what is on its way or waits to be sent.
Streams == [Conns -> Seq(Frames)]

VARIABLES
  opened,     \* number of connections opened so far
  backlog,    \* connections the listener has not accepted yet
  toApp,      \* toApp[c]: frames on their way to the assistant
  toPeer,     \* toPeer[c]: frames on their way to mGBA
  appOpen,    \* appOpen[c]: the assistant's end is open (or may be accepted)
  peerOpen    \* peerOpen[c]: the peer's end is open

wireVars == <<opened, backlog, toApp, toPeer, appOpen, peerOpen>>

WireTypeOK ==
  /\ opened \in 0..MaxConns
  /\ backlog \in Seq(Conns)
  /\ toApp \in Streams
  /\ toPeer \in Streams
  /\ appOpen \in [Conns -> BOOLEAN]
  /\ peerOpen \in [Conns -> BOOLEAN]

WireInit ==
  /\ opened = 0
  /\ backlog = << >>
  /\ toApp = [c \in Conns |-> << >>]
  /\ toPeer = [c \in Conns |-> << >>]
  /\ appOpen = [c \in Conns |-> FALSE]
  /\ peerOpen = [c \in Conns |-> FALSE]

\* A client connects to the listening port; the kernel queues it for accept().
OpenConnection(c) ==
  /\ opened < MaxConns /\ c = opened + 1
  /\ opened' = c
  /\ backlog' = Append(backlog, c)
  /\ appOpen' = [appOpen EXCEPT ![c] = TRUE]
  /\ peerOpen' = [peerOpen EXCEPT ![c] = TRUE]
  /\ UNCHANGED <<toApp, toPeer>>

\* TCP may throw away what an end sent once that end is closed: closing with
\* unread input resets the connection.
ResetConnection(c) ==
  /\ \/ /\ ~peerOpen[c] /\ toApp[c] # << >>
        /\ toApp' = [toApp EXCEPT ![c] = << >>]
        /\ UNCHANGED toPeer
     \/ /\ ~appOpen[c] /\ toPeer[c] # << >>
        /\ toPeer' = [toPeer EXCEPT ![c] = << >>]
        /\ UNCHANGED toApp
  /\ UNCHANGED <<opened, backlog, appOpen, peerOpen>>
=============================================================================
