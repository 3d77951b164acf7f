---------------------------- MODULE BridgeProofs ----------------------------
(***************************************************************************)
(* Proofs about module Bridge, for every number of connections, requests,  *)
(* request IDs and queue sizes: its types, the safety theorems about the   *)
(* worker's tables, and those about answers and the order of requests.     *)
(* The theorems about the tables rest on the inductive invariant Inv,      *)
(* which is about the assistant's side only: what the script, other        *)
(* clients and TCP do cannot disturb it, so they hold whatever arrives on  *)
(* the sockets.  The others rest on FlowInv, which follows the requests    *)
(* around each connection; it is the second half of the module.            *)
(***************************************************************************)
EXTENDS Bridge, TLAPS

(* Functions and sequences. *)

LEMMA ExceptType ==
  ASSUME NEW S, NEW T, NEW f \in [S -> T], NEW x, NEW v \in T
  PROVE  [f EXCEPT ![x] = v] \in [S -> T]
OBVIOUS

LEMMA EmptySeqType ==
  ASSUME NEW S
  PROVE  << >> \in Seq(S)
OBVIOUS

LEMMA AppendType ==
  ASSUME NEW S, NEW s \in Seq(S), NEW e \in S
  PROVE  Append(s, e) \in Seq(S)
OBVIOUS

LEMMA ConcatType ==
  ASSUME NEW S, NEW s \in Seq(S), NEW t \in Seq(S)
  PROVE  s \o t \in Seq(S)
OBVIOUS

LEMMA TailType ==
  ASSUME NEW S, NEW s \in Seq(S), s # << >>
  PROVE  Tail(s) \in Seq(S) /\ Head(s) \in S
OBVIOUS

LEMMA SeqExceptType ==
  ASSUME NEW S, NEW s \in Seq(S), NEW i \in 1..Len(s), NEW e \in S
  PROVE  [s EXCEPT ![i] = e] \in Seq(S)
OBVIOUS

LEMMA SubSeqType ==
  ASSUME NEW S, NEW s \in Seq(S), NEW n \in 0..Len(s)
  PROVE  SubSeq(s, 1, n) \in Seq(S)
OBVIOUS

-----------------------------------------------------------------------------
(* The frames and results the model builds. *)

LEMMA ControlFrames ==
  ASSUME NEW type \in ControlTypes \cup {"Error"}
  PROVE  Control(type) \in Frames
BY WireAssumption DEF Control, Frames, ControlTypes, WorkTypes, Ids, Tags, NoTag, Ops

LEMMA WorkFrames ==
  ASSUME NEW type \in WorkTypes, NEW r \in Requests
  PROVE  Work(type, r) \in Frames
BY DEF Work, Frames, Requests

LEMMA GoodbyeFrames ==
  /\ <<Control("Error"), Control("Close")>> \in Seq(Frames)
  /\ <<Control("Close")>> \in Seq(Frames)
  /\ <<Control("Rejected"), Control("Error"), Control("Close")>> \in Seq(Frames)
  /\ <<Control("ClientHello")>> \in Seq(Frames)
<1>1. Control("Error") \in Frames /\ Control("Close") \in Frames /\ Control("Rejected") \in Frames
      /\ Control("ClientHello") \in Frames
  BY ControlFrames DEF ControlTypes
<1>2. QED
  BY <1>1

\* The streams after those of one connection have changed.
LEMMA StreamSet ==
  ASSUME NEW f \in Streams, NEW c \in Conns, NEW s \in Seq(Frames)
  PROVE  [f EXCEPT ![c] = s] \in Streams
BY DEF Streams

LEMMA StreamClear ==
  ASSUME NEW f \in Streams, NEW c \in Conns
  PROVE  [f EXCEPT ![c] = << >>] \in Streams
BY StreamSet, EmptySeqType

LEMMA StreamAppend ==
  ASSUME NEW f \in Streams, NEW c \in Conns, NEW e \in Frames
  PROVE  [f EXCEPT ![c] = Append(f[c], e)] \in Streams
<1>1. Append(f[c], e) \in Seq(Frames)
  BY AppendType DEF Streams
<1>2. QED
  BY <1>1, StreamSet

LEMMA StreamConcat ==
  ASSUME NEW f \in Streams, NEW c \in Conns, NEW s \in Seq(Frames)
  PROVE  [f EXCEPT ![c] = f[c] \o s] \in Streams
<1>1. f[c] \o s \in Seq(Frames)
  BY ConcatType DEF Streams
<1>2. QED
  BY <1>1, StreamSet

LEMMA StreamTake ==
  ASSUME NEW f \in Streams, NEW c \in Conns, f[c] # << >>
  PROVE  [f EXCEPT ![c] = Tail(f[c])] \in Streams /\ Head(f[c]) \in Frames
<1>1. Tail(f[c]) \in Seq(Frames) /\ Head(f[c]) \in Frames
  BY TailType DEF Streams
<1>2. QED
  BY <1>1, StreamSet

LEMMA CompletePendingType ==
  ASSUME NEW results \in Seq(Results), NEW reqs \in SUBSET Requests, NEW status \in Statuses
  PROVE  CompletePending(results, reqs, status) \in Seq(Results)
<1>1. [status |-> status, reqs |-> reqs, by |-> NoTag] \in Results
  BY DEF Results
<1>2. QED
  BY <1>1 DEF CompletePending

\* A request ID is never 0 and never beyond the largest one.
LEMMA IdAfterType ==
  ASSUME nextId \in Ids, NEW k \in 0..(MaxOutstanding - 1)
  PROVE  IdAfter(k) \in Ids /\ IdAfter(k + 1) \in Ids
BY SessionAssumption, WireAssumption DEF IdAfter, Ids

-----------------------------------------------------------------------------
(* Type correctness, component by component. *)

LEMMA CloseClientType ==
  ASSUME TypeOK, client # NoConn, NEW status \in Statuses, CloseClient(status)
  PROVE  WireTypeOK' /\ TransportTypeOK'
<1>1. tResults' \in Seq(Results)
  BY CompletePendingType DEF CloseClient, TypeOK, TransportTypeOK
<1>2. client \in Conns
  BY DEF TypeOK, TransportTypeOK
<1>3. toApp' \in Streams /\ writer' \in Streams
  BY <1>2, StreamClear DEF CloseClient, TypeOK, WireTypeOK, TransportTypeOK
<1>4. WireTypeOK'
  BY <1>3 DEF CloseClient, TypeOK, WireTypeOK
<1>5. TransportTypeOK'
  BY <1>1, <1>3 DEF CloseClient, TypeOK, TransportTypeOK
<1>6. QED
  BY <1>4, <1>5

LEMMA BeginCloseType ==
  ASSUME TypeOK, client # NoConn, NEW status \in Statuses, NEW frames \in Seq(Frames),
         BeginClose(frames, status)
  PROVE  WireTypeOK' /\ TransportTypeOK'
<1>1. tResults' \in Seq(Results)
  BY CompletePendingType DEF BeginClose, TypeOK, TransportTypeOK
<1>2. client \in Conns
  BY DEF TypeOK, TransportTypeOK
<1>3. toApp' \in Streams /\ writer' \in Streams
  <2>1. toApp \in Streams /\ writer \in Streams
    BY DEF TypeOK, WireTypeOK, TransportTypeOK
  <2>2. toApp' = [toApp EXCEPT ![client] = << >>]
        /\ \/ writer' = [writer EXCEPT ![client] = writer[client] \o frames]
           \/ writer' = [writer EXCEPT ![client] = << >>]
    BY DEF BeginClose
  <2>3. QED
    BY <1>2, <2>1, <2>2, StreamClear, StreamConcat, ZenonT(60)
<1>4. WireTypeOK'
  BY <1>3 DEF BeginClose, TypeOK, WireTypeOK
<1>5. TransportTypeOK'
  BY <1>1, <1>3 DEF BeginClose, TypeOK, TransportTypeOK
<1>6. QED
  BY <1>4, <1>5

\* The steps of PollResults and the part of Submit that is the transport's.
LEMMA AcceptType ==
  ASSUME TypeOK, AcceptClient \/ RejectBusyClient \/ FlushClosingPeers
  PROVE  WireTypeOK' /\ TransportTypeOK'
<1>1. CASE AcceptClient
  BY <1>1, TailType DEF AcceptClient, TypeOK, WireTypeOK, TransportTypeOK
<1>2. CASE RejectBusyClient
  <2>1. Head(backlog) \in Conns /\ Tail(backlog) \in Seq(Conns)
    BY <1>2, TailType DEF RejectBusyClient, TypeOK, WireTypeOK
  <2>2. toApp' \in Streams /\ writer' \in Streams
    <3>1. toApp \in Streams /\ writer \in Streams
      BY DEF TypeOK, WireTypeOK, TransportTypeOK
    <3>2. CASE Cardinality(closingPeers) >= MaxClosingPeers
      BY <1>2, <2>1, <3>1, <3>2, StreamClear DEF RejectBusyClient
    <3>3. CASE ~(Cardinality(closingPeers) >= MaxClosingPeers)
      BY <1>2, <2>1, <3>1, <3>3, StreamSet, GoodbyeFrames, ZenonT(60) DEF RejectBusyClient
    <3>4. QED
      BY <3>2, <3>3
  <2>3. QED
    BY <1>2, <2>1, <2>2 DEF RejectBusyClient, TypeOK, WireTypeOK, TransportTypeOK
<1>3. CASE FlushClosingPeers
  <2>1. PICK sent \in SUBSET {c \in closingPeers : writer[c] # << >>} : FlushClosingPeers!(sent)
    BY <1>3 DEF FlushClosingPeers
  <2>2. \A c \in Conns : writer[c] # << >> => /\ Append(toPeer[c], Head(writer[c])) \in Seq(Frames)
                                             /\ Tail(writer[c]) \in Seq(Frames)
    BY AppendType, TailType DEF TypeOK, WireTypeOK, TransportTypeOK, Streams
  <2>3. toPeer' \in Streams /\ writer' \in Streams /\ toApp' \in Streams
    BY <2>1, <2>2, EmptySeqType DEF TypeOK, WireTypeOK, TransportTypeOK, Streams
  <2>4. QED
    BY <2>1, <2>3 DEF TypeOK, WireTypeOK, TransportTypeOK
<1>4. QED
  BY <1>1, <1>2, <1>3

LEMMA ArrivingFrame ==
  ASSUME TypeOK, Arriving
  PROVE  client \in Conns /\ client # NoConn /\ Frame \in Frames
         /\ [toApp EXCEPT ![client] = Tail(toApp[client])] \in Streams
<1>1. client \in Conns /\ toApp \in Streams /\ toApp[client] # << >>
  BY DEF TypeOK, WireTypeOK, TransportTypeOK, Arriving, CanReceive
<1>2. QED
  BY <1>1, StreamTake DEF Frame, Arriving, CanReceive

LEMMA ResultsType ==
  ASSUME NEW results \in Seq(Results), NEW p \in Requests, NEW status \in Statuses, NEW by \in Tags \cup {NoTag}
  PROVE  Append(results, [status |-> status, reqs |-> {p}, by |-> by]) \in Seq(Results)
<1>1. [status |-> status, reqs |-> {p}, by |-> by] \in Results
  BY DEF Results
<1>2. QED
  BY <1>1, AppendType

LEMMA ReceiveType ==
  ASSUME TypeOK,
         \/ AcceptHello \/ RejectHello \/ ReceiveResult \/ ReceiveError
         \/ ReceiveClose \/ ReceiveUnexpected \/ ReceiveClosed
  PROVE  WireTypeOK' /\ TransportTypeOK'
<1>1. CASE AcceptHello
  <2>1. CASE HasRoom(client, 1)
    <3>1. Control("ServerHello") \in Frames /\ client \in Conns
      BY <1>1, ControlFrames, ArrivingFrame DEF ControlTypes, AcceptHello
    <3>2. writer' \in Streams
      BY <1>1, <2>1, <3>1, StreamAppend DEF AcceptHello, TypeOK, TransportTypeOK
    <3>3. toApp' \in Streams
      BY <1>1, <2>1, ArrivingFrame DEF AcceptHello, Take
    <3>4. QED
      BY <1>1, <2>1, <3>2, <3>3 DEF AcceptHello, Take, TypeOK, WireTypeOK, TransportTypeOK
  <2>2. CASE ~HasRoom(client, 1)
    BY <1>1, <2>2, ArrivingFrame, CloseClientType DEF AcceptHello, Statuses
  <2>3. QED
    BY <2>1, <2>2
<1>2. CASE RejectHello
  BY <1>2, ArrivingFrame, GoodbyeFrames, BeginCloseType DEF RejectHello, Statuses
<1>3. CASE ReceiveResult
  <2>1. toApp' \in Streams
    BY <1>3, ArrivingFrame DEF ReceiveResult, Take
  <2>2. tResults' \in Seq(Results) /\ tPending' \subseteq Requests
    <3>1. Frame.tag \in Tags \cup {NoTag}
      BY <1>3, ArrivingFrame DEF ReceiveResult, Frames
    <3>2. QED
      BY <1>3, <3>1, ResultsType DEF ReceiveResult, TypeOK, TransportTypeOK, Statuses
  <2>3. QED
    BY <1>3, <2>1, <2>2 DEF ReceiveResult, Take, TypeOK, WireTypeOK, TransportTypeOK
<1>4. CASE ReceiveError
  <2>1. client \in Conns /\ Frame.tag \in Tags \cup {NoTag}
    BY <1>4, ArrivingFrame DEF ReceiveError, Frames
  <2>2. tResults' \in Seq(Results)
    <3>1. PICK p \in tPending :
            tResults' = CompletePending(Append(tResults, [status |-> "Failed", reqs |-> {p}, by |-> Frame.tag]),
                                        tPending \ {p}, "Disconnected")
      BY <1>4 DEF ReceiveError
    <3>2. Append(tResults, [status |-> "Failed", reqs |-> {p}, by |-> Frame.tag]) \in Seq(Results)
      BY <2>1, ResultsType DEF TypeOK, TransportTypeOK, Statuses
    <3>3. QED
      BY <3>1, <3>2, CompletePendingType DEF TypeOK, TransportTypeOK, Statuses
  <2>3. writer' \in Streams
    <3>1. writer' = [writer EXCEPT ![client] = Append(writer[client], Control("Close"))] \/ writer' = writer
      <4>1. CASE HasRoom(client, 1)
        BY <1>4, <4>1 DEF ReceiveError
      <4>2. CASE ~HasRoom(client, 1)
        BY <1>4, <4>2 DEF ReceiveError, TypeOK, TransportTypeOK, Streams
      <4>3. QED
        BY <4>1, <4>2
    <3>2. Control("Close") \in Frames
      BY ControlFrames DEF ControlTypes
    <3>3. QED
      BY <2>1, <3>1, <3>2, StreamAppend DEF TypeOK, TransportTypeOK
  <2>4. toApp' \in Streams
    BY <1>4, <2>1, StreamClear DEF ReceiveError, TypeOK, WireTypeOK
  <2>5. QED
    BY <1>4, <2>2, <2>3, <2>4 DEF ReceiveError, TypeOK, WireTypeOK, TransportTypeOK
<1>5. CASE ReceiveClose
  BY <1>5, ArrivingFrame, GoodbyeFrames, BeginCloseType DEF ReceiveClose, BeginOrderlyClose, Statuses
<1>6. CASE ReceiveUnexpected
  BY <1>6, ArrivingFrame, GoodbyeFrames, BeginCloseType DEF ReceiveUnexpected, BeginProtocolClose, Statuses
<1>7. CASE ReceiveClosed
  BY <1>7, CloseClientType DEF ReceiveClosed, CanReceive, Statuses
<1>8. QED
  BY <1>1, <1>2, <1>3, <1>4, <1>5, <1>6, <1>7

LEMMA FlushType ==
  ASSUME TypeOK, FlushFrame \/ FlushError \/ FlushEnd
  PROVE  WireTypeOK' /\ TransportTypeOK'
<1>1. CASE FlushFrame
  <2>1. client \in Conns /\ toPeer \in Streams /\ writer \in Streams /\ writer[client] # << >>
    BY <1>1 DEF FlushFrame, TypeOK, WireTypeOK, TransportTypeOK
  <2>2. writer' \in Streams /\ Head(writer[client]) \in Frames
    BY <1>1, <2>1, StreamTake DEF FlushFrame
  <2>3. toPeer' \in Streams
    <3>1. CASE peerOpen[client]
      BY <1>1, <2>1, <2>2, <3>1, StreamAppend DEF FlushFrame
    <3>2. CASE ~peerOpen[client]
      BY <1>1, <2>1, <3>2 DEF FlushFrame
    <3>3. QED
      BY <3>1, <3>2
  <2>4. QED
    BY <1>1, <2>2, <2>3 DEF FlushFrame, TypeOK, WireTypeOK, TransportTypeOK
<1>2. CASE FlushError
  BY <1>2, CloseClientType DEF FlushError, Statuses
<1>3. CASE FlushEnd
  <2>1. CASE client # NoConn /\ closing /\ writer[client] = << >>
    BY <1>3, <2>1, CloseClientType DEF FlushEnd, Statuses
  <2>2. CASE ~(client # NoConn /\ closing /\ writer[client] = << >>)
    BY <1>3, <2>2 DEF FlushEnd, TypeOK, WireTypeOK, TransportTypeOK, wireVars, transportVars
  <2>3. QED
    BY <2>1, <2>2
<1>4. QED
  BY <1>1, <1>2, <1>3

LEMMA StopSocketsType ==
  ASSUME TypeOK, StopSockets
  PROVE  WireTypeOK' /\ closingPeers' \subseteq Conns /\ tPending' \subseteq Requests
         /\ client' \in Conns \cup {NoConn} /\ handshake' \in BOOLEAN /\ closing' \in BOOLEAN
         /\ writer' \in Streams
<1>1. [c \in Conns |-> << >>] \in Streams
  BY EmptySeqType DEF Streams
<1>2. toPeer' \in Streams
  <2>1. PICK sent \in BOOLEAN :
          /\ sent => client # NoConn
          /\ toPeer' = IF sent THEN [toPeer EXCEPT ![client] = Append(toPeer[client], Control("Close"))] ELSE toPeer
    BY DEF StopSockets
  <2>2. Control("Close") \in Frames /\ toPeer \in Streams
    BY ControlFrames DEF ControlTypes, TypeOK, WireTypeOK
  <2>3. CASE sent
    <3>1. client \in Conns
      BY <2>1, <2>3 DEF TypeOK, TransportTypeOK
    <3>2. QED
      BY <2>1, <2>2, <2>3, <3>1, StreamAppend
  <2>4. CASE ~sent
    BY <2>1, <2>2, <2>4
  <2>5. QED
    BY <2>3, <2>4
<1>3. QED
  BY <1>1, <1>2, EmptySeqType DEF StopSockets, TypeOK, WireTypeOK

LEMMA SubmitType ==
  ASSUME TypeOK, SubmitAccepted \/ SubmitRefused
  PROVE  WireTypeOK' /\ TransportTypeOK' /\ SessionTypeOK'
<1>1. CASE SubmitAccepted
  <2>1. PICK k \in 0..(MaxOutstanding - 1), op \in Ops :
          /\ nextId' = IdAfter(k + 1)
          /\ LET r == [id |-> IdAfter(k), op |-> op, tag |-> issued + 1] IN
             /\ SubmitQueued(r) \/ SubmitOversize(r)
             /\ sPending' = sPending \cup {r}
             /\ issued' = r.tag
             /\ owner' = [owner EXCEPT ![r.tag] = session]
    BY <1>1 DEF SubmitAccepted
  <2> DEFINE r == [id |-> IdAfter(k), op |-> op, tag |-> issued + 1]
  <2>2. IdAfter(k) \in Ids /\ IdAfter(k + 1) \in Ids
    BY IdAfterType DEF TypeOK, SessionTypeOK
  <2>3. issued + 1 \in Tags
    BY <1>1, WireAssumption DEF SubmitAccepted, TypeOK, SessionTypeOK, Tags
  <2>4. r \in Requests
    BY <2>2, <2>3 DEF Requests
  <2>5. WireTypeOK'
    BY <1>1 DEF SubmitAccepted, TypeOK, WireTypeOK, wireVars
  <2>6. SessionTypeOK'
    <3>1. /\ r.tag = issued + 1
          /\ UNCHANGED <<session, sStopped, outcome, answeredBy, calls>>
      BY <1>1 DEF SubmitAccepted
    <3>2. nextId' \in Ids /\ sPending' \subseteq Requests /\ issued' = issued + 1
      BY <2>1, <2>2, <2>4, <3>1 DEF TypeOK, SessionTypeOK
    <3>3. owner' = [owner EXCEPT ![issued + 1] = session]
      BY <2>1, <3>1
    <3>4. QED
      BY <2>3, <3>1, <3>2, <3>3, WireAssumption, SMTT(30) DEF TypeOK, SessionTypeOK, Tags
  <2>7. SubmitQueued(r) => TransportTypeOK'
    <3> SUFFICES ASSUME SubmitQueued(r) PROVE TransportTypeOK'
      OBVIOUS
    <3>1. Work("Request", r) \in Frames /\ client \in Conns /\ writer \in Streams
      BY <2>4, WorkFrames DEF WorkTypes, SubmitQueued, CanSend, TypeOK, TransportTypeOK
    <3>2. writer' \in Streams
      BY <3>1, StreamAppend DEF SubmitQueued
    <3>3. QED
      BY <2>4, <3>2 DEF SubmitQueued, TypeOK, TransportTypeOK
  <2>8. SubmitOversize(r) => TransportTypeOK'
    <3> SUFFICES ASSUME SubmitOversize(r) PROVE TransportTypeOK'
      OBVIOUS
    <3>1. tResults' \in Seq(Results)
      BY <2>4, ResultsType DEF SubmitOversize, TypeOK, TransportTypeOK, Statuses
    <3>2. QED
      BY <3>1 DEF SubmitOversize, TypeOK, TransportTypeOK
  <2>9. QED
    BY <2>1, <2>5, <2>6, <2>7, <2>8
<1>2. CASE SubmitRefused
  BY <1>2, IdAfterType
     DEF SubmitRefused, TypeOK, WireTypeOK, TransportTypeOK, SessionTypeOK, wireVars, transportVars, historyVars
<1>3. QED
  BY <1>1, <1>2

LEMMA CompleteType ==
  ASSUME TypeOK, NEW reqs, NEW status \in Statuses, NEW by \in Tags \cup {NoTag}, Complete(reqs, status, by)
  PROVE  /\ outcome' \in [Tags -> Statuses \cup {"none"}]
         /\ answeredBy' \in [Tags -> Tags \cup {NoTag}]
         /\ calls' \in [Tags -> Nat]
BY DEF Complete, TypeOK, SessionTypeOK

LEMMA StopSessionType ==
  ASSUME TypeOK, StopSession
  PROVE  SessionTypeOK'
<1>1. "Disconnected" \in Statuses
  BY DEF Statuses
<1>2. QED
  BY <1>1, CompleteType DEF StopSession, TypeOK, SessionTypeOK

LEMMA DeliverType ==
  ASSUME TypeOK, NEW r \in Requests, NEW status \in Statuses, NEW by \in Tags \cup {NoTag},
         CompleteOk(r, by) \/ CompleteFailed(r, status, by)
  PROVE  SessionTypeOK'
<1>1. CASE CompleteOk(r, by)
  <2>1. "Ok" \in Statuses
    BY DEF Statuses
  <2>2. QED
    BY <1>1, <2>1, CompleteType DEF CompleteOk, TypeOK, SessionTypeOK
<1>2. CASE CompleteFailed(r, status, by)
  <2>1. outcome' \in [Tags -> Statuses \cup {"none"}]
    BY <1>2 DEF CompleteFailed, TypeOK, SessionTypeOK, Statuses
  <2>2. answeredBy' \in [Tags -> Tags \cup {NoTag}]
    <3>1. answeredBy \in [Tags -> Tags \cup {NoTag}]
      BY DEF TypeOK, SessionTypeOK
    <3>2. PICK p \in sPending : answeredBy' = [answeredBy EXCEPT ![p.tag] = by]
      BY <1>2 DEF CompleteFailed
    <3>3. QED
      BY <3>1, <3>2, ExceptType
  <2>3. calls' \in [Tags -> Nat]
    BY <1>2 DEF CompleteFailed, TypeOK, SessionTypeOK
  <2>4. QED
    BY <1>2, <2>1, <2>2, <2>3 DEF CompleteFailed, TypeOK, SessionTypeOK
<1>3. QED
  BY <1>1, <1>2

-----------------------------------------------------------------------------
(* The script and the other clients. *)

LEMMA OpenConnectionType ==
  ASSUME TypeOK, NEW c \in Conns, OpenConnection(c)
  PROVE  WireTypeOK'
BY AppendType DEF OpenConnection, TypeOK, WireTypeOK, Conns

LEMMA CloseSocketType ==
  ASSUME TypeOK, sock # NoConn, CloseSocket
  PROVE  /\ sock' \in Conns \cup {NoConn} /\ operations' \in Seq(Operations) /\ outgoing' \in Seq(Frames)
         /\ phase' = "disconnected"
         /\ toPeer' \in Streams /\ peerOpen' \in [Conns -> BOOLEAN]
<1>1. sock \in Conns
  BY DEF TypeOK, ScriptTypeOK
<1>2. toPeer' \in Streams
  BY <1>1, StreamClear DEF CloseSocket, TypeOK, WireTypeOK
<1>3. QED
  BY <1>2, EmptySeqType DEF CloseSocket, TypeOK, WireTypeOK

LEMMA LuaFrameType ==
  ASSUME TypeOK, LuaArriving
  PROVE  sock \in Conns /\ sock # NoConn /\ LuaFrame \in Frames
         /\ [toPeer EXCEPT ![sock] = Tail(toPeer[sock])] \in Streams
<1>1. sock \in Conns /\ toPeer \in Streams /\ toPeer[sock] # << >>
  BY DEF LuaArriving, TypeOK, WireTypeOK, ScriptTypeOK
<1>2. QED
  BY <1>1, StreamTake DEF LuaFrame, LuaArriving

Phases == {"disconnected", "awaiting_hello", "connected", "closing"}

LEMMA QueueOrFailType ==
  ASSUME TypeOK, LuaArriving, NEW frames \in Seq(Frames), NEW next \in Phases, QueueOrFail(frames, next)
  PROVE  WireTypeOK' /\ ScriptTypeOK'
<1>1. CASE Len(outgoing) + Len(frames) <= MaxOutgoing
  <2>1. outgoing' \in Seq(Frames)
    BY <1>1, ConcatType DEF QueueOrFail, TypeOK, ScriptTypeOK
  <2>2. toPeer' \in Streams
    BY <1>1, LuaFrameType DEF QueueOrFail, LuaTake
  <2>3. QED
    BY <1>1, <2>1, <2>2 DEF QueueOrFail, LuaTake, LuaArriving, TypeOK, WireTypeOK, ScriptTypeOK, Phases
<1>2. CASE ~(Len(outgoing) + Len(frames) <= MaxOutgoing)
  <2>1. CloseSocket /\ sock # NoConn
    BY <1>2, LuaFrameType DEF QueueOrFail
  <2>2. QED
    BY <2>1, CloseSocketType DEF LuaArriving, TypeOK, WireTypeOK, ScriptTypeOK
<1>3. QED
  BY <1>1, <1>2

LEMMA LuaReceiveType ==
  ASSUME TypeOK, LuaHello \/ LuaRequest \/ LuaError \/ LuaClose \/ LuaUnexpected
  PROVE  WireTypeOK' /\ ScriptTypeOK'
<1>1. CASE LuaHello \/ LuaError
  <2>1. LuaArriving /\ LuaTake /\ phase' \in Phases /\ UNCHANGED <<operations, outgoing>>
    BY <1>1 DEF LuaHello, LuaError, Phases, TypeOK, ScriptTypeOK
  <2>2. toPeer' \in Streams
    BY <2>1, LuaFrameType DEF LuaTake
  <2>3. QED
    BY <2>1, <2>2 DEF LuaTake, LuaArriving, TypeOK, WireTypeOK, ScriptTypeOK, Phases
<1>2. CASE LuaRequest
  <2> DEFINE r == [id |-> LuaFrame.id, op |-> LuaFrame.op, tag |-> LuaFrame.tag]
  <2>1. r \in Requests
    <3>1. LuaFrame \in Frames /\ LuaFrame.type = "Request"
      BY <1>2, LuaFrameType DEF LuaRequest
    <3>2. QED
      BY <3>1 DEF Frames, Requests, ControlTypes
  <2>2. CASE Len(operations) < MaxOps
    <3>1. operations' = Append(operations, [req |-> r, at |-> "new"]) /\ LuaTake /\ UNCHANGED <<phase, outgoing>>
      BY <1>2, <2>2 DEF LuaRequest
    <3>2. [req |-> r, at |-> "new"] \in Operations
      BY <2>1 DEF Operations
    <3>3. operations' \in Seq(Operations)
      BY <3>1, <3>2, AppendType DEF TypeOK, ScriptTypeOK
    <3>4. toPeer' \in Streams
      BY <1>2, <3>1, LuaFrameType DEF LuaTake, LuaRequest
    <3>5. QED
      BY <1>2, <3>1, <3>3, <3>4 DEF LuaRequest, LuaTake, LuaArriving, TypeOK, WireTypeOK, ScriptTypeOK
  <2>3. CASE ~(Len(operations) < MaxOps)
    <3>1. <<Work("Error", r)>> \in Seq(Frames) /\ phase \in Phases
      BY <2>1, WorkFrames DEF WorkTypes, TypeOK, ScriptTypeOK, Phases
    <3>2. QED
      BY <1>2, <2>3, <3>1, QueueOrFailType DEF LuaRequest
  <2>4. QED
    BY <2>2, <2>3
<1>3. CASE LuaClose \/ LuaUnexpected
  BY <1>3, QueueOrFailType, GoodbyeFrames DEF LuaClose, LuaUnexpected, LuaProtocolClose, Phases
<1>4. QED
  BY <1>1, <1>2, <1>3

LEMMA LuaConnectionType ==
  ASSUME TypeOK, LuaConnect \/ LuaDisconnected \/ LuaStop \/ LuaRestart
  PROVE  WireTypeOK' /\ ScriptTypeOK'
<1>1. CASE LuaConnect
  <2>1. PICK c \in Conns : OpenConnection(c) /\ sock' = c
    BY <1>1 DEF LuaConnect
  <2>2. QED
    BY <1>1, <2>1, OpenConnectionType, GoodbyeFrames DEF LuaConnect, TypeOK, ScriptTypeOK
<1>2. CASE LuaDisconnected
  BY <1>2, CloseSocketType DEF LuaDisconnected, TypeOK, WireTypeOK, ScriptTypeOK
<1>3. CASE LuaStop
  <2>1. CASE sock = NoConn
    BY <1>3, <2>1 DEF LuaStop, TypeOK, WireTypeOK, ScriptTypeOK
  <2>2. CASE sock # NoConn
    <3> DEFINE last == IF Len(outgoing) < MaxOutgoing THEN Append(outgoing, Control("Close")) ELSE outgoing
    <3>1. last \in Seq(Frames)
      <4>1. Control("Close") \in Frames
        BY ControlFrames DEF ControlTypes
      <4>2. QED
        BY <4>1, AppendType DEF TypeOK, ScriptTypeOK
    <3>2. PICK n \in 0..Len(last) :
            toApp' = IF appOpen[sock] THEN [toApp EXCEPT ![sock] = toApp[sock] \o SubSeq(last, 1, n)] ELSE toApp
      BY <1>3, <2>2 DEF LuaStop
    <3>3. SubSeq(last, 1, n) \in Seq(Frames)
      BY <3>1, SubSeqType
    <3>4. toApp' \in Streams
      <4>1. toApp \in Streams /\ sock \in Conns
        BY <2>2 DEF TypeOK, WireTypeOK, ScriptTypeOK
      <4>2. CASE appOpen[sock]
        <5> HIDE DEF last
        <5>1. QED
          BY <3>2, <3>3, <4>1, <4>2, StreamConcat
      <4>3. CASE ~appOpen[sock]
        BY <3>2, <4>1, <4>3
      <4>4. QED
        BY <4>2, <4>3
    <3>5. CloseSocket
      BY <1>3, <2>2 DEF LuaStop
    <3>6. QED
      BY <1>3, <2>2, <3>4, <3>5, CloseSocketType DEF LuaStop, TypeOK, WireTypeOK, ScriptTypeOK
  <2>3. QED
    BY <2>1, <2>2
<1>4. CASE LuaRestart
  <2>1. CASE sock = NoConn
    BY <1>4, <2>1 DEF LuaRestart, TypeOK, WireTypeOK, ScriptTypeOK
  <2>2. CASE sock # NoConn
    BY <1>4, <2>2, CloseSocketType DEF LuaRestart, TypeOK, WireTypeOK, ScriptTypeOK
  <2>3. QED
    BY <2>1, <2>2
<1>5. QED
  BY <1>1, <1>2, <1>3, <1>4

LEMMA LuaWorkType ==
  ASSUME TypeOK, OnFrame \/ RunOperation \/ QueueResponse \/ EndWork
  PROVE  WireTypeOK' /\ ScriptTypeOK'
<1>1. CASE OnFrame \/ EndWork
  BY <1>1 DEF OnFrame, EndWork, TypeOK, WireTypeOK, ScriptTypeOK, wireVars
<1>2. CASE RunOperation \/ QueueResponse
  <2>1. operations \in Seq(Operations) /\ operations # << >>
    BY <1>2 DEF RunOperation, QueueResponse, AtHead, TypeOK, ScriptTypeOK
  <2>2. Head(operations) \in Operations /\ Tail(operations) \in Seq(Operations)
    BY <2>1, TailType
  <2>3. CASE RunOperation
    <3>1. PICK at \in {"partial", "done", "failed"} : operations' = [operations EXCEPT ![1].at = at]
      BY <2>3 DEF RunOperation
    <3>2. operations' \in Seq(Operations)
      <4>1. 1 \in 1..Len(operations) /\ operations[1] \in Operations
        BY <2>1
      <4>2. [operations[1] EXCEPT !.at = at] \in Operations
        BY <4>1 DEF Operations
      <4>3. operations' = [operations EXCEPT ![1] = [operations[1] EXCEPT !.at = at]]
        BY <3>1
      <4>4. QED
        BY <2>1, <4>1, <4>2, <4>3, SeqExceptType
    <3>3. ran' \in Seq(Tags)
      <4>1. Head(operations).req.tag \in Tags
        BY <2>2 DEF Operations, Requests
      <4>2. QED
        BY <2>3, <4>1, AppendType DEF RunOperation, TypeOK, ScriptTypeOK
    <3>4. QED
      BY <2>3, <3>2, <3>3 DEF RunOperation, TypeOK, WireTypeOK, ScriptTypeOK, wireVars
  <2>4. CASE QueueResponse
    <3>1. Head(operations).req \in Requests
      BY <2>2 DEF Operations
    <3>2. PICK type \in {"Result", "Error"} : outgoing' = Append(outgoing, Work(type, Head(operations).req))
      BY <2>4 DEF QueueResponse
    <3>3. outgoing' \in Seq(Frames)
      BY <3>1, <3>2, WorkFrames, AppendType DEF WorkTypes, TypeOK, ScriptTypeOK
    <3>4. QED
      BY <2>4, <2>2, <3>3 DEF QueueResponse, TypeOK, WireTypeOK, ScriptTypeOK, wireVars
  <2>5. QED
    BY <1>2, <2>3, <2>4
<1>3. QED
  BY <1>1, <1>2

LEMMA LuaFlushType ==
  ASSUME TypeOK, sock \in Conns, LuaFlush \/ EndFrame
  PROVE  WireTypeOK' /\ ScriptTypeOK'
<1>1. CASE LuaFlush
  <2>1. Head(outgoing) \in Frames /\ Tail(outgoing) \in Seq(Frames)
    BY <1>1, TailType DEF LuaFlush, TypeOK, ScriptTypeOK
  <2>2. toApp' \in Streams
    <3>1. toApp \in Streams
      BY DEF TypeOK, WireTypeOK
    <3>2. CASE appOpen[sock]
      BY <1>1, <2>1, <3>1, <3>2, StreamAppend DEF LuaFlush
    <3>3. CASE ~appOpen[sock]
      BY <1>1, <3>1, <3>3 DEF LuaFlush
    <3>4. QED
      BY <3>2, <3>3
  <2>3. QED
    BY <1>1, <2>1, <2>2 DEF LuaFlush, TypeOK, WireTypeOK, ScriptTypeOK
<1>2. CASE EndFrame
  <2>1. sock # NoConn
    BY WireAssumption DEF Conns, NoConn
  <2>2. CASE CloseSocket
    BY <1>2, <2>1, <2>2, CloseSocketType DEF EndFrame, TypeOK, WireTypeOK, ScriptTypeOK
  <2>3. CASE UNCHANGED <<phase, sock, operations, outgoing, toPeer, peerOpen>>
    BY <1>2, <2>3 DEF EndFrame, TypeOK, WireTypeOK, ScriptTypeOK
  <2>4. QED
    BY <1>2, <2>2, <2>3 DEF EndFrame
<1>3. QED
  BY <1>1, <1>2

LEMMA ForeignType ==
  ASSUME TypeOK, ForeignNext
  PROVE  WireTypeOK'
<1>1. CASE ForeignConnect
  BY <1>1, OpenConnectionType, WireAssumption DEF ForeignConnect, Conns
<1>2. ASSUME NEW c \in Foreign, ForeignSend(c)
      PROVE  WireTypeOK'
  <2>1. PICK f \in ForeignFrames : toApp' = [toApp EXCEPT ![c] = Append(toApp[c], f)]
    BY <1>2 DEF ForeignSend
  <2>2. f \in Frames /\ c \in Conns
    BY WireAssumption DEF ForeignFrames, Frames, Control, ControlTypes, WorkTypes, Conns, NoTag, Ops
  <2>3. toApp' \in Streams
    BY <2>1, <2>2, StreamAppend DEF TypeOK, WireTypeOK
  <2>4. QED
    BY <1>2, <2>3 DEF ForeignSend, TypeOK, WireTypeOK
<1>3. ASSUME NEW c \in Foreign, ForeignRead(c) \/ ForeignClose(c)
      PROVE  WireTypeOK'
  <2>1. c \in Conns /\ toPeer \in Streams
    BY WireAssumption DEF Conns, TypeOK, WireTypeOK
  <2>2. toPeer' \in Streams
    BY <1>3, <2>1, StreamTake, StreamClear DEF ForeignRead, ForeignClose
  <2>3. QED
    BY <1>3, <2>2 DEF ForeignRead, ForeignClose, TypeOK, WireTypeOK
<1>4. QED
  BY <1>1, <1>2, <1>3 DEF ForeignNext

LEMMA ResetType ==
  ASSUME TypeOK, NEW c \in Conns, ResetConnection(c)
  PROVE  WireTypeOK'
<1>1. toApp' \in Streams /\ toPeer' \in Streams
  BY StreamClear DEF ResetConnection, TypeOK, WireTypeOK
<1>2. QED
  BY <1>1 DEF ResetConnection, TypeOK, WireTypeOK

-----------------------------------------------------------------------------
(* Type correctness of the whole. *)

TypeInv == TypeOK /\ InFrame

LEMMA ScriptStep ==
  ASSUME TypeInv, ScriptNext
  PROVE  TypeInv'
<1>1. UNCHANGED appVars
  BY DEF ScriptNext
<1>2. sock \in Conns \/ ~(LuaFlush \/ EndFrame)
  BY DEF TypeInv, InFrame, LuaFlush, EndFrame, TypeOK, ScriptTypeOK
<1>3. WireTypeOK' /\ ScriptTypeOK'
  BY <1>2, LuaReceiveType, LuaConnectionType, LuaWorkType, LuaFlushType DEF ScriptNext, TypeInv
<1>4. TypeOK'
  BY <1>1, <1>3 DEF TypeInv, TypeOK, TransportTypeOK, SessionTypeOK, appVars, transportVars, sessionVars, managerVars
<1>5. InFrame'
  BY DEF TypeInv, InFrame, ScriptNext, LuaConnect, LuaHello, LuaRequest, LuaError, LuaClose, LuaUnexpected, LuaArriving,
         LuaDisconnected, OnFrame, RunOperation, QueueResponse, EndWork, LuaFlush, EndFrame, LuaStop, LuaRestart
<1>6. QED
  BY <1>4, <1>5 DEF TypeInv

LEMMA WorkerStep ==
  ASSUME TypeOK, WorkerNext
  PROVE  TypeOK'
<1>0. UNCHANGED scriptVars
  BY DEF WorkerNext, Tick, Accept, EndAccept, Receive, EndReceive, Flush, EndFlush, TakeResults, DropResults, AcceptGame,
         DeliverResult, EndDeliver, Submit, Disconnect, EndUpdate, Reap, ChangeBridgePort, Stop
<1>1. ScriptTypeOK'
  BY <1>0 DEF TypeOK, ScriptTypeOK, scriptVars
<1>2. CASE Tick \/ EndReceive \/ EndUpdate \/ Reap
  <2>1. CASE Tick \/ EndReceive \/ EndUpdate
    BY <1>1, <2>1 DEF Tick, EndReceive, EndUpdate, TypeOK, WireTypeOK, TransportTypeOK, SessionTypeOK, Stages,
                      wireVars, transportVars, sessionVars
  <2>2. CASE Reap
    BY <1>1, <2>2 DEF Reap, TypeOK, WireTypeOK, TransportTypeOK, SessionTypeOK, Stages,
                      wireVars, transportVars, sessionVars
  <2>3. QED
    BY <1>2, <2>1, <2>2
<1>3. CASE Accept \/ EndAccept
  BY <1>1, <1>3, AcceptType DEF Accept, EndAccept, TypeOK, SessionTypeOK, Stages, sessionVars, managerVars
<1>4. CASE Receive
  BY <1>1, <1>4, ReceiveType DEF Receive, TypeOK, SessionTypeOK, sessionVars, managerVars
<1>5. CASE Flush \/ EndFlush
  BY <1>1, <1>5, FlushType DEF Flush, EndFlush, TypeOK, SessionTypeOK, Stages, sessionVars, managerVars
<1>6. CASE TakeResults \/ DropResults
  BY <1>1, <1>6, EmptySeqType, ZenonT(60)
     DEF TakeResults, DropResults, TypeOK, WireTypeOK, TransportTypeOK, SessionTypeOK, Stages, wireVars, sessionVars
<1>7. CASE AcceptGame
  <2>1. SessionTypeOK'
    <3>1. 1 \in Ids
      BY WireAssumption DEF Ids
    <3>2. session' \in Nat
      BY <1>7 DEF AcceptGame, NewSession, TypeOK, SessionTypeOK
    <3>3. UNCHANGED historyVars /\ sStopped' = FALSE /\ nextId' = 1 /\ sPending' = {}
      BY <1>7 DEF AcceptGame, NewSession
    <3>4. QED
      BY <3>1, <3>2, <3>3 DEF TypeOK, SessionTypeOK, historyVars
  <2>2. QED
    BY <1>1, <1>7, <2>1, EmptySeqType DEF AcceptGame, TypeOK, WireTypeOK, TransportTypeOK, Stages, wireVars
<1>8. CASE DeliverResult
  <2>1. batch \in Seq(Results) /\ batch # << >>
    BY <1>8 DEF DeliverResult, TypeOK
  <2>2. Head(batch) \in Results /\ Tail(batch) \in Seq(Results)
    BY <2>1, TailType
  <2>3. SessionTypeOK'
    <3>1. CASE UNCHANGED sessionVars
      BY <3>1 DEF TypeOK, SessionTypeOK, sessionVars
    <3>2. CASE ~UNCHANGED sessionVars
      <4>1. PICK r \in Head(batch).reqs :
              CompleteOk(r, Head(batch).by) \/ CompleteFailed(r, Verdict(Head(batch), r), Head(batch).by)
        BY <1>8, <3>2 DEF DeliverResult
      <4>2. r \in Requests /\ Verdict(Head(batch), r) \in Statuses /\ Head(batch).by \in Tags \cup {NoTag}
        BY <2>2, <4>1 DEF Results, Statuses, Verdict
      <4>3. QED
        BY <4>1, <4>2, DeliverType
    <3>3. QED
      BY <3>1, <3>2
  <2>4. QED
    BY <1>1, <1>8, <2>2, <2>3 DEF DeliverResult, TypeOK, WireTypeOK, TransportTypeOK, wireVars, transportVars
<1>9. CASE EndDeliver \/ Disconnect
  <2>1. SessionTypeOK'
    <3>1. StopSession \/ UNCHANGED sessionVars
      BY <1>9 DEF EndDeliver, Disconnect
    <3>2. QED
      BY <3>1, StopSessionType DEF TypeOK, SessionTypeOK, sessionVars
  <2>2. QED
    BY <1>1, <1>9, <2>1 DEF EndDeliver, Disconnect, TypeOK, WireTypeOK, TransportTypeOK, Stages,
                            wireVars, transportVars, managerVars
<1>10. CASE Submit
  BY <1>1, <1>10, SubmitType DEF Submit, TypeOK, managerVars
<1>11. CASE ChangeBridgePort \/ Stop
  <2>1. SessionTypeOK'
    BY <1>11, StopSessionType DEF ChangeBridgePort, Stop
  <2>2. tResults' \in Seq(Results)
    BY <1>11, CompletePendingType, EmptySeqType DEF ChangeBridgePort, Stop, TypeOK, TransportTypeOK, Statuses
  <2>3. StopSockets /\ tState' \in {"Listening", "Stopped"}
    BY <1>11 DEF ChangeBridgePort, Stop
  <2>4. WireTypeOK' /\ TransportTypeOK'
    BY <2>2, <2>3, StopSocketsType DEF TransportTypeOK
  <2>5. QED
    BY <1>1, <1>11, <2>1, <2>4 DEF ChangeBridgePort, Stop, TypeOK
<1>12. QED
  BY <1>2, <1>3, <1>4, <1>5, <1>6, <1>7, <1>8, <1>9, <1>10, <1>11 DEF WorkerNext

LEMMA InitType == Init => TypeInv
<1>1. Init => WireTypeOK /\ TransportTypeOK
  <2>1. [c \in Conns |-> << >>] \in Streams
    BY EmptySeqType DEF Streams
  <2>2. 0 \in 0..MaxConns
    BY WireAssumption
  <2>3. QED
    BY <2>1, <2>2, EmptySeqType DEF Init, WireInit, TransportInit, WireTypeOK, TransportTypeOK
<1>2. Init => SessionTypeOK
  BY WireAssumption DEF Init, SessionInit, SessionTypeOK, Ids
<1>3. Init => ScriptTypeOK /\ InFrame
  BY EmptySeqType DEF Init, ScriptInit, ScriptTypeOK, InFrame
<1>4. QED
  BY <1>1, <1>2, <1>3, EmptySeqType DEF Init, TypeInv, TypeOK, Stages

LEMMA TypeStep ==
  ASSUME TypeInv, [Next]_vars
  PROVE  TypeInv'
<1>1. CASE WorkerNext
  <2>1. UNCHANGED scriptVars
    BY <1>1 DEF WorkerNext, Tick, Accept, EndAccept, Receive, EndReceive, Flush, EndFlush, TakeResults, DropResults,
           AcceptGame, DeliverResult, EndDeliver, Submit, Disconnect, EndUpdate, Reap, ChangeBridgePort, Stop
  <2>2. QED
    BY <1>1, <2>1, WorkerStep DEF TypeInv, InFrame, scriptVars
<1>2. CASE ScriptNext
  BY <1>2, ScriptStep
<1>3. CASE ForeignNext \/ \E c \in Conns : ResetConnection(c) /\ UNCHANGED <<appVars, scriptVars>>
  <2>1. UNCHANGED <<appVars, scriptVars>>
    BY <1>3 DEF ForeignNext
  <2>2. WireTypeOK'
    BY <1>3, ForeignType, ResetType DEF TypeInv
  <2>3. QED
    BY <2>1, <2>2 DEF TypeInv, TypeOK, InFrame, TransportTypeOK, SessionTypeOK, ScriptTypeOK,
                      appVars, scriptVars, transportVars, sessionVars, managerVars
<1>4. CASE UNCHANGED vars
  BY <1>4, SMTT(30) DEF vars, TypeInv, TypeOK, InFrame, WireTypeOK, TransportTypeOK, SessionTypeOK, ScriptTypeOK,
              wireVars, scriptVars, transportVars, sessionVars, managerVars
<1>5. QED
  BY <1>1, <1>2, <1>3, <1>4 DEF Next

\* Every variable of the bridge keeps its type: in particular a request ID is
\* never 0, also after the counter has wrapped, and whatever clients send.
THEOREM TypeCorrect == Spec => []TypeOK
<1>1. TypeInv => TypeOK
  BY DEF TypeInv
<1>2. QED
  BY InitType, TypeStep, <1>1, PTL DEF Spec

-----------------------------------------------------------------------------
(* Sequences of results. *)

LEMMA EmptyResults ==
  ASSUME NEW P
  PROVE  About(<< >>, P) /\ SingleOk(<< >>) /\ \A r : ~Holds(<< >>, r)
BY DEF About, SingleOk, Holds

LEMMA AboutMore ==
  ASSUME NEW results, NEW P, NEW Q, P \subseteq Q, About(results, P)
  PROVE  About(results, Q)
BY DEF About

LEMMA AppendHolds ==
  ASSUME NEW results \in Seq(Results), NEW e \in Results, NEW r
  PROVE  Holds(Append(results, e), r) <=> Holds(results, r) \/ r \in e.reqs
BY SMTT(30) DEF Holds

LEMMA AppendSingleOk ==
  ASSUME NEW results \in Seq(Results), NEW e \in Results, SingleOk(results),
         e.status = "Ok" => \A p, q \in e.reqs : p = q
  PROVE  SingleOk(Append(results, e))
BY DEF SingleOk

\* Appending a result about other requests.
LEMMA AppendAbout ==
  ASSUME NEW results \in Seq(Results), NEW e \in Results, NEW P, About(results, P),
         e.reqs \cap P = {}
  PROVE  About(Append(results, e), P \cup e.reqs)
<1> DEFINE s == Append(results, e)
<1>1. /\ Len(s) = Len(results) + 1 /\ Len(results) \in Nat
      /\ DOMAIN s = 1..(Len(results) + 1) /\ DOMAIN results = 1..Len(results)
      /\ \A i \in 1..Len(results) : s[i] = results[i]
      /\ s[Len(results) + 1] = e
  OBVIOUS
<1> HIDE DEF s
<1>2. \A i \in DOMAIN s : \/ i \in DOMAIN results /\ s[i] = results[i] /\ s[i].reqs \subseteq P
                          \/ i = Len(results) + 1 /\ s[i] = e
  BY <1>1 DEF About
<1>3. \A i, j \in DOMAIN s : i # j => s[i].reqs \cap s[j].reqs = {}
  BY <1>2 DEF About
<1>4. About(s, P \cup e.reqs)
  BY <1>2, <1>3 DEF About
<1>5. QED
  BY <1>4 DEF s

LEMMA TailResults ==
  ASSUME NEW results \in Seq(Results), results # << >>
  PROVE  /\ \A r : Holds(results, r) <=> r \in Head(results).reqs \/ Holds(Tail(results), r)
         /\ SingleOk(results) => SingleOk(Tail(results))
         /\ \A P : About(results, P) => About(Tail(results), P \ Head(results).reqs)
<1> DEFINE s == Tail(results)
<1>1. /\ Len(results) \in Nat \ {0} /\ DOMAIN results = 1..Len(results)
      /\ DOMAIN s = 1..(Len(results) - 1)
      /\ \A i \in DOMAIN s : s[i] = results[i + 1]
      /\ Head(results) = results[1]
  OBVIOUS
<1> HIDE DEF s
<1>2. \A i \in DOMAIN s : i + 1 \in DOMAIN results /\ i + 1 # 1 /\ s[i] = results[i + 1]
  BY <1>1
<1>3. \A i \in DOMAIN results : i = 1 \/ (i - 1 \in DOMAIN s /\ results[i] = s[i - 1])
  BY <1>1
<1>4. ASSUME NEW r
      PROVE  Holds(results, r) <=> r \in Head(results).reqs \/ Holds(s, r)
  BY <1>1, <1>2, <1>3 DEF Holds
<1>5. SingleOk(results) => SingleOk(s)
  BY <1>2 DEF SingleOk
<1>6. ASSUME NEW P, About(results, P)
      PROVE  About(s, P \ Head(results).reqs)
  <2>1. \A i \in DOMAIN s : s[i].reqs \subseteq P \ results[1].reqs
    BY <1>1, <1>2, <1>6 DEF About
  <2>2. \A i, j \in DOMAIN s : i # j => s[i].reqs \cap s[j].reqs = {}
    <3> SUFFICES ASSUME NEW i \in DOMAIN s, NEW j \in DOMAIN s, i # j PROVE s[i].reqs \cap s[j].reqs = {}
      OBVIOUS
    <3>1. i + 1 # j + 1
      BY <1>1
    <3>2. QED
      BY <1>2, <1>6, <3>1 DEF About
  <2>3. QED
    BY <1>1, <2>1, <2>2 DEF About
<1>7. QED
  BY <1>4, <1>5, <1>6 DEF s

LEMMA CompletePendingResults ==
  ASSUME NEW results \in Seq(Results), NEW reqs \in SUBSET Requests, NEW status \in Statuses \ {"Ok"}, NEW P,
         SingleOk(results)
  PROVE  LET s == CompletePending(results, reqs, status) IN
         /\ About(results, P) /\ reqs \cap P = {} => About(s, P \cup reqs)
         /\ SingleOk(s)
         /\ \A r : Holds(s, r) <=> Holds(results, r) \/ r \in reqs
<1>1. CASE reqs = {}
  <2>1. CompletePending(results, reqs, status) = results /\ P \cup reqs = P
    BY <1>1 DEF CompletePending
  <2>2. QED
    BY <1>1, <2>1
<1>2. CASE reqs # {}
  <2> DEFINE e == [status |-> status, reqs |-> reqs, by |-> NoTag]
  <2>1. e \in Results /\ e.reqs = reqs /\ e.status # "Ok"
    BY DEF Results
  <2>2. CompletePending(results, reqs, status) = Append(results, e)
    BY <1>2 DEF CompletePending
  <2> HIDE DEF e
  <2>3. QED
    BY <2>1, <2>2, AppendAbout, AppendHolds, AppendSingleOk
<1>3. QED
  BY <1>1, <1>2

-----------------------------------------------------------------------------
(* What a step of the transport does to its table and its results. *)

TransportStep ==
  \/ AcceptClient \/ RejectBusyClient \/ FlushClosingPeers
  \/ AcceptHello \/ RejectHello \/ ReceiveResult \/ ReceiveError
  \/ ReceiveClose \/ ReceiveUnexpected \/ ReceiveClosed
  \/ FlushFrame \/ FlushError \/ FlushEnd

\* The table is left alone, loses the request that is answered, or is emptied.
LEMMA TransportCases ==
  ASSUME TransportStep
  PROVE  \/ UNCHANGED <<tPending, tResults>> /\ tState' \in {"Connected", tState}
         \/ ReceiveResult
         \/ ReceiveError
         \/ /\ tPending' = {}
            /\ \E status \in {"Disconnected", "ProtocolError"} : tResults' = CompletePending(tResults, tPending, status)
<1>1. CASE AcceptClient \/ RejectBusyClient \/ FlushClosingPeers \/ FlushFrame
  BY <1>1 DEF AcceptClient, RejectBusyClient, FlushClosingPeers, FlushFrame
<1>2. CASE AcceptHello
  BY <1>2 DEF AcceptHello, CloseClient
<1>3. CASE RejectHello \/ ReceiveClose \/ ReceiveUnexpected
  BY <1>3 DEF RejectHello, ReceiveClose, ReceiveUnexpected, BeginOrderlyClose, BeginProtocolClose, BeginClose
<1>4. CASE ReceiveClosed \/ FlushError
  BY <1>4 DEF ReceiveClosed, FlushError, CloseClient
<1>5. CASE FlushEnd
  BY <1>5 DEF FlushEnd, CloseClient, transportVars
<1>6. QED
  BY <1>1, <1>2, <1>3, <1>4, <1>5 DEF TransportStep

\* Whatever leaves the table is in the results, once, and stays there.
LEMMA TransportMoves ==
  ASSUME TypeOK, TransportStep, NEW P, SingleOk(tResults)
  PROVE  /\ tPending' \subseteq tPending
         /\ About(tResults, P) /\ tPending \cap P = {} => About(tResults', P \cup (tPending \ tPending'))
         /\ SingleOk(tResults')
         /\ \A r : Holds(tResults', r) <=> Holds(tResults, r) \/ r \in tPending \ tPending'
         /\ tPending' = {} \/ tState' \in {"Connected", tState}
<1>1. tResults \in Seq(Results) /\ tPending \in SUBSET Requests
  BY DEF TypeOK, TransportTypeOK
<1>2. CASE UNCHANGED <<tPending, tResults>> /\ tState' \in {"Connected", tState}
  BY <1>2
<1>3. CASE \E status \in {"Disconnected", "ProtocolError"} :
             tPending' = {} /\ tResults' = CompletePending(tResults, tPending, status)
  <2>1. PICK status \in Statuses \ {"Ok"} : tPending' = {} /\ tResults' = CompletePending(tResults, tPending, status)
    BY <1>3 DEF Statuses
  <2>2. QED
    BY <1>1, <2>1, CompletePendingResults, ZenonT(60)
<1>4. CASE ReceiveResult \/ ReceiveError
  <2>1. PICK p \in tPending, status \in {"Ok", "Failed"}, by \in Tags \cup {NoTag} :
          LET e == [status |-> status, reqs |-> {p}, by |-> by] IN
          \/ tResults' = Append(tResults, e) /\ tPending' = tPending \ {p} /\ tState' = tState
          \/ tResults' = CompletePending(Append(tResults, e), tPending \ {p}, "Disconnected") /\ tPending' = {}
    <3>1. Frame.tag \in Tags \cup {NoTag}
      BY <1>4, ArrivingFrame DEF ReceiveResult, ReceiveError, Frames
    <3>2. QED
      BY <1>4, <3>1 DEF ReceiveResult, ReceiveError
  <2> DEFINE e == [status |-> status, reqs |-> {p}, by |-> by]
             s == Append(tResults, e)
  <2>2. e \in Results /\ e.reqs = {p} /\ s \in Seq(Results)
    BY <1>1, <2>1, ResultsType DEF Results, Statuses
  <2>3. SingleOk(s) /\ (About(tResults, P) /\ tPending \cap P = {} => About(s, P \cup {p}))
    BY <1>1, <2>1, <2>2, AppendAbout, AppendSingleOk
  <2>4. \A r : Holds(s, r) <=> Holds(tResults, r) \/ r = p
    BY <1>1, <2>2, AppendHolds
  <2> HIDE DEF s, e
  <2>5. CASE tResults' = s /\ tPending' = tPending \ {p} /\ tState' = tState
    <3>1. tPending \ tPending' = {p}
      BY <2>1, <2>5
    <3>2. QED
      BY <2>3, <2>4, <2>5, <3>1
  <2>6. CASE tResults' = CompletePending(s, tPending \ {p}, "Disconnected") /\ tPending' = {}
    <3>1. /\ tPending \cap P = {} => (tPending \ {p}) \cap (P \cup {p}) = {}
          /\ tPending \ {p} \in SUBSET Requests
      BY <1>1
    <3>2. /\ About(tResults, P) /\ tPending \cap P = {} => About(tResults', (P \cup {p}) \cup (tPending \ {p}))
          /\ SingleOk(tResults')
          /\ \A r : Holds(tResults', r) <=> Holds(s, r) \/ r \in tPending \ {p}
      BY <2>2, <2>3, <2>6, <3>1, CompletePendingResults DEF Statuses
    <3>3. (P \cup {p}) \cup (tPending \ {p}) = P \cup (tPending \ tPending')
      BY <2>1, <2>6
    <3>4. QED
      BY <2>1, <2>4, <2>6, <3>2, <3>3
  <2>7. QED
    BY <2>1, <2>5, <2>6 DEF s, e
<1>5. QED
  BY <1>2, <1>3, <1>4, TransportCases

-----------------------------------------------------------------------------
(* What the session's operations do to its table and to the completions. *)

\* Every completion in `reqs` is called once more, no other one is.
LEMMA CallsAfter ==
  ASSUME TypeOK, NEW reqs \in SUBSET sPending,
         calls' = [t \in Tags |-> IF \E r \in reqs : r.tag = t THEN calls[t] + 1 ELSE calls[t]],
         SessionInv, sPending' = sPending \ reqs, issued' = issued
  PROVE  CompletedOnce' /\ \A t \in Tags : t > issued => calls'[t] = 0
<1>1. \A p, q \in sPending : p.tag = q.tag => p = q
  BY DEF SessionInv
<1>2. \A t \in 1..issued : t \in Tags
  BY WireAssumption DEF TypeOK, SessionTypeOK, Tags
<1>3. CompletedOnce'
  <2> SUFFICES ASSUME NEW t \in 1..issued
               PROVE  calls'[t] = (IF \E p \in sPending' : p.tag = t THEN 0 ELSE 1)
    BY DEF CompletedOnce
  <2>1. calls[t] = (IF \E p \in sPending : p.tag = t THEN 0 ELSE 1)
    BY DEF SessionInv, CompletedOnce
  <2>2. CASE \E r \in reqs : r.tag = t
    BY <1>1, <1>2, <2>1, <2>2
  <2>3. CASE ~\E r \in reqs : r.tag = t
    BY <1>2, <2>1, <2>3
  <2>4. QED
    BY <2>2, <2>3
<1>4. \A t \in Tags : t > issued => calls'[t] = 0
  BY DEF SessionInv, TypeOK, SessionTypeOK, Tags
<1>5. QED
  BY <1>3, <1>4

LEMMA StopSessionInv ==
  ASSUME TypeOK, SessionInv, StopSession
  PROVE  SessionInv' /\ sPending' = {} /\ sStopped'
<1>1. /\ calls' = [t \in Tags |-> IF \E r \in sPending : r.tag = t THEN calls[t] + 1 ELSE calls[t]]
      /\ sPending' = {} /\ issued' = issued /\ sStopped' = TRUE
  BY DEF StopSession, Complete
<1>2. sPending' = sPending \ sPending
  BY <1>1
<1>3. QED
  BY <1>1, <1>2, CallsAfter DEF SessionInv

LEMMA CompleteOkInv ==
  ASSUME TypeOK, SessionInv, NEW r, NEW by, CompleteOk(r, by)
  PROVE  /\ SessionInv'
         /\ \E p \in sPending : p.id = r.id /\ sPending' = sPending \ {p}
         /\ sStopped' = sStopped
<1>1. PICK p \in sPending :
        /\ p.id = r.id /\ sPending' = sPending \ {p}
        /\ Complete({p}, "Ok", by)
        /\ UNCHANGED <<session, sStopped, nextId, issued, owner>>
  BY DEF CompleteOk
<1>2. calls' = [t \in Tags |-> IF \E q \in {p} : q.tag = t THEN calls[t] + 1 ELSE calls[t]]
  BY <1>1 DEF Complete
<1>3. CompletedOnce' /\ \A t \in Tags : t > issued => calls'[t] = 0
  BY <1>1, <1>2, CallsAfter
<1>4. QED
  BY <1>1, <1>3 DEF SessionInv

LEMMA CompleteFailedInv ==
  ASSUME TypeOK, SessionInv, NEW r, NEW status, NEW by, CompleteFailed(r, status, by)
  PROVE  SessionInv' /\ sPending' = {} /\ sStopped'
<1>1. /\ calls' = [t \in Tags |-> IF \E q \in sPending : q.tag = t THEN calls[t] + 1 ELSE calls[t]]
      /\ sPending' = {} /\ issued' = issued /\ sStopped' = TRUE
  BY DEF CompleteFailed
<1>2. sPending' = sPending \ sPending
  BY <1>1
<1>3. QED
  BY <1>1, <1>2, CallsAfter DEF SessionInv

\* The request ID AllocateRequestId returns is free, and the tag is new.
LEMMA SubmitInv ==
  ASSUME TypeOK, SessionInv, SubmitAccepted
  PROVE  /\ SessionInv' /\ UNCHANGED sStopped /\ ~sStopped
         /\ \E r \in Requests : r \notin sPending /\ sPending' = sPending \cup {r} /\ (SubmitQueued(r) \/ SubmitOversize(r))
<1>1. PICK k \in 0..(MaxOutstanding - 1), op \in Ops :
        /\ Allocates(k)
        /\ LET r == [id |-> IdAfter(k), op |-> op, tag |-> issued + 1] IN
           /\ SubmitQueued(r) \/ SubmitOversize(r)
           /\ sPending' = sPending \cup {r}
           /\ issued' = r.tag
  BY DEF SubmitAccepted
<1> DEFINE r == [id |-> IdAfter(k), op |-> op, tag |-> issued + 1]
<1>2. issued \in Nat /\ issued + 1 \in Tags /\ IdAfter(k) \in Ids
  BY IdAfterType, WireAssumption DEF SubmitAccepted, TypeOK, SessionTypeOK, Tags
<1>3. r \in Requests /\ r.tag = issued + 1 /\ r.id = IdAfter(k)
  BY <1>2 DEF Requests
<1>4. \A p \in sPending : p.tag <= issued /\ p.id # r.id /\ p.tag \in Nat
  BY <1>1, <1>3 DEF Allocates, PendingIds, SessionInv, TypeOK, SessionTypeOK, Requests, Tags
<1>5. UNCHANGED <<sStopped, calls>> /\ ~sStopped
  BY DEF SubmitAccepted, CanSubmit
<1>6. sPending' = sPending \cup {r} /\ issued' = issued + 1 /\ (SubmitQueued(r) \/ SubmitOversize(r))
  BY <1>1
<1> HIDE DEF r
<1>7. \A p, q \in sPending' : p.id = q.id \/ p.tag = q.tag => p = q
  <2>1. \A p \in sPending : p.tag # r.tag
    BY <1>2, <1>3, <1>4
  <2>2. QED
    BY <1>4, <1>6, <2>1 DEF SessionInv
<1>8. \A p \in sPending' : p.tag <= issued'
  BY <1>2, <1>3, <1>4, <1>6
<1>9. \A t \in Tags : t > issued' => calls'[t] = 0
  BY <1>2, <1>5, <1>6 DEF SessionInv, Tags
<1>10. CompletedOnce'
  <2> SUFFICES ASSUME NEW t \in 1..issued'
               PROVE  calls'[t] = (IF \E p \in sPending' : p.tag = t THEN 0 ELSE 1)
    BY DEF CompletedOnce
  <2>1. CASE t = issued + 1
    BY <1>2, <1>3, <1>5, <1>6, <2>1 DEF SessionInv
  <2>2. CASE t # issued + 1
    <3>1. t \in 1..issued
      BY <1>2, <1>6, <2>2
    <3>2. (\E p \in sPending' : p.tag = t) <=> \E p \in sPending : p.tag = t
      BY <1>3, <1>6, <2>2
    <3>3. QED
      BY <1>5, <3>1, <3>2 DEF SessionInv, CompletedOnce
  <2>3. QED
    BY <2>1, <2>2
<1>11. r \notin sPending
  BY <1>4
<1>12. QED
  BY <1>3, <1>5, <1>6, <1>7, <1>8, <1>9, <1>10, <1>11 DEF SessionInv

-----------------------------------------------------------------------------
(* The invariant, step by step. *)

\* The variables Inv speaks of.
invVars == <<sStopped, sPending, issued, calls, tState, tPending, tResults, pc, batch, listening, active>>

LEMMA InvStutter ==
  ASSUME Inv, UNCHANGED invVars
  PROVE  Inv'
BY DEF invVars, Inv, SessionInv, TableInv, ManagerInv, CompletedOnce, NoStaleWork, NoLostRequest, Deliverable,
       About, SingleOk, Holds

\* A session that is over: nothing is pending, so only the manager's part counts.
LEMMA StoppedTable ==
  ASSUME sStopped, sPending = {}, SingleOk(tResults), SingleOk(batch)
  PROVE  TableInv
BY DEF TableInv, NoStaleWork, NoLostRequest

LEMMA PollInv ==
  ASSUME TypeOK, Inv, TransportStep, pc \in {"accept", "receive", "flush"},
         pc' \in {"accept", "receive", "flush", "results"}, UNCHANGED <<sessionVars, batch, listening, active>>
  PROVE  Inv'
<1>1. batch = << >> /\ batch' = << >>
  BY DEF Inv, ManagerInv
<1>2. UNCHANGED <<sStopped, sPending, issued, calls, listening, active>>
  BY DEF sessionVars
<1>3. SessionInv'
  BY <1>2 DEF Inv, SessionInv, CompletedOnce
<1>4. /\ tPending' \subseteq tPending /\ SingleOk(tResults')
      /\ tPending' = {} \/ tState' \in {"Connected", tState}
      /\ ~sStopped => About(tResults', (sPending \ tPending) \cup (tPending \ tPending'))
      /\ \A r : Holds(tResults', r) <=> Holds(tResults, r) \/ r \in tPending \ tPending'
  <2>1. tPending \cap (sPending \ tPending) = {}
    OBVIOUS
  <2>2. SingleOk(tResults) /\ (~sStopped => About(tResults, sPending \ tPending))
    BY DEF Inv, TableInv, Deliverable
  <2>3. QED
    BY <2>1, <2>2, TransportMoves
<1>5. TableInv'
  <2>1. NoStaleWork'
    BY <1>2, <1>4 DEF Inv, TableInv, NoStaleWork
  <2>2. ~sStopped => Deliverable(tResults)'
    <3> SUFFICES ASSUME ~sStopped PROVE Deliverable(tResults)'
      OBVIOUS
    <3>1. (sPending \ tPending) \cup (tPending \ tPending') \subseteq sPending \ tPending'
      BY <1>4 DEF Inv, TableInv, NoStaleWork
    <3>2. QED
      BY <1>2, <1>4, <3>1, AboutMore DEF Deliverable
  <2>3. SingleOk(batch)' /\ Deliverable(batch)'
    BY <1>1, EmptyResults DEF Deliverable
  <2>4. NoLostRequest'
    BY <1>1, <1>2, <1>4, EmptyResults DEF Inv, TableInv, NoLostRequest
  <2>5. QED
    BY <1>2, <1>4, <2>1, <2>2, <2>3, <2>4 DEF TableInv
<1>6. ManagerInv'
  BY <1>1, <1>2, <1>4 DEF Inv, ManagerInv
<1>7. QED
  BY <1>3, <1>5, <1>6 DEF Inv

LEMMA DeliverInv ==
  ASSUME TypeOK, Inv, DeliverResult
  PROVE  Inv'
<1> DEFINE res == Head(batch)
<1>1. /\ batch \in Seq(Results) /\ batch # << >> /\ batch' = Tail(batch) /\ pc = "deliver" /\ pc' = pc
      /\ tResults = << >> /\ UNCHANGED <<tState, tPending, tResults, listening, active>>
  BY DEF DeliverResult, TypeOK, Inv, ManagerInv, transportVars
<1>2. /\ \A r : Holds(batch, r) <=> r \in res.reqs \/ Holds(batch', r)
      /\ SingleOk(batch')
      /\ ~sStopped => About(batch', (sPending \ tPending) \ res.reqs)
      /\ ~sStopped => res.reqs \subseteq sPending \ tPending
  <2>1. SingleOk(batch) /\ (~sStopped => About(batch, sPending \ tPending))
    BY DEF Inv, TableInv, Deliverable
  <2>2. ~sStopped => res.reqs \subseteq sPending \ tPending
    BY <1>1, <2>1 DEF About
  <2>3. QED
    BY <1>1, <2>1, <2>2, TailResults
<1>3. SingleOk(tResults)' /\ Deliverable(tResults)'
  BY <1>1, EmptyResults DEF Deliverable
<1>4. CASE \E r \in res.reqs : CompleteFailed(r, Verdict(res, r), res.by)
  <2>1. SessionInv' /\ sPending' = {} /\ sStopped'
    BY <1>4, CompleteFailedInv DEF Inv
  <2>2. TableInv'
    BY <1>2, <1>3, <2>1, StoppedTable DEF TableInv, NoStaleWork, NoLostRequest
  <2>3. ManagerInv'
    BY <1>1, <2>1 DEF Inv, ManagerInv
  <2>4. QED
    BY <2>1, <2>2, <2>3 DEF Inv
<1>5. CASE \E r \in res.reqs : res.status = "Ok" /\ CompleteOk(r, res.by)
  <2>1. PICK r \in res.reqs : res.status = "Ok" /\ CompleteOk(r, res.by)
    BY <1>5
  <2>2. PICK p \in sPending : p.id = r.id /\ sPending' = sPending \ {p} /\ SessionInv' /\ sStopped' = sStopped
    BY <2>1, CompleteOkInv DEF Inv
  <2>3. ~sStopped
    BY <2>2 DEF Inv, SessionInv
  <2>4. p = r
    BY <1>2, <2>1, <2>2, <2>3 DEF Inv, SessionInv
  <2>5. res.reqs = {p}
    BY <1>1, <2>1, <2>4 DEF Inv, TableInv, SingleOk
  <2>6. p \notin tPending
    BY <1>2, <2>3, <2>5
  <2>7. NoStaleWork'
    BY <1>1, <2>2, <2>6 DEF Inv, TableInv, NoStaleWork
  <2>8. Deliverable(batch)'
    <3>1. (sPending \ tPending) \ res.reqs = sPending' \ tPending'
      BY <1>1, <2>2, <2>5
    <3>2. QED
      BY <1>2, <2>3, <3>1 DEF Deliverable
  <2>9. NoLostRequest'
    BY <1>1, <1>2, <2>2, <2>5, EmptyResults DEF Inv, TableInv, NoLostRequest
  <2>10. ManagerInv'
    BY <1>1, <2>2 DEF Inv, ManagerInv
  <2>11. QED
    BY <1>2, <1>3, <2>2, <2>7, <2>8, <2>9, <2>10 DEF Inv, TableInv
<1>6. CASE (\A r \in res.reqs : ~Known(r)) /\ UNCHANGED sessionVars
  <2>1. UNCHANGED <<sStopped, sPending, issued, calls>>
    BY <1>6 DEF sessionVars
  <2>2. \A p \in sPending : p \notin res.reqs
    BY <1>6 DEF Known
  <2>3. SessionInv' /\ ManagerInv' /\ NoStaleWork'
    BY <1>1, <2>1 DEF Inv, SessionInv, CompletedOnce, ManagerInv, TableInv, NoStaleWork
  <2>4. ~sStopped => Deliverable(batch)'
    <3>1. (sPending \ tPending) \ res.reqs \subseteq sPending' \ tPending'
      BY <1>1, <2>1
    <3>2. QED
      BY <1>2, <3>1, AboutMore DEF Deliverable
  <2>5. NoLostRequest'
    BY <1>1, <1>2, <2>1, <2>2 DEF Inv, TableInv, NoLostRequest
  <2>6. QED
    BY <1>2, <1>3, <2>1, <2>3, <2>4, <2>5 DEF Inv, TableInv
<1>7. QED
  BY <1>4, <1>5, <1>6 DEF DeliverResult, Verdict

LEMMA SubmitStepInv ==
  ASSUME TypeOK, Inv, Submit
  PROVE  Inv'
<1>1. CASE SubmitRefused
  <2>1. UNCHANGED invVars
    BY <1>1 DEF SubmitRefused, Submit, historyVars, transportVars, managerVars, invVars
  <2>2. QED
    BY <2>1, InvStutter
<1>2. CASE SubmitAccepted
  <2>1. PICK r \in Requests : /\ r \notin sPending /\ sPending' = sPending \cup {r}
                              /\ SubmitQueued(r) \/ SubmitOversize(r)
                              /\ SessionInv' /\ sStopped' = sStopped /\ ~sStopped
    BY <1>2, SubmitInv DEF Inv
  <2>2. /\ tPending \subseteq sPending /\ r \notin tPending
        /\ About(tResults, sPending \ tPending) /\ SingleOk(tResults)
        /\ batch = << >> /\ batch' = << >> /\ pc = "update" /\ pc' = pc /\ UNCHANGED <<tState, listening, active>>
    BY <2>1 DEF Inv, TableInv, ManagerInv, NoStaleWork, Deliverable, Submit, managerVars, SubmitQueued, SubmitOversize
  <2>3. ManagerInv'
    BY <2>1, <2>2 DEF Inv, ManagerInv, SubmitQueued, SubmitOversize, CanSend
  <2>4. Deliverable(batch)' /\ SingleOk(batch)'
    BY <2>2, EmptyResults DEF Deliverable
  <2>5. CASE SubmitQueued(r)
    <3>1. tPending' = tPending \cup {r} /\ tResults' = tResults
      BY <2>5 DEF SubmitQueued
    <3>2. sPending' \ tPending' = sPending \ tPending
      BY <2>1, <2>2, <3>1
    <3>3. Deliverable(tResults)'
      BY <2>2, <3>1, <3>2 DEF Deliverable
    <3>4. NoStaleWork' /\ NoLostRequest'
      BY <2>1, <2>2, <3>1 DEF Inv, TableInv, NoStaleWork, NoLostRequest
    <3>5. QED
      BY <2>1, <2>2, <2>3, <2>4, <3>1, <3>3, <3>4 DEF Inv, TableInv
  <2>6. CASE SubmitOversize(r)
    <3> DEFINE e == [status |-> "Failed", reqs |-> {r}, by |-> NoTag]
    <3>1. tResults' = Append(tResults, e) /\ tPending' = tPending
      BY <2>6 DEF SubmitOversize
    <3>2. e \in Results /\ e.reqs = {r} /\ tResults \in Seq(Results) /\ e.status # "Ok"
      BY DEF Results, Statuses, TypeOK, TransportTypeOK
    <3> HIDE DEF e
    <3>3. SingleOk(tResults')
      BY <2>2, <3>1, <3>2, AppendSingleOk
    <3>4. Deliverable(tResults)'
      <4>1. (sPending \ tPending) \cup {r} = sPending' \ tPending' /\ {r} \cap (sPending \ tPending) = {}
        BY <2>1, <2>2, <3>1
      <4>2. QED
        BY <2>2, <3>1, <3>2, <4>1, AppendAbout DEF Deliverable
    <3>5. NoStaleWork'
      BY <2>1, <2>2, <3>1 DEF NoStaleWork
    <3>6. NoLostRequest'
      <4>1. \A p : Holds(tResults', p) <=> Holds(tResults, p) \/ p = r
        BY <3>1, <3>2, AppendHolds
      <4>2. QED
        BY <2>1, <2>2, <3>1, <4>1 DEF Inv, TableInv, NoLostRequest
    <3>7. QED
      BY <2>1, <2>2, <2>3, <2>4, <3>3, <3>4, <3>5, <3>6 DEF Inv, TableInv
  <2>7. QED
    BY <2>1, <2>5, <2>6
<1>3. QED
  BY <1>1, <1>2 DEF Submit

LEMMA InvInit == Init => Inv
<1> SUFFICES ASSUME Init PROVE Inv
  OBVIOUS
<1>1. /\ sStopped = TRUE /\ sPending = {} /\ issued = 0 /\ calls = [t \in Tags |-> 0] /\ tPending = {}
      /\ tResults = << >> /\ batch = << >> /\ pc = "idle" /\ listening = TRUE /\ active = FALSE
  BY DEF Init, SessionInit, TransportInit
<1>2. SessionInv /\ ManagerInv
  BY <1>1 DEF SessionInv, CompletedOnce, ManagerInv
<1>3. TableInv
  BY <1>1, EmptyResults, StoppedTable
<1>4. QED
  BY <1>2, <1>3 DEF Inv

LEMMA WorkerInv ==
  ASSUME TypeOK, Inv, WorkerNext
  PROVE  Inv'
<1>1. CASE Tick \/ EndReceive \/ EndUpdate
  <2>1. /\ UNCHANGED <<sStopped, sPending, issued, calls, tState, tPending, tResults, batch, listening, active>>
        /\ pc # "deliver" /\ pc' # "deliver"
    BY <1>1 DEF Tick, EndReceive, EndUpdate, sessionVars, transportVars
  <2>2. QED
    BY <2>1 DEF Inv, SessionInv, TableInv, ManagerInv, CompletedOnce, NoStaleWork, NoLostRequest, Deliverable,
                About, SingleOk, Holds
<1>2. CASE Accept \/ EndAccept \/ Receive \/ Flush \/ EndFlush
  <2>1. TransportStep
    BY <1>2 DEF TransportStep, Accept, EndAccept, Receive, Flush, EndFlush
  <2>2. /\ pc \in {"accept", "receive", "flush"} /\ pc' \in {"accept", "receive", "flush", "results"}
        /\ UNCHANGED <<sessionVars, batch, listening, active>>
    BY <1>2 DEF Accept, EndAccept, Receive, Flush, EndFlush, managerVars
  <2>3. QED
    BY <2>1, <2>2, PollInv
<1>3. CASE TakeResults
  <2>1. /\ UNCHANGED <<sStopped, sPending, issued, calls, tState, tPending, listening, active>>
        /\ pc = "results" /\ pc' = "deliver" /\ batch = << >> /\ batch' = tResults /\ tResults' = << >>
    BY <1>3 DEF TakeResults, sessionVars, Inv, ManagerInv
  <2>2. SessionInv' /\ ManagerInv'
    BY <2>1 DEF Inv, SessionInv, CompletedOnce, ManagerInv
  <2>3. TableInv'
    BY <2>1, EmptyResults DEF Inv, TableInv, NoStaleWork, NoLostRequest, Deliverable
  <2>4. QED
    BY <2>2, <2>3 DEF Inv
<1>4. CASE DropResults
  <2>1. /\ UNCHANGED <<sStopped, sPending, issued, calls, tState, tPending, batch, active>>
        /\ pc = "results" /\ pc' = "idle" /\ batch = << >> /\ tResults' = << >> /\ ~active
        /\ listening' = (listening \/ tState = "Listening")
    BY <1>4 DEF DropResults, sessionVars, Inv, ManagerInv
  <2>2. SessionInv' /\ ManagerInv'
    BY <2>1 DEF Inv, SessionInv, CompletedOnce, ManagerInv
  <2>3. sStopped' /\ sPending' = {}
    BY <2>1 DEF Inv, ManagerInv, SessionInv
  <2>4. TableInv'
    BY <2>1, <2>3, EmptyResults DEF TableInv, NoStaleWork, NoLostRequest
  <2>5. QED
    BY <2>2, <2>4 DEF Inv
<1>5. CASE AcceptGame
  <2>1. /\ UNCHANGED <<issued, calls, tState, tPending, batch>>
        /\ sStopped' = FALSE /\ sPending' = {} /\ active' = TRUE /\ listening' = FALSE /\ ~active /\ listening
        /\ pc = "results" /\ pc' = "accept" /\ batch = << >> /\ tResults' = << >>
    BY <1>5 DEF AcceptGame, NewSession, historyVars, Inv, ManagerInv
  <2>2. sPending = {} /\ tPending = {}
    BY <2>1 DEF Inv, ManagerInv, SessionInv
  <2>3. SessionInv' /\ ManagerInv'
    BY <2>1, <2>2 DEF Inv, SessionInv, CompletedOnce, ManagerInv
  <2>4. TableInv'
    BY <2>1, <2>2, EmptyResults DEF TableInv, NoStaleWork, NoLostRequest, Deliverable
  <2>5. QED
    BY <2>3, <2>4 DEF Inv
<1>6. CASE DeliverResult
  BY <1>6, DeliverInv
<1>7. CASE EndDeliver \/ Disconnect
  <2>1. /\ UNCHANGED <<tState, tPending, tResults, batch, listening, active>> /\ batch = << >>
        /\ pc' \in {"update", "reap"}
        /\ StopSession \/ UNCHANGED sessionVars
    BY <1>7 DEF EndDeliver, Disconnect, transportVars, managerVars, Inv, ManagerInv
  <2>2. CASE StopSession
    <3>1. SessionInv' /\ sPending' = {} /\ sStopped'
      BY <2>2, StopSessionInv DEF Inv
    <3>2. ManagerInv'
      BY <2>1, <3>1 DEF Inv, ManagerInv
    <3>3. SingleOk(tResults)' /\ SingleOk(batch)'
      BY <2>1 DEF Inv, TableInv
    <3>4. QED
      BY <3>1, <3>2, <3>3 DEF Inv, TableInv, NoStaleWork, NoLostRequest
  <2>3. CASE UNCHANGED sessionVars
    BY <2>1, <2>3 DEF sessionVars, Inv, SessionInv, TableInv, ManagerInv, CompletedOnce, NoStaleWork, NoLostRequest,
                      Deliverable, About, SingleOk, Holds
  <2>4. QED
    BY <2>1, <2>2, <2>3
<1>8. CASE Submit
  BY <1>8, SubmitStepInv
<1>9. CASE Reap
  <2>1. /\ UNCHANGED <<sStopped, sPending, issued, calls, tState, tPending, tResults, batch>>
        /\ pc = "reap" /\ pc' = "idle" /\ active' = ~sStopped
        /\ listening' = (listening \/ (sStopped /\ tState = "Listening"))
    BY <1>9 DEF Reap, sessionVars, transportVars
  <2>2. SessionInv' /\ TableInv'
    BY <2>1 DEF Inv, SessionInv, TableInv, CompletedOnce, NoStaleWork, NoLostRequest, Deliverable, About, SingleOk, Holds
  <2>3. ManagerInv'
    BY <2>1 DEF Inv, ManagerInv
  <2>4. QED
    BY <2>2, <2>3 DEF Inv
<1>10. CASE ChangeBridgePort \/ Stop
  <2>1. /\ StopSession /\ tPending' = {} /\ active' = FALSE /\ pc = "idle" /\ UNCHANGED <<pc, batch>> /\ batch = << >>
        /\ tResults' = << >> \/ tResults' = CompletePending(tResults, tPending, "Disconnected")
    BY <1>10 DEF ChangeBridgePort, Stop, StopSockets, Inv, ManagerInv
  <2>2. SessionInv' /\ sPending' = {} /\ sStopped'
    BY <2>1, StopSessionInv DEF Inv
  <2>3. SingleOk(tResults') /\ SingleOk(batch')
    <3>1. SingleOk(tResults) /\ tResults \in Seq(Results) /\ tPending \in SUBSET Requests
      BY DEF Inv, TableInv, TypeOK, TransportTypeOK
    <3>2. "Disconnected" \in Statuses \ {"Ok"}
      BY DEF Statuses
    <3>3. SingleOk(CompletePending(tResults, tPending, "Disconnected"))
      BY <3>1, <3>2, CompletePendingResults
    <3>4. QED
      BY <2>1, <3>3, EmptyResults
  <2>4. ManagerInv'
    BY <2>1, <2>2 DEF ManagerInv
  <2>5. QED
    BY <2>2, <2>3, <2>4 DEF Inv, TableInv, NoStaleWork, NoLostRequest
<1>11. QED
  BY <1>1, <1>2, <1>3, <1>4, <1>5, <1>6, <1>7, <1>8, <1>9, <1>10 DEF WorkerNext

LEMMA InvStep ==
  ASSUME TypeOK, Inv, [Next]_vars
  PROVE  Inv'
<1>1. CASE WorkerNext
  BY <1>1, WorkerInv
<1>2. CASE ~WorkerNext
  <2>1. UNCHANGED appVars
    BY <1>2 DEF Next, ScriptNext, ForeignNext, vars, appVars
  <2>2. QED
    BY <2>1, InvStutter DEF appVars, transportVars, sessionVars, managerVars, invVars
<1>3. QED
  BY <1>1, <1>2

\* The worker's tables agree in every reachable state.
THEOREM InvHolds == Spec => []Inv
BY InvInit, InvStep, TypeCorrect, PTL DEF Spec

\* Every request a session has accepted is completed exactly once.
THEOREM CompletesOnce == Spec => []CompletedOnce
<1>1. Inv => CompletedOnce
  BY DEF Inv, SessionInv
<1>2. QED
  BY InvHolds, <1>1, PTL

\* No request is forgotten between the session and the transport.
THEOREM NothingLost == Spec => []NoLostRequest
<1>1. Inv => NoLostRequest
  BY DEF Inv, TableInv
<1>2. QED
  BY InvHolds, <1>1, PTL

\* A new session never meets work of an earlier one in the transport.
THEOREM NothingStale == Spec => []NoStaleWork
<1>1. Inv => NoStaleWork
  BY DEF Inv, TableInv
<1>2. QED
  BY InvHolds, <1>1, PTL

\* Waiting requests have different IDs, also after the IDs have wrapped.
THEOREM IdsDistinct == Spec => []DistinctIds
<1>1. Inv => DistinctIds
  BY DEF Inv, SessionInv, DistinctIds
<1>2. QED
  BY InvHolds, <1>1, PTL

-----------------------------------------------------------------------------
(***************************************************************************)
(* What the request IDs and the order of the frames add up to, from the    *)
(* session through TCP to the script and back: a completion gets the       *)
(* answer to its own request, an answer comes after the work, and game     *)
(* memory sees the requests in the order in which they were submitted.     *)
(*                                                                         *)
(* The argument follows the requests around each connection.  Going        *)
(* against the stream from the assistant's socket, what has arrived, the   *)
(* script's send queue, its operations, the frames on their way to it and  *)
(* the assistant's writer carry requests with ever larger tags (Chain).    *)
(* Steps only move them along or drop them; a submit puts a larger tag at  *)
(* the far end.  Everything the current client's connection carries is in  *)
(* the transport's table, and a connection carries nothing before it is    *)
(* accepted.                                                               *)
(***************************************************************************)

\* A frame that carries a request or its answer; errors do not count, since the
\* transport gives the connection up when it gets one.
Live(f) == f.type \in {"Request", "Result"} /\ f.tag # NoTag

Req(f) == [id |-> f.id, op |-> f.op, tag |-> f.tag]

\* The requests a sequence of frames or of operations carries.
Carried(s) == {Req(s[i]) : i \in {j \in DOMAIN s : Live(s[j])}}
Queued(ops) == {ops[i].req : i \in DOMAIN ops}

Rising(s) == \A i, j \in DOMAIN s : i < j /\ Live(s[i]) /\ Live(s[j]) => s[i].tag < s[j].tag
RisingOps(ops) == \A i, j \in DOMAIN ops : i < j => ops[i].req.tag < ops[j].req.tag

Before(P, Q) == \A p \in P, q \in Q : p.tag < q.tag

\* Five stretches of a connection, the oldest requests first.
Chain(up, out, ops, down, wr) ==
  /\ Rising(up) /\ Rising(out) /\ RisingOps(ops) /\ Rising(down) /\ Rising(wr)
  /\ Before(Carried(up), Carried(out) \cup Queued(ops) \cup Carried(down) \cup Carried(wr))
  /\ Before(Carried(out), Queued(ops) \cup Carried(down) \cup Carried(wr))
  /\ Before(Queued(ops), Carried(down) \cup Carried(wr))
  /\ Before(Carried(down), Carried(wr))

Load(up, out, ops, down, wr) == Carried(up) \cup Carried(out) \cup Queued(ops) \cup Carried(down) \cup Carried(wr)

\* The script's queues belong to its current connection.
OutOf(c) == IF sock = c THEN outgoing ELSE << >>
OpsOf(c) == IF sock = c THEN operations ELSE << >>

ChainOf(c) == Chain(toApp[c], OutOf(c), OpsOf(c), toPeer[c], writer[c])
LoadOf(c) == Load(toApp[c], OutOf(c), OpsOf(c), toPeer[c], writer[c])

\* The requests the script has not seen yet.
DownOf(c) == Carried(toPeer[c]) \cup Carried(writer[c])

-----------------------------------------------------------------------------
\* The tags of the operations that have touched game memory.
Ran == {ran[i] : i \in DOMAIN ran}

\* t has been answered by the frame with tag `by`: its own, after the work, or one
\* that a client made up.
Answered(t, by) == (by = t /\ t \in Ran) \/ (by = NoTag /\ Foreign # {})

UpFrames(c) == {f \in Frames : f.type = "Result" => IF c \in Foreign THEN f.tag = NoTag ELSE f.tag \in Ran}
OutFrames == {f \in Frames : f.type = "Result" => f.tag \in Ran}
RanOperations == {o \in Operations : o.at # "new" => o.req.tag \in Ran}
TrueResults == {e \in Results : e.status = "Ok" => \A p \in e.reqs : Answered(p.tag, e.by)}

TrueOutcomes == \A t \in Tags : outcome[t] = "Ok" => Answered(t, answeredBy[t])

\* No answer without the work, wherever the answer is.
EvidenceInv ==
  /\ \A c \in Conns : toApp[c] \in Seq(UpFrames(c))
  /\ outgoing \in Seq(OutFrames)
  /\ operations \in Seq(RanOperations)
  /\ tResults \in Seq(TrueResults) /\ batch \in Seq(TrueResults)
  /\ TrueOutcomes

\* Every connection carries its requests in order, and none that was not issued.
ChainInv ==
  /\ sock \notin Foreign
  /\ sock = NoConn => operations = << >> /\ outgoing = << >>
  /\ \A c \in Conns : ChainOf(c)
  /\ \A c \in Conns : \A r \in LoadOf(c) : r.tag <= issued

\* The transport waits for all that the connection of the shipped script carries.
ClientInv ==
  /\ \A p, q \in tPending : p.id = q.id => p = q
  /\ client \in Conns \ Foreign /\ ~closing => LoadOf(client) \subseteq tPending

\* A connection carries nothing until it is the client's.
FreshInv ==
  /\ client <= opened
  /\ \A i \in DOMAIN backlog : backlog[i] <= opened /\ backlog[i] # client
  /\ \A i, j \in DOMAIN backlog : i # j => backlog[i] # backlog[j]
  /\ \A c \in Conns : c > opened => LoadOf(c) = {}
  /\ \A i \in DOMAIN backlog : LoadOf(backlog[i]) = {}

\* What the script has still to do comes after all it has done.
NewOps == {operations[i].req : i \in {j \in DOMAIN operations : operations[j].at = "new"}}
Todo == NewOps \cup DownOf(sock)

RanInv ==
  /\ RanInOrder
  /\ \A t \in Ran : t <= issued
  /\ \A i \in DOMAIN operations : i > 1 => operations[i].at = "new"
  /\ sock # NoConn => \A t \in Ran, r \in Todo : t < r.tag

FlowInv == EvidenceInv /\ ChainInv /\ ClientInv /\ FreshInv /\ RanInv

-----------------------------------------------------------------------------
(* Sequences of frames and of operations. *)

Own(f) == IF Live(f) THEN {Req(f)} ELSE {}

LEMMA CarriedEmpty ==
  Carried(<< >>) = {} /\ Rising(<< >>) /\ Queued(<< >>) = {} /\ RisingOps(<< >>)
BY DEF Carried, Rising, Queued, RisingOps

LEMMA CarriedAppend ==
  ASSUME NEW s \in Seq(Frames), NEW f \in Frames
  PROVE  /\ Carried(Append(s, f)) = Carried(s) \cup Own(f)
         /\ Rising(s) /\ Before(Carried(s), Own(f)) => Rising(Append(s, f))
<1> DEFINE t == Append(s, f)
<1>1. /\ Len(s) \in Nat /\ DOMAIN s = 1..Len(s) /\ DOMAIN t = 1..(Len(s) + 1)
      /\ \A i \in 1..Len(s) : t[i] = s[i]
      /\ t[Len(s) + 1] = f
  OBVIOUS
<1> HIDE DEF t
<1>2. \A i \in DOMAIN t : (i \in DOMAIN s /\ t[i] = s[i]) \/ (i = Len(s) + 1 /\ t[i] = f)
  <2>1. \A i \in 1..(Len(s) + 1) : i \in 1..Len(s) \/ i = Len(s) + 1  BY <1>1
  <2> QED  BY <1>1, <2>1
<1>3. \A i \in DOMAIN s : i \in DOMAIN t /\ t[i] = s[i] /\ i < Len(s) + 1
  BY <1>1
<1>4. Carried(t) \subseteq Carried(s) \cup Own(f)
  BY <1>2 DEF Carried, Own
<1>5. Carried(s) \cup Own(f) \subseteq Carried(t)
  <2>1. Len(s) + 1 \in DOMAIN t  BY <1>1
  <2> QED  BY <1>1, <1>3, <2>1 DEF Carried, Own
<1>6. ASSUME Rising(s), Before(Carried(s), Own(f)) PROVE Rising(t)
  <2> SUFFICES ASSUME NEW i \in DOMAIN t, NEW j \in DOMAIN t, i < j, Live(t[i]), Live(t[j])
               PROVE  t[i].tag < t[j].tag
    BY DEF Rising
  <2>1. i \in DOMAIN s /\ t[i] = s[i]  BY <1>1, <1>2
  <2>2. CASE j \in DOMAIN s /\ t[j] = s[j]  BY <1>6, <2>1, <2>2 DEF Rising
  <2>3. CASE t[j] = f
    <3>1. Req(s[i]) \in Carried(s) /\ Req(f) \in Own(f)  BY <2>1, <2>3 DEF Carried, Own
    <3>2. Req(s[i]).tag < Req(f).tag  BY <1>6, <3>1 DEF Before
    <3> QED  BY <2>1, <2>3, <3>2 DEF Req
  <2> QED  BY <1>2, <2>2, <2>3
<1> QED  BY <1>4, <1>5, <1>6 DEF t

LEMMA CarriedTail ==
  ASSUME NEW s \in Seq(Frames), s # << >>
  PROVE  /\ Carried(s) = Own(Head(s)) \cup Carried(Tail(s))
         /\ Rising(s) => Rising(Tail(s)) /\ Before(Own(Head(s)), Carried(Tail(s)))
<1> DEFINE t == Tail(s)
<1>1. /\ Len(s) \in Nat \ {0} /\ DOMAIN s = 1..Len(s) /\ DOMAIN t = 1..(Len(s) - 1)
      /\ \A i \in DOMAIN t : t[i] = s[i + 1]
      /\ Head(s) = s[1]
  OBVIOUS
<1> HIDE DEF t
<1>2. \A i \in DOMAIN t : i + 1 \in DOMAIN s /\ 1 < i + 1 /\ t[i] = s[i + 1]
  BY <1>1
<1>3. \A i \in DOMAIN s : i = 1 \/ (i - 1 \in DOMAIN t /\ s[i] = t[i - 1])
  BY <1>1
<1>4. 1 \in DOMAIN s  BY <1>1
<1>5. Carried(s) \subseteq Own(s[1]) \cup Carried(t)  BY <1>3 DEF Carried, Own
<1>6. Own(s[1]) \cup Carried(t) \subseteq Carried(s)  BY <1>2, <1>4 DEF Carried, Own
<1>7. ASSUME Rising(s) PROVE Rising(t) /\ Before(Own(s[1]), Carried(t))
  <2>1. Rising(t)
    <3> SUFFICES ASSUME NEW i \in DOMAIN t, NEW j \in DOMAIN t, i < j, Live(t[i]), Live(t[j])
                 PROVE  t[i].tag < t[j].tag
      BY DEF Rising
    <3>1. i + 1 < j + 1  BY <1>1
    <3> QED  BY <1>2, <1>7, <3>1 DEF Rising
  <2>2. Before(Own(s[1]), Carried(t))
    <3> SUFFICES ASSUME NEW i \in DOMAIN t, Live(t[i]), Live(s[1]) PROVE Req(s[1]).tag < Req(t[i]).tag
      BY DEF Before, Carried, Own
    <3> QED  BY <1>2, <1>4, <1>7 DEF Rising, Req
  <2> QED  BY <2>1, <2>2
<1> QED  BY <1>1, <1>5, <1>6, <1>7 DEF t

LEMMA CarriedConcat ==
  ASSUME NEW s \in Seq(Frames), NEW t \in Seq(Frames)
  PROVE  /\ Carried(s \o t) = Carried(s) \cup Carried(t)
         /\ Rising(s) /\ Rising(t) /\ Before(Carried(s), Carried(t)) => Rising(s \o t)
<1> DEFINE u == s \o t
<1>1. /\ Len(s) \in Nat /\ Len(t) \in Nat /\ DOMAIN s = 1..Len(s) /\ DOMAIN t = 1..Len(t)
      /\ DOMAIN u = 1..(Len(s) + Len(t))
      /\ \A i \in 1..Len(s) : u[i] = s[i]
      /\ \A i \in 1..Len(t) : u[Len(s) + i] = t[i]
  OBVIOUS
<1> HIDE DEF u
<1>2. \A i \in DOMAIN u : \/ i \in DOMAIN s /\ u[i] = s[i]
                          \/ i > Len(s) /\ i - Len(s) \in DOMAIN t /\ u[i] = t[i - Len(s)]
  <2> SUFFICES ASSUME NEW i \in DOMAIN u, i > Len(s) PROVE i - Len(s) \in DOMAIN t /\ u[i] = t[i - Len(s)]
    BY <1>1
  <2>1. i - Len(s) \in 1..Len(t) /\ Len(s) + (i - Len(s)) = i  BY <1>1
  <2> QED  BY <1>1, <2>1
<1>3. \A i \in DOMAIN s : i \in DOMAIN u /\ u[i] = s[i]
  BY <1>1
<1>4. \A i \in DOMAIN t : Len(s) + i \in DOMAIN u /\ u[Len(s) + i] = t[i]
  BY <1>1
<1>5. Carried(u) \subseteq Carried(s) \cup Carried(t)  BY <1>2 DEF Carried
<1>6. Carried(s) \cup Carried(t) \subseteq Carried(u)  BY <1>3, <1>4 DEF Carried
<1>7. ASSUME Rising(s), Rising(t), Before(Carried(s), Carried(t)) PROVE Rising(u)
  <2> SUFFICES ASSUME NEW i \in DOMAIN u, NEW j \in DOMAIN u, i < j, Live(u[i]), Live(u[j])
               PROVE  u[i].tag < u[j].tag
    BY DEF Rising
  <2>1. CASE j \in DOMAIN s /\ u[j] = s[j]
    <3>1. i \in DOMAIN s /\ u[i] = s[i]  BY <1>1, <2>1
    <3> QED  BY <1>7, <2>1, <3>1 DEF Rising
  <2>2. CASE i \in DOMAIN s /\ u[i] = s[i] /\ j - Len(s) \in DOMAIN t /\ u[j] = t[j - Len(s)]
    <3>1. Req(s[i]) \in Carried(s) /\ Req(t[j - Len(s)]) \in Carried(t)  BY <2>2 DEF Carried
    <3>2. Req(s[i]).tag < Req(t[j - Len(s)]).tag  BY <1>7, <3>1 DEF Before
    <3> QED  BY <2>2, <3>2 DEF Req
  <2>3. CASE /\ i - Len(s) \in DOMAIN t /\ u[i] = t[i - Len(s)]
             /\ j - Len(s) \in DOMAIN t /\ u[j] = t[j - Len(s)]
    <3>1. i - Len(s) < j - Len(s)  BY <1>1
    <3> QED  BY <1>7, <2>3, <3>1 DEF Rising
  <2> QED  BY <1>1, <1>2, <2>1, <2>2, <2>3
<1> QED  BY <1>5, <1>6, <1>7 DEF u

LEMMA CarriedPrefix ==
  ASSUME NEW s \in Seq(Frames), NEW n \in 0..Len(s)
  PROVE  Carried(SubSeq(s, 1, n)) \subseteq Carried(s) /\ (Rising(s) => Rising(SubSeq(s, 1, n)))
<1> DEFINE t == SubSeq(s, 1, n)
<1>1. \A i \in DOMAIN t : i \in DOMAIN s /\ t[i] = s[i]
  OBVIOUS
<1> HIDE DEF t
<1>2. Carried(t) \subseteq Carried(s)  BY <1>1 DEF Carried
<1>3. Rising(s) => Rising(t)  BY <1>1 DEF Rising
<1> QED  BY <1>2, <1>3 DEF t

\* Hellos, errors and goodbyes carry nothing.
LEMMA CarriedControl ==
  /\ \A type \in ControlTypes \cup {"Error"} : Own(Control(type)) = {}
  /\ Carried(<<Control("Error"), Control("Close")>>) = {} /\ Rising(<<Control("Error"), Control("Close")>>)
  /\ Carried(<<Control("Close")>>) = {} /\ Rising(<<Control("Close")>>)
  /\ Carried(<<Control("ClientHello")>>) = {} /\ Rising(<<Control("ClientHello")>>)
  /\ Carried(<<Control("Rejected"), Control("Error"), Control("Close")>>) = {}
  /\ Rising(<<Control("Rejected"), Control("Error"), Control("Close")>>)
<1>1. \A type \in ControlTypes \cup {"Error"} : ~Live(Control(type))
  BY DEF Live, Control, ControlTypes
<1>2. ASSUME NEW s, \A i \in DOMAIN s : ~Live(s[i]) PROVE Carried(s) = {} /\ Rising(s)
  BY <1>2 DEF Carried, Rising
<1>3. \A i \in DOMAIN <<Control("Error"), Control("Close")>> : ~Live(<<Control("Error"), Control("Close")>>[i])
  BY <1>1 DEF ControlTypes
<1>4. \A i \in DOMAIN <<Control("Close")>> : ~Live(<<Control("Close")>>[i])
  BY <1>1 DEF ControlTypes
<1>5. \A i \in DOMAIN <<Control("ClientHello")>> : ~Live(<<Control("ClientHello")>>[i])
  BY <1>1 DEF ControlTypes
<1>6. \A i \in DOMAIN <<Control("Rejected"), Control("Error"), Control("Close")>> :
         ~Live(<<Control("Rejected"), Control("Error"), Control("Close")>>[i])
  BY <1>1 DEF ControlTypes
<1> QED  BY <1>1, <1>2, <1>3, <1>4, <1>5, <1>6 DEF Own

LEMMA QueuedAppend ==
  ASSUME NEW ops \in Seq(Operations), NEW o \in Operations
  PROVE  /\ Queued(Append(ops, o)) = Queued(ops) \cup {o.req}
         /\ RisingOps(ops) /\ Before(Queued(ops), {o.req}) => RisingOps(Append(ops, o))
<1> DEFINE t == Append(ops, o)
<1>1. /\ Len(ops) \in Nat /\ DOMAIN ops = 1..Len(ops) /\ DOMAIN t = 1..(Len(ops) + 1)
      /\ \A i \in 1..Len(ops) : t[i] = ops[i]
      /\ t[Len(ops) + 1] = o
  OBVIOUS
<1> HIDE DEF t
<1>2. \A i \in DOMAIN t : (i \in DOMAIN ops /\ t[i] = ops[i]) \/ (i = Len(ops) + 1 /\ t[i] = o)
  <2>1. \A i \in 1..(Len(ops) + 1) : i \in 1..Len(ops) \/ i = Len(ops) + 1  BY <1>1
  <2> QED  BY <1>1, <2>1
<1>3. \A i \in DOMAIN ops : i \in DOMAIN t /\ t[i] = ops[i]
  BY <1>1
<1>4. Queued(t) = Queued(ops) \cup {o.req}
  <2>1. Len(ops) + 1 \in DOMAIN t  BY <1>1
  <2> QED  BY <1>1, <1>2, <1>3, <2>1 DEF Queued
<1>5. ASSUME RisingOps(ops), Before(Queued(ops), {o.req}) PROVE RisingOps(t)
  <2> SUFFICES ASSUME NEW i \in DOMAIN t, NEW j \in DOMAIN t, i < j PROVE t[i].req.tag < t[j].req.tag
    BY DEF RisingOps
  <2>1. i \in DOMAIN ops /\ t[i] = ops[i]  BY <1>1, <1>2
  <2> QED  BY <1>2, <1>5, <2>1 DEF RisingOps, Before, Queued
<1> QED  BY <1>4, <1>5 DEF t

LEMMA QueuedTail ==
  ASSUME NEW ops \in Seq(Operations), ops # << >>
  PROVE  /\ Queued(ops) = {Head(ops).req} \cup Queued(Tail(ops))
         /\ RisingOps(ops) => RisingOps(Tail(ops)) /\ Before({Head(ops).req}, Queued(Tail(ops)))
<1> DEFINE t == Tail(ops)
<1>1. /\ Len(ops) \in Nat \ {0} /\ DOMAIN ops = 1..Len(ops) /\ DOMAIN t = 1..(Len(ops) - 1)
      /\ \A i \in DOMAIN t : t[i] = ops[i + 1]
      /\ Head(ops) = ops[1]
  OBVIOUS
<1> HIDE DEF t
<1>2. \A i \in DOMAIN t : i + 1 \in DOMAIN ops /\ 1 < i + 1 /\ t[i] = ops[i + 1]
  BY <1>1
<1>3. \A i \in DOMAIN ops : i = 1 \/ (i - 1 \in DOMAIN t /\ ops[i] = t[i - 1])
  BY <1>1
<1>4. 1 \in DOMAIN ops  BY <1>1
<1>5. Queued(ops) = {ops[1].req} \cup Queued(t)  BY <1>2, <1>3, <1>4 DEF Queued
<1>6. ASSUME RisingOps(ops) PROVE RisingOps(t) /\ Before({ops[1].req}, Queued(t))
  <2>1. \A i, j \in DOMAIN t : i < j => i + 1 < j + 1  BY <1>1
  <2>2. RisingOps(t)  BY <1>2, <1>6, <2>1 DEF RisingOps
  <2>3. Before({ops[1].req}, Queued(t))  BY <1>2, <1>4, <1>6 DEF RisingOps, Before, Queued
  <2> QED  BY <2>2, <2>3
<1> QED  BY <1>1, <1>5, <1>6 DEF t

-----------------------------------------------------------------------------
(* What moves along a connection. *)

\* Dropping requests anywhere.
LEMMA ChainThin ==
  ASSUME NEW up, NEW out, NEW ops, NEW down, NEW wr, Chain(up, out, ops, down, wr),
         NEW up2, Rising(up2), Carried(up2) \subseteq Carried(up),
         NEW out2, Rising(out2), Carried(out2) \subseteq Carried(out),
         NEW ops2, RisingOps(ops2), Queued(ops2) \subseteq Queued(ops),
         NEW down2, Rising(down2), Carried(down2) \subseteq Carried(down),
         NEW wr2, Rising(wr2), Carried(wr2) \subseteq Carried(wr)
  PROVE  Chain(up2, out2, ops2, down2, wr2) /\ Load(up2, out2, ops2, down2, wr2) \subseteq Load(up, out, ops, down, wr)
BY DEF Chain, Load, Before

\* FlushFrame: the assistant sends a frame.
LEMMA ChainSend ==
  ASSUME NEW up, NEW out, NEW ops, NEW down \in Seq(Frames), NEW wr \in Seq(Frames), Chain(up, out, ops, down, wr),
         wr # << >>
  PROVE  /\ Chain(up, out, ops, Append(down, Head(wr)), Tail(wr))
         /\ Load(up, out, ops, Append(down, Head(wr)), Tail(wr)) \subseteq Load(up, out, ops, down, wr)
         /\ Carried(Append(down, Head(wr))) \cup Carried(Tail(wr)) \subseteq Carried(down) \cup Carried(wr)
<1>1. Head(wr) \in Frames  BY TailType
<1>2. Carried(wr) = Own(Head(wr)) \cup Carried(Tail(wr))  BY CarriedTail
<1>3. Rising(Tail(wr)) /\ Before(Own(Head(wr)), Carried(Tail(wr)))  BY CarriedTail DEF Chain
<1>4. Carried(Append(down, Head(wr))) = Carried(down) \cup Own(Head(wr))  BY <1>1, CarriedAppend
<1>5. Before(Carried(down), Own(Head(wr)))  BY <1>2 DEF Chain, Before
<1>6. Rising(Append(down, Head(wr)))  BY <1>1, <1>5, CarriedAppend DEF Chain
<1> QED  BY <1>2, <1>3, <1>4, <1>6 DEF Chain, Load, Before

\* LuaRequest: the script queues an operation.
LEMMA ChainQueue ==
  ASSUME NEW up, NEW out, NEW ops \in Seq(Operations), NEW down \in Seq(Frames), NEW wr,
         Chain(up, out, ops, down, wr), down # << >>, NEW o \in Operations, Own(Head(down)) = {o.req}
  PROVE  /\ Chain(up, out, Append(ops, o), Tail(down), wr)
         /\ Load(up, out, Append(ops, o), Tail(down), wr) \subseteq Load(up, out, ops, down, wr)
         /\ Carried(Tail(down)) \subseteq Carried(down) /\ o.req \in Carried(down)
<1>1. Carried(down) = {o.req} \cup Carried(Tail(down))  BY CarriedTail
<1>2. Rising(Tail(down)) /\ Before({o.req}, Carried(Tail(down)))  BY CarriedTail DEF Chain
<1>3. Queued(Append(ops, o)) = Queued(ops) \cup {o.req}  BY QueuedAppend
<1>4. Before(Queued(ops), {o.req})  BY <1>1 DEF Chain, Before
<1>5. RisingOps(Append(ops, o))  BY <1>4, QueuedAppend DEF Chain
<1> QED  BY <1>1, <1>2, <1>3, <1>5 DEF Chain, Load, Before

\* QueueResponse: the operation becomes a response.
LEMMA ChainRespond ==
  ASSUME NEW up, NEW out \in Seq(Frames), NEW ops \in Seq(Operations), NEW down, NEW wr,
         Chain(up, out, ops, down, wr), ops # << >>, NEW f \in Frames, Own(f) \subseteq {Head(ops).req}
  PROVE  /\ Chain(up, Append(out, f), Tail(ops), down, wr)
         /\ Load(up, Append(out, f), Tail(ops), down, wr) \subseteq Load(up, out, ops, down, wr)
<1>1. Queued(ops) = {Head(ops).req} \cup Queued(Tail(ops))  BY QueuedTail
<1>2. RisingOps(Tail(ops)) /\ Before({Head(ops).req}, Queued(Tail(ops)))  BY QueuedTail DEF Chain
<1>3. Carried(Append(out, f)) = Carried(out) \cup Own(f)  BY CarriedAppend
<1>4. Before(Carried(out), Own(f))  BY <1>1 DEF Chain, Before
<1>5. Rising(Append(out, f))  BY <1>4, CarriedAppend DEF Chain
<1> QED  BY <1>1, <1>2, <1>3, <1>5 DEF Chain, Load, Before

\* LuaFlush: the script sends a frame.
LEMMA ChainFlush ==
  ASSUME NEW up \in Seq(Frames), NEW out \in Seq(Frames), NEW ops, NEW down, NEW wr, Chain(up, out, ops, down, wr),
         out # << >>
  PROVE  /\ Chain(Append(up, Head(out)), Tail(out), ops, down, wr)
         /\ Load(Append(up, Head(out)), Tail(out), ops, down, wr) \subseteq Load(up, out, ops, down, wr)
<1>1. Head(out) \in Frames  BY TailType
<1>2. Carried(out) = Own(Head(out)) \cup Carried(Tail(out))  BY CarriedTail
<1>3. Rising(Tail(out)) /\ Before(Own(Head(out)), Carried(Tail(out)))  BY CarriedTail DEF Chain
<1>4. Carried(Append(up, Head(out))) = Carried(up) \cup Own(Head(out))  BY <1>1, CarriedAppend
<1>5. Before(Carried(up), Own(Head(out)))  BY <1>2 DEF Chain, Before
<1>6. Rising(Append(up, Head(out)))  BY <1>1, <1>5, CarriedAppend DEF Chain
<1> QED  BY <1>2, <1>3, <1>4, <1>6 DEF Chain, Load, Before

\* LuaStop: the script sends some of its queue and forgets the rest.
LEMMA ChainStop ==
  ASSUME NEW up \in Seq(Frames), NEW out, NEW ops, NEW down, NEW wr, Chain(up, out, ops, down, wr),
         NEW sent \in Seq(Frames), Rising(sent), Carried(sent) \subseteq Carried(out)
  PROVE  /\ Chain(up \o sent, << >>, << >>, << >>, wr)
         /\ Load(up \o sent, << >>, << >>, << >>, wr) \subseteq Load(up, out, ops, down, wr)
<1>1. Carried(up \o sent) = Carried(up) \cup Carried(sent)  BY CarriedConcat
<1>2. Before(Carried(up), Carried(sent))  BY DEF Chain, Before
<1>3. Rising(up \o sent)  BY <1>2, CarriedConcat DEF Chain
<1> QED  BY <1>1, <1>3, CarriedEmpty DEF Chain, Load, Before

\* SubmitQueued: a request with a larger tag enters the writer.
LEMMA ChainSubmit ==
  ASSUME NEW up, NEW out, NEW ops, NEW down, NEW wr \in Seq(Frames), Chain(up, out, ops, down, wr),
         NEW f \in Frames, Before(Load(up, out, ops, down, wr), Own(f))
  PROVE  /\ Chain(up, out, ops, down, Append(wr, f))
         /\ Load(up, out, ops, down, Append(wr, f)) = Load(up, out, ops, down, wr) \cup Own(f)
<1>1. Carried(Append(wr, f)) = Carried(wr) \cup Own(f)  BY CarriedAppend
<1>2. Rising(Append(wr, f))  BY CarriedAppend DEF Chain, Load, Before
<1> QED  BY <1>1, <1>2 DEF Chain, Load, Before

-----------------------------------------------------------------------------
(* No step but a submit adds to what a connection carries. *)

Thin(t, s) == Rising(t) /\ Carried(t) \subseteq Carried(s)

LEMMA ThinFacts ==
  ASSUME NEW s \in Seq(Frames), Rising(s)
  PROVE  /\ Thin(s, s) /\ Thin(<< >>, s)
         /\ s # << >> => Thin(Tail(s), s)
         /\ \A f \in Frames : Own(f) = {} => Thin(Append(s, f), s)
         /\ \A t \in Seq(Frames) : Carried(t) = {} /\ Rising(t) => Thin(s \o t, s) /\ Thin(t, s)
<1>1. Thin(s, s) /\ Thin(<< >>, s)  BY CarriedEmpty DEF Thin
<1>2. s # << >> => Thin(Tail(s), s)  BY CarriedTail DEF Thin
<1>3. ASSUME NEW f \in Frames, Own(f) = {} PROVE Thin(Append(s, f), s)
  <2>1. Before(Carried(s), Own(f))  BY <1>3 DEF Before
  <2> QED  BY <1>3, <2>1, CarriedAppend DEF Thin
<1>4. ASSUME NEW t \in Seq(Frames), Carried(t) = {}, Rising(t) PROVE Thin(s \o t, s) /\ Thin(t, s)
  <2>1. Before(Carried(s), Carried(t))  BY <1>4 DEF Before
  <2> QED  BY <1>4, <2>1, CarriedConcat, ZenonT(60) DEF Thin
<1> QED  BY <1>1, <1>2, <1>3, <1>4

Flows(c) == ChainOf(c)' /\ LoadOf(c)' \subseteq LoadOf(c) /\ DownOf(c)' \subseteq DownOf(c)

\* Every stretch of a connection stays or gets thinner.
LEMMA FlowThin ==
  ASSUME NEW c \in Conns, ChainOf(c), Thin(toApp'[c], toApp[c]), Thin(OutOf(c)', OutOf(c)),
         RisingOps(OpsOf(c)'), Queued(OpsOf(c)') \subseteq Queued(OpsOf(c)),
         Thin(toPeer'[c], toPeer[c]), Thin(writer'[c], writer[c])
  PROVE  Flows(c)
BY ChainThin DEF Flows, DownOf, ChainOf, LoadOf, Thin

\* The same, with the script's side as it was.
LEMMA FlowWire ==
  ASSUME NEW c \in Conns, ChainOf(c), UNCHANGED <<sock, outgoing, operations>>,
         Thin(toApp'[c], toApp[c]), Thin(toPeer'[c], toPeer[c]), Thin(writer'[c], writer[c])
  PROVE  Flows(c)
<1>1. OutOf(c)' = OutOf(c) /\ OpsOf(c)' = OpsOf(c)  BY DEF OutOf, OpsOf
<1>2. Thin(OutOf(c)', OutOf(c)) /\ RisingOps(OpsOf(c)') /\ Queued(OpsOf(c)') \subseteq Queued(OpsOf(c))
  BY <1>1 DEF ChainOf, Chain, Thin
<1> QED  BY <1>2, FlowThin

\* A frame of the assistant's goes out.
LEMMA FlowSend ==
  ASSUME TypeOK, NEW c \in Conns, ChainOf(c), UNCHANGED <<sock, outgoing, operations>>, writer[c] # << >>,
         toApp'[c] = toApp[c], toPeer'[c] = Append(toPeer[c], Head(writer[c])), writer'[c] = Tail(writer[c])
  PROVE  Flows(c)
<1>1. OutOf(c)' = OutOf(c) /\ OpsOf(c)' = OpsOf(c)  BY DEF OutOf, OpsOf
<1>2. toPeer[c] \in Seq(Frames) /\ writer[c] \in Seq(Frames)
  BY DEF TypeOK, WireTypeOK, TransportTypeOK, Streams
<1> QED  BY <1>1, <1>2, ChainSend DEF Flows, DownOf, ChainOf, LoadOf

LEMMA FlowStay ==
  ASSUME NEW c \in Conns, ChainOf(c), UNCHANGED <<toApp, toPeer, writer, sock, outgoing, operations>>
  PROVE  Flows(c)
BY DEF Flows, DownOf, ChainOf, LoadOf, OutOf, OpsOf

\* The wire and the writer of one connection as they are.
LEMMA Stretches ==
  ASSUME TypeOK, NEW c \in Conns, ChainOf(c)
  PROVE  /\ toApp[c] \in Seq(Frames) /\ toPeer[c] \in Seq(Frames) /\ writer[c] \in Seq(Frames)
         /\ Rising(toApp[c]) /\ Rising(toPeer[c]) /\ Rising(writer[c])
         /\ Thin(toApp[c], toApp[c]) /\ Thin(toPeer[c], toPeer[c]) /\ Thin(writer[c], writer[c])
         /\ Thin(<< >>, toApp[c]) /\ Thin(<< >>, toPeer[c]) /\ Thin(<< >>, writer[c])
<1>1. toApp[c] \in Seq(Frames) /\ toPeer[c] \in Seq(Frames) /\ writer[c] \in Seq(Frames)
  BY DEF TypeOK, WireTypeOK, TransportTypeOK, Streams
<1>2. Rising(toApp[c]) /\ Rising(toPeer[c]) /\ Rising(writer[c])  BY DEF ChainOf, Chain
<1> QED  BY <1>1, <1>2, ThinFacts

LEMMA CloseClientFlow ==
  ASSUME TypeOK, NEW c \in Conns, ChainOf(c), client # NoConn, NEW status, CloseClient(status),
         UNCHANGED <<sock, outgoing, operations>>
  PROVE  Flows(c)
<1>1. client \in Conns /\ toApp \in Streams /\ writer \in Streams
  BY DEF TypeOK, WireTypeOK, TransportTypeOK
<1>2. /\ toApp'[c] = (IF c = client THEN << >> ELSE toApp[c])
      /\ writer'[c] = (IF c = client THEN << >> ELSE writer[c])
      /\ toPeer'[c] = toPeer[c]
  BY <1>1 DEF CloseClient, Streams
<1> QED  BY <1>2, Stretches, FlowWire

LEMMA BeginCloseFlow ==
  ASSUME TypeOK, NEW c \in Conns, ChainOf(c), client # NoConn, NEW status, NEW frames \in Seq(Frames),
         Carried(frames) = {}, Rising(frames), BeginClose(frames, status), UNCHANGED <<sock, outgoing, operations>>
  PROVE  Flows(c)
<1>1. client \in Conns /\ toApp \in Streams /\ writer \in Streams
  BY DEF TypeOK, WireTypeOK, TransportTypeOK
<1>2. /\ toApp'[c] = (IF c = client THEN << >> ELSE toApp[c])
      /\ writer'[c] \in (IF c = client THEN {<< >>, writer[c] \o frames} ELSE {writer[c]})
      /\ toPeer'[c] = toPeer[c]
  BY <1>1 DEF BeginClose, Streams
<1>3. Thin(writer[c] \o frames, writer[c])  BY Stretches, ThinFacts
<1> QED  BY <1>2, <1>3, Stretches, FlowWire

LEMMA TransportFlow ==
  ASSUME TypeOK, NEW c \in Conns, ChainOf(c), TransportStep, UNCHANGED <<sock, outgoing, operations>>
  PROVE  Flows(c)
<1>1. toApp \in Streams /\ writer \in Streams /\ toPeer \in Streams /\ client \in Conns \cup {NoConn}
  BY DEF TypeOK, WireTypeOK, TransportTypeOK
<1>2. CASE AcceptClient
  BY <1>2, FlowStay DEF AcceptClient
<1>3. CASE RejectBusyClient
  <2> DEFINE bye == <<Control("Rejected"), Control("Error"), Control("Close")>>
  <2>1. Head(backlog) \in Conns
    BY <1>3, TailType DEF RejectBusyClient, TypeOK, WireTypeOK
  <2>2. /\ toApp'[c] \in {<< >>, toApp[c]} /\ writer'[c] \in {bye, writer[c]} /\ toPeer'[c] = toPeer[c]
    BY <1>1, <1>3, <2>1 DEF RejectBusyClient, Streams
  <2>3. Thin(bye, writer[c])  BY GoodbyeFrames, CarriedControl, Stretches, ThinFacts
  <2> QED  BY <2>2, <2>3, Stretches, FlowWire
<1>4. CASE FlushClosingPeers
  <2>1. PICK sent \in SUBSET {d \in closingPeers : writer[d] # << >>} :
          LET gone == {d \in closingPeers : writer[d] = << >> \/ (d \in sent /\ ~peerOpen[d])}
              took == sent \ gone
          IN
          /\ toPeer' = [d \in Conns |-> IF d \in took THEN Append(toPeer[d], Head(writer[d])) ELSE toPeer[d]]
          /\ writer' = [d \in Conns |-> IF d \in gone THEN << >>
                                        ELSE IF d \in took THEN Tail(writer[d]) ELSE writer[d]]
          /\ toApp' = [d \in Conns |-> IF d \in gone THEN << >> ELSE toApp[d]]
    BY <1>4 DEF FlushClosingPeers
  <2>2. \/ /\ writer[c] # << >> /\ toApp'[c] = toApp[c]
           /\ toPeer'[c] = Append(toPeer[c], Head(writer[c])) /\ writer'[c] = Tail(writer[c])
        \/ toApp'[c] \in {<< >>, toApp[c]} /\ writer'[c] \in {<< >>, writer[c]} /\ toPeer'[c] = toPeer[c]
    BY <2>1
  <2> QED  BY <2>2, Stretches, FlowWire, FlowSend
<1>5. CASE AcceptHello
  <2>1. CASE CloseClient("Disconnected")
    BY <1>5, <2>1, CloseClientFlow DEF AcceptHello, Arriving, CanReceive
  <2>2. CASE Take /\ writer' = [writer EXCEPT ![client] = Append(writer[client], Control("ServerHello"))]
    <3>1. toApp[client] # << >> /\ client \in Conns
      BY <1>1, <1>5 DEF AcceptHello, Arriving, CanReceive
    <3>2. /\ toApp'[c] = (IF c = client THEN Tail(toApp[c]) ELSE toApp[c])
          /\ writer'[c] = (IF c = client THEN Append(writer[c], Control("ServerHello")) ELSE writer[c])
          /\ toPeer'[c] = toPeer[c]
      BY <1>1, <2>2, <3>1 DEF Take, Streams
    <3>3. Own(Control("ServerHello")) = {} /\ Control("ServerHello") \in Frames
      BY CarriedControl, ControlFrames DEF ControlTypes
    <3>4. Thin(Append(writer[c], Control("ServerHello")), writer[c])  BY <3>3, Stretches, ThinFacts
    <3>5. c = client => Thin(Tail(toApp[c]), toApp[c])  BY <3>1, Stretches, ThinFacts
    <3> QED  BY <3>2, <3>4, <3>5, Stretches, FlowWire
  <2> QED  BY <1>5, <2>1, <2>2 DEF AcceptHello
<1>6. CASE RejectHello
  BY <1>6, GoodbyeFrames, CarriedControl, BeginCloseFlow DEF RejectHello, Arriving, CanReceive
<1>7. CASE ReceiveClose
  BY <1>7, GoodbyeFrames, CarriedControl, BeginCloseFlow DEF ReceiveClose, BeginOrderlyClose, Arriving, CanReceive
<1>8. CASE ReceiveUnexpected
  BY <1>8, GoodbyeFrames, CarriedControl, BeginCloseFlow DEF ReceiveUnexpected, BeginProtocolClose, Arriving, CanReceive
<1>9. CASE ReceiveResult
  <2>1. toApp[client] # << >> /\ client \in Conns
    BY <1>1, <1>9 DEF ReceiveResult, Arriving, CanReceive
  <2>2. /\ toApp'[c] = (IF c = client THEN Tail(toApp[c]) ELSE toApp[c])
        /\ writer'[c] = writer[c] /\ toPeer'[c] = toPeer[c]
    BY <1>1, <1>9, <2>1 DEF ReceiveResult, Take, Streams
  <2>3. c = client => Thin(Tail(toApp[c]), toApp[c])  BY <2>1, Stretches, ThinFacts
  <2> QED  BY <2>2, <2>3, Stretches, FlowWire
<1>10. CASE ReceiveError
  <2>1. client \in Conns
    BY <1>1, <1>10 DEF ReceiveError, Arriving, CanReceive
  <2>2. /\ toApp'[c] = (IF c = client THEN << >> ELSE toApp[c])
        /\ writer'[c] \in {writer[c], Append(writer[c], Control("Close"))}
        /\ toPeer'[c] = toPeer[c]
    BY <1>1, <1>10, <2>1 DEF ReceiveError, Streams
  <2>3. Own(Control("Close")) = {} /\ Control("Close") \in Frames
    BY CarriedControl, ControlFrames DEF ControlTypes
  <2>4. Thin(Append(writer[c], Control("Close")), writer[c])  BY <2>3, Stretches, ThinFacts
  <2> QED  BY <2>2, <2>4, Stretches, FlowWire
<1>11. CASE ReceiveClosed
  BY <1>11, CloseClientFlow DEF ReceiveClosed, CanReceive
<1>12. CASE FlushError
  BY <1>12, CloseClientFlow DEF FlushError
<1>13. CASE FlushEnd
  BY <1>13, CloseClientFlow, FlowStay DEF FlushEnd, transportVars, wireVars
<1>14. CASE FlushFrame
  <2>1. client \in Conns /\ writer[client] # << >>
    BY <1>1, <1>14 DEF FlushFrame
  <2>2. /\ toApp'[c] = toApp[c] /\ writer'[c] = (IF c = client THEN Tail(writer[c]) ELSE writer[c])
        /\ \/ c = client /\ toPeer'[c] = Append(toPeer[c], Head(writer[c]))
           \/ toPeer'[c] = toPeer[c]
    BY <1>1, <1>14, <2>1 DEF FlushFrame, Streams
  <2>3. c = client => Thin(Tail(writer[c]), writer[c])  BY <2>1, Stretches, ThinFacts
  <2> QED  BY <2>1, <2>2, <2>3, Stretches, FlowWire, FlowSend
<1> QED
  BY <1>2, <1>3, <1>4, <1>5, <1>6, <1>7, <1>8, <1>9, <1>10, <1>11, <1>12, <1>13, <1>14 DEF TransportStep

LEMMA StopFlow ==
  ASSUME TypeOK, NEW c \in Conns, ChainOf(c), StopSockets, UNCHANGED <<sock, outgoing, operations>>
  PROVE  Flows(c)
<1>1. toPeer \in Streams /\ client \in Conns \cup {NoConn}
  BY DEF TypeOK, WireTypeOK, TransportTypeOK
<1>2. toApp'[c] = << >> /\ writer'[c] = << >> /\ toPeer'[c] \in {toPeer[c], Append(toPeer[c], Control("Close"))}
  BY <1>1 DEF StopSockets, Streams
<1>3. Own(Control("Close")) = {} /\ Control("Close") \in Frames
  BY CarriedControl, ControlFrames DEF ControlTypes
<1>4. Thin(Append(toPeer[c], Control("Close")), toPeer[c])  BY <1>3, Stretches, ThinFacts
<1> QED  BY <1>2, <1>4, Stretches, FlowWire

LEMMA ConnFacts == NoConn \notin Conns /\ NoTag \notin Tags /\ Foreign \subseteq Conns
BY WireAssumption DEF Conns, NoConn, NoTag, Tags

LEMMA ScriptQueues ==
  ASSUME TypeOK, NEW c \in Conns, ChainOf(c)
  PROVE  /\ OutOf(c) \in Seq(Frames) /\ OpsOf(c) \in Seq(Operations) /\ Rising(OutOf(c)) /\ RisingOps(OpsOf(c))
         /\ Thin(OutOf(c), OutOf(c)) /\ Thin(<< >>, OutOf(c))
         /\ RisingOps(<< >>) /\ Queued(<< >>) \subseteq Queued(OpsOf(c))
<1>1. OutOf(c) \in Seq(Frames) /\ OpsOf(c) \in Seq(Operations)
  BY EmptySeqType DEF TypeOK, ScriptTypeOK, OutOf, OpsOf
<1>2. Rising(OutOf(c)) /\ RisingOps(OpsOf(c))  BY DEF ChainOf, Chain
<1> QED  BY <1>1, <1>2, ThinFacts, CarriedEmpty

LEMMA CloseSocketFlow ==
  ASSUME TypeOK, NEW c \in Conns, ChainOf(c), sock # NoConn, CloseSocket, UNCHANGED <<toApp, writer>>
  PROVE  Flows(c)
<1>1. sock \in Conns /\ toPeer \in Streams  BY DEF TypeOK, ScriptTypeOK, WireTypeOK
<1>2. /\ toPeer'[c] \in {<< >>, toPeer[c]} /\ toApp'[c] = toApp[c] /\ writer'[c] = writer[c]
      /\ OutOf(c)' = << >> /\ OpsOf(c)' = << >>
  BY <1>1 DEF CloseSocket, Streams, OutOf, OpsOf
<1> QED  BY <1>2, Stretches, ScriptQueues, FlowThin

\* The script takes a frame that carries nothing it keeps, and may answer it.
LEMMA TakeFlow ==
  ASSUME TypeOK, NEW c \in Conns, ChainOf(c), LuaArriving, LuaTake, UNCHANGED <<operations, writer>>,
         NEW frames \in Seq(Frames), Carried(frames) = {}, Rising(frames), outgoing' \in {outgoing, outgoing \o frames}
  PROVE  Flows(c)
<1>1. sock \in Conns /\ toPeer \in Streams /\ toPeer[sock] # << >>
  BY DEF TypeOK, ScriptTypeOK, WireTypeOK, LuaArriving
<1>2. /\ toPeer'[c] = (IF c = sock THEN Tail(toPeer[c]) ELSE toPeer[c]) /\ toApp'[c] = toApp[c] /\ writer'[c] = writer[c]
      /\ sock' = sock
  BY <1>1 DEF LuaTake, LuaArriving, Streams
<1>3. OpsOf(c)' = OpsOf(c) /\ OutOf(c)' \in {OutOf(c), OutOf(c) \o frames}
  BY <1>2 DEF OutOf, OpsOf
<1>4. c = sock => Thin(Tail(toPeer[c]), toPeer[c])  BY <1>1, Stretches, ThinFacts
<1>5. Thin(OutOf(c) \o frames, OutOf(c))  BY ScriptQueues, ThinFacts
<1> QED  BY <1>2, <1>3, <1>4, <1>5, Stretches, ScriptQueues, FlowThin

LEMMA QueueOrFailFlow ==
  ASSUME TypeOK, NEW c \in Conns, ChainOf(c), LuaArriving, UNCHANGED writer,
         NEW frames \in Seq(Frames), Carried(frames) = {}, Rising(frames), NEW next, QueueOrFail(frames, next)
  PROVE  Flows(c)
BY TakeFlow, CloseSocketFlow DEF QueueOrFail, LuaArriving

LEMMA LuaRequestFlow ==
  ASSUME TypeOK, NEW c \in Conns, ChainOf(c), LuaRequest, UNCHANGED writer
  PROVE  Flows(c)
<1> DEFINE r == [id |-> LuaFrame.id, op |-> LuaFrame.op, tag |-> LuaFrame.tag]
           o == [req |-> r, at |-> "new"]
<1>1. sock \in Conns /\ LuaFrame \in Frames /\ toPeer[sock] # << >> /\ toPeer \in Streams
  BY LuaFrameType DEF LuaRequest, LuaArriving, TypeOK, WireTypeOK
<1>2. LuaFrame.type = "Request" /\ LuaArriving  BY DEF LuaRequest
<1>3. r \in Requests /\ r = Req(LuaFrame) /\ LuaFrame.tag # NoTag
  BY <1>1, <1>2, ConnFacts DEF Frames, Requests, Req, ControlTypes, WorkTypes
<1>4. o \in Operations /\ o.req = r  BY <1>3 DEF Operations
<1>5. Own(LuaFrame) = {r}  BY <1>2, <1>3 DEF Own, Live
<1>6. CASE LuaTake /\ operations' = Append(operations, o) /\ UNCHANGED outgoing
  <2>1. /\ toPeer'[c] = (IF c = sock THEN Tail(toPeer[c]) ELSE toPeer[c]) /\ toApp'[c] = toApp[c] /\ writer'[c] = writer[c]
        /\ sock' = sock
    BY <1>1, <1>2, <1>6 DEF LuaTake, LuaArriving, Streams
  <2>2. OutOf(c)' = OutOf(c) /\ OpsOf(c)' = (IF c = sock THEN Append(OpsOf(c), o) ELSE OpsOf(c))
    BY <1>6, <2>1 DEF OutOf, OpsOf
  <2> HIDE DEF r, o
  <2>3. CASE c = sock
    <3>1. toPeer[c] # << >> /\ Own(Head(toPeer[c])) = {o.req}  BY <1>1, <1>4, <1>5, <2>3 DEF LuaFrame
    <3>2. /\ Chain(toApp[c], OutOf(c), Append(OpsOf(c), o), Tail(toPeer[c]), writer[c])
          /\ Load(toApp[c], OutOf(c), Append(OpsOf(c), o), Tail(toPeer[c]), writer[c])
               \subseteq Load(toApp[c], OutOf(c), OpsOf(c), toPeer[c], writer[c])
          /\ Carried(Tail(toPeer[c])) \subseteq Carried(toPeer[c])
      BY <1>4, <3>1, Stretches, ScriptQueues, ChainQueue DEF ChainOf
    <3> QED  BY <2>1, <2>2, <2>3, <3>2 DEF Flows, DownOf, ChainOf, LoadOf
  <2>4. CASE c # sock
    BY <2>1, <2>2, <2>4 DEF Flows, DownOf, ChainOf, LoadOf
  <2> QED  BY <2>3, <2>4
<1>7. CASE QueueOrFail(<<Work("Error", r)>>, phase)
  <2>1. Work("Error", r) \in Frames  BY <1>3, WorkFrames DEF WorkTypes
  <2>2. ~Live(Work("Error", r))  BY DEF Live, Work
  <2>3. <<Work("Error", r)>> \in Seq(Frames)  BY <2>1
  <2>4. Carried(<<Work("Error", r)>>) = {} /\ Rising(<<Work("Error", r)>>)
    BY <2>2 DEF Carried, Rising
  <2> HIDE DEF r, o
  <2> QED  BY <1>2, <1>7, <2>3, <2>4, QueueOrFailFlow
<1> QED  BY <1>6, <1>7 DEF LuaRequest

LEMMA ScriptFlow ==
  ASSUME TypeInv, ChainInv, NEW c \in Conns, ScriptNext
  PROVE  Flows(c)
<1>1. TypeOK /\ ChainOf(c) /\ UNCHANGED writer /\ (luaAt # "idle" => sock # NoConn)
  BY DEF TypeInv, InFrame, ChainInv, ScriptNext, appVars, transportVars
<1>2. sock \in Conns \cup {NoConn} /\ toApp \in Streams /\ toPeer \in Streams
  BY <1>1 DEF TypeOK, ScriptTypeOK, WireTypeOK
<1>3. CASE LuaConnect
  <2>1. /\ sock = NoConn /\ sock' \in Conns /\ outgoing' = <<Control("ClientHello")>> /\ UNCHANGED <<toApp, toPeer>>
        /\ operations = << >> /\ operations' = << >>
    BY <1>3 DEF LuaConnect, OpenConnection, ChainInv
  <2>2. OpsOf(c)' = << >> /\ OutOf(c)' \in {<< >>, <<Control("ClientHello")>>}
    BY <2>1 DEF OpsOf, OutOf
  <2>3. Thin(<<Control("ClientHello")>>, OutOf(c))
    BY <1>1, GoodbyeFrames, CarriedControl, ScriptQueues, ThinFacts
  <2> QED  BY <1>1, <2>1, <2>2, <2>3, Stretches, ScriptQueues, FlowThin
<1>4. CASE LuaHello \/ LuaError
  <2>1. << >> \in Seq(Frames) /\ Carried(<< >>) = {} /\ Rising(<< >>)  BY EmptySeqType, CarriedEmpty
  <2>2. LuaArriving /\ LuaTake /\ UNCHANGED <<operations, outgoing>>  BY <1>4 DEF LuaHello, LuaError
  <2> QED  BY <1>1, <2>1, <2>2, TakeFlow
<1>5. CASE LuaRequest  BY <1>1, <1>5, LuaRequestFlow
<1>6. CASE LuaClose
  BY <1>1, <1>6, GoodbyeFrames, CarriedControl, QueueOrFailFlow DEF LuaClose
<1>7. CASE LuaUnexpected
  BY <1>1, <1>7, GoodbyeFrames, CarriedControl, QueueOrFailFlow DEF LuaUnexpected, LuaProtocolClose
<1>8. CASE LuaDisconnected
  BY <1>1, <1>8, CloseSocketFlow DEF LuaDisconnected
<1>9. CASE OnFrame \/ EndWork
  BY <1>1, <1>9, FlowStay DEF OnFrame, EndWork, wireVars
<1>10. CASE RunOperation
  <2>1. PICK at \in {"partial", "done", "failed"} : operations' = [operations EXCEPT ![1].at = at]
    BY <1>10 DEF RunOperation
  <2>2. operations \in Seq(Operations) /\ operations # << >>
    BY <1>1, <1>10 DEF RunOperation, AtHead, TypeOK, ScriptTypeOK
  <2>3. DOMAIN operations' = DOMAIN operations /\ \A i \in DOMAIN operations : operations'[i].req = operations[i].req
    BY <2>1, <2>2 DEF Operations
  <2>4. UNCHANGED <<sock, outgoing, toApp, toPeer>>  BY <1>10 DEF RunOperation, wireVars
  <2>5. RisingOps(operations) => RisingOps(operations')  BY <2>3 DEF RisingOps
  <2>6. Queued(operations') = Queued(operations)  BY <2>3 DEF Queued
  <2>7. OutOf(c)' = OutOf(c) /\ (RisingOps(OpsOf(c)) => RisingOps(OpsOf(c)')) /\ Queued(OpsOf(c)') = Queued(OpsOf(c))
    BY <2>4, <2>5, <2>6 DEF OutOf, OpsOf
  <2> QED  BY <1>1, <2>4, <2>7, Stretches, ScriptQueues, FlowThin
<1>11. CASE QueueResponse
  <2> DEFINE o == Head(operations)
             f == Work(IF o.at = "done" THEN "Result" ELSE "Error", o.req)
  <2>1. /\ operations \in Seq(Operations) /\ operations # << >> /\ outgoing' = Append(outgoing, f)
        /\ operations' = Tail(operations) /\ sock # NoConn /\ UNCHANGED <<sock, toApp, toPeer>>
    BY <1>1, <1>11 DEF QueueResponse, AtHead, TypeOK, ScriptTypeOK, wireVars
  <2>2. o \in Operations  BY <2>1, TailType
  <2>3. o.req \in Requests  BY <2>2 DEF Operations
  <2>4. f \in Frames  BY <2>3, WorkFrames DEF WorkTypes
  <2>5. Own(f) \subseteq {o.req}
    <3>1. Req(f) = o.req  BY <2>3 DEF Req, Work, Requests
    <3> QED  BY <3>1 DEF Own
  <2>6. OutOf(c)' = (IF c = sock THEN Append(OutOf(c), f) ELSE OutOf(c))
        /\ OpsOf(c)' = (IF c = sock THEN Tail(OpsOf(c)) ELSE OpsOf(c))
    BY <2>1 DEF OutOf, OpsOf
  <2>7. CASE c = sock
    <3>1. OpsOf(c) = operations  BY <2>7 DEF OpsOf
    <3> HIDE DEF f
    <3>2. OpsOf(c) # << >> /\ Own(f) \subseteq {Head(OpsOf(c)).req}  BY <2>1, <2>5, <3>1
    <3>3. /\ Chain(toApp[c], Append(OutOf(c), f), Tail(OpsOf(c)), toPeer[c], writer[c])
          /\ Load(toApp[c], Append(OutOf(c), f), Tail(OpsOf(c)), toPeer[c], writer[c])
               \subseteq Load(toApp[c], OutOf(c), OpsOf(c), toPeer[c], writer[c])
      BY <1>1, <2>4, <3>2, ScriptQueues, ChainRespond DEF ChainOf
    <3> QED  BY <1>1, <2>1, <2>6, <2>7, <3>3 DEF Flows, DownOf, ChainOf, LoadOf
  <2>8. CASE c # sock
    BY <1>1, <2>1, <2>6, <2>8 DEF Flows, DownOf, ChainOf, LoadOf
  <2> QED  BY <2>7, <2>8
<1>12. CASE LuaFlush
  <2>1. /\ outgoing # << >> /\ outgoing' = Tail(outgoing) /\ UNCHANGED <<sock, operations, toPeer>> /\ sock \in Conns
        /\ toApp' = (IF appOpen[sock] THEN [toApp EXCEPT ![sock] = Append(toApp[sock], Head(outgoing))] ELSE toApp)
    BY <1>1, <1>2, <1>12 DEF LuaFlush
  <2>2. OpsOf(c)' = OpsOf(c) /\ OutOf(c)' = (IF c = sock THEN Tail(OutOf(c)) ELSE OutOf(c))
    BY <2>1 DEF OutOf, OpsOf
  <2>3. CASE c = sock
    <3>1. OutOf(c) # << >> /\ OutOf(c) = outgoing  BY <2>1, <2>3 DEF OutOf
    <3>2. toApp'[c] \in {toApp[c], Append(toApp[c], Head(OutOf(c)))}
      BY <1>2, <2>1, <2>3, <3>1 DEF Streams
    <3>3. Thin(Tail(OutOf(c)), OutOf(c))  BY <1>1, <3>1, ScriptQueues, ThinFacts
    <3>4. CASE toApp'[c] = toApp[c]
      BY <1>1, <2>1, <2>2, <2>3, <3>3, <3>4, Stretches, ScriptQueues, FlowThin
    <3>5. CASE toApp'[c] = Append(toApp[c], Head(OutOf(c)))
      BY <1>1, <2>1, <2>2, <2>3, <3>1, <3>5, Stretches, ScriptQueues, ChainFlush DEF Flows, DownOf, ChainOf, LoadOf
    <3> QED  BY <3>2, <3>4, <3>5
  <2>4. CASE c # sock
    <3>1. toApp'[c] = toApp[c]  BY <1>2, <2>1, <2>4 DEF Streams
    <3> QED  BY <1>1, <2>1, <2>2, <2>4, <3>1 DEF Flows, DownOf, ChainOf, LoadOf
  <2> QED  BY <2>3, <2>4
<1>13. CASE EndFrame
  <2>1. CASE CloseSocket  BY <1>1, <1>13, <2>1, CloseSocketFlow DEF EndFrame
  <2>2. CASE UNCHANGED <<sock, operations, outgoing, toPeer>>  BY <1>1, <1>13, <2>2, FlowStay DEF EndFrame
  <2> QED  BY <1>13, <2>1, <2>2 DEF EndFrame
<1>14. CASE LuaStop
  <2>1. CASE sock = NoConn  BY <1>1, <1>14, <2>1, FlowStay DEF LuaStop
  <2>2. CASE sock # NoConn
    <3> DEFINE last == IF Len(outgoing) < MaxOutgoing THEN Append(outgoing, Control("Close")) ELSE outgoing
    <3>1. CloseSocket /\ \E n \in 0..Len(last) :
             toApp' = IF appOpen[sock] THEN [toApp EXCEPT ![sock] = toApp[sock] \o SubSeq(last, 1, n)] ELSE toApp
      BY <1>14, <2>2 DEF LuaStop
    <3>2. PICK n \in 0..Len(last) :
             toApp' = IF appOpen[sock] THEN [toApp EXCEPT ![sock] = toApp[sock] \o SubSeq(last, 1, n)] ELSE toApp
      BY <3>1
    <3>3. sock \in Conns /\ outgoing \in Seq(Frames)  BY <1>1, <1>2, <2>2 DEF TypeOK, ScriptTypeOK
    <3>4. Own(Control("Close")) = {} /\ Control("Close") \in Frames
      BY CarriedControl, ControlFrames DEF ControlTypes
    <3>5. CASE c = sock
      <4>1. OutOf(c) = outgoing /\ Rising(outgoing)  BY <1>1, <3>5, ScriptQueues DEF OutOf
      <4>2. last \in Seq(Frames) /\ Thin(last, outgoing)
        BY <3>3, <3>4, <4>1, ThinFacts, AppendType
      <4>3. SubSeq(last, 1, n) \in Seq(Frames) /\ Thin(SubSeq(last, 1, n), outgoing)
        BY <4>2, CarriedPrefix, SubSeqType DEF Thin
      <4> DEFINE sent == SubSeq(last, 1, n)
      <4>4. toApp'[c] \in {toApp[c], toApp[c] \o sent}  BY <1>2, <3>2, <3>3, <3>5 DEF Streams
      <4> HIDE DEF sent, last
      <4>5. OutOf(c)' = << >> /\ OpsOf(c)' = << >> /\ toPeer'[c] = << >> /\ writer'[c] = writer[c]
        BY <1>1, <1>2, <3>1, <3>3, <3>5 DEF CloseSocket, OutOf, OpsOf, Streams
      <4>6. CASE toApp'[c] = toApp[c]
        BY <1>1, <4>5, <4>6, Stretches, ScriptQueues, FlowThin
      <4>7. CASE toApp'[c] = toApp[c] \o sent
        <5>1. ChainOf(c)' /\ LoadOf(c)' \subseteq LoadOf(c)
          BY <1>1, <4>1, <4>3, <4>5, <4>7, Stretches, ChainStop, ZenonT(60) DEF ChainOf, LoadOf, Thin, sent
        <5> QED  BY <4>5, <5>1, CarriedEmpty DEF Flows, DownOf
      <4> QED  BY <4>4, <4>6, <4>7
    <3>6. CASE c # sock
      <4>1. OutOf(c)' = OutOf(c) /\ OpsOf(c)' = OpsOf(c) /\ toPeer'[c] = toPeer[c] /\ toApp'[c] = toApp[c]
        BY <1>2, <3>1, <3>2, <3>3, <3>6, ConnFacts DEF CloseSocket, OutOf, OpsOf, Streams
      <4> QED  BY <1>1, <4>1 DEF Flows, DownOf, ChainOf, LoadOf
    <3> QED  BY <3>5, <3>6
  <2> QED  BY <2>1, <2>2
<1>15. CASE LuaRestart
  BY <1>1, <1>15, CloseSocketFlow, FlowStay DEF LuaRestart
<1> QED
  BY <1>3, <1>4, <1>5, <1>6, <1>7, <1>8, <1>9, <1>10, <1>11, <1>12, <1>13, <1>14, <1>15 DEF ScriptNext

LEMMA ForeignFlow ==
  ASSUME TypeOK, NEW c \in Conns, ChainOf(c), UNCHANGED <<appVars, scriptVars>>,
         \/ ForeignConnect
         \/ \E d \in Foreign : ForeignSend(d) \/ ForeignRead(d) \/ ForeignClose(d)
         \/ \E d \in Conns : ResetConnection(d)
  PROVE  Flows(c)
<1>1. /\ UNCHANGED <<sock, outgoing, operations, writer>> /\ toApp \in Streams /\ toPeer \in Streams
  BY DEF appVars, transportVars, scriptVars, TypeOK, WireTypeOK
<1>2. CASE ForeignConnect
  BY <1>1, <1>2, FlowStay DEF ForeignConnect, OpenConnection
<1>3. ASSUME NEW d \in Foreign, ForeignSend(d) PROVE Flows(c)
  <2>1. PICK f \in ForeignFrames : toApp' = [toApp EXCEPT ![d] = Append(toApp[d], f)]
    BY <1>3 DEF ForeignSend
  <2>2. f \in Frames /\ ~Live(f)
    <3>1. CASE f \in {Control(type) : type \in {"ClientHello", "OldHello", "Close", "Malformed"}}
      BY <3>1, ControlFrames DEF ControlTypes, Control, Live
    <3>2. CASE f \in [type : {"Result", "Error"}, id : Ids, op : Ops, tag : {NoTag}]
      BY <3>2 DEF Frames, WorkTypes, Live
    <3> QED  BY <2>1, <3>1, <3>2 DEF ForeignFrames
  <2>3. toApp'[c] \in {toApp[c], Append(toApp[c], f)} /\ toPeer'[c] = toPeer[c]
    BY <1>1, <1>3, <2>1, ConnFacts DEF ForeignSend, Streams
  <2>4. Thin(Append(toApp[c], f), toApp[c])  BY <2>2, Stretches, ThinFacts DEF Own
  <2> QED  BY <1>1, <2>3, <2>4, Stretches, FlowWire
<1>4. ASSUME NEW d \in Foreign, ForeignRead(d) PROVE Flows(c)
  <2>1. toApp'[c] = toApp[c] /\ (toPeer'[c] = toPeer[c] \/ (toPeer[c] # << >> /\ toPeer'[c] = Tail(toPeer[c])))
    BY <1>1, <1>4 DEF ForeignRead, Streams
  <2>2. toPeer[c] # << >> => Thin(Tail(toPeer[c]), toPeer[c])  BY Stretches, ThinFacts
  <2> QED  BY <1>1, <2>1, <2>2, Stretches, FlowWire
<1>5. ASSUME NEW d \in Conns, ForeignClose(d) \/ ResetConnection(d) PROVE Flows(c)
  <2>1. toApp'[c] \in {<< >>, toApp[c]} /\ toPeer'[c] \in {<< >>, toPeer[c]}
    BY <1>1, <1>5 DEF ForeignClose, ResetConnection, Streams
  <2> QED  BY <1>1, <2>1, Stretches, FlowWire
<1> QED  BY <1>2, <1>3, <1>4, <1>5, ConnFacts

LEMMA LoadType ==
  ASSUME TypeOK, NEW c \in Conns
  PROVE  LoadOf(c) \subseteq Requests
<1>1. ASSUME NEW s \in Seq(Frames) PROVE Carried(s) \subseteq Requests
  <2> SUFFICES ASSUME NEW i \in DOMAIN s, Live(s[i]) PROVE Req(s[i]) \in Requests
    BY DEF Carried
  <2>1. s[i] \in Frames  OBVIOUS
  <2> QED  BY <2>1 DEF Live, Frames, ControlTypes, WorkTypes, Req, Requests
<1>2. ASSUME NEW ops \in Seq(Operations) PROVE Queued(ops) \subseteq Requests
  <2>1. \A i \in DOMAIN ops : ops[i] \in Operations  OBVIOUS
  <2> QED  BY <2>1 DEF Queued, Operations
<1>3. toApp[c] \in Seq(Frames) /\ toPeer[c] \in Seq(Frames) /\ writer[c] \in Seq(Frames)
  BY DEF TypeOK, WireTypeOK, TransportTypeOK, Streams
<1>4. OutOf(c) \in Seq(Frames) /\ OpsOf(c) \in Seq(Operations)
  BY EmptySeqType DEF TypeOK, ScriptTypeOK, OutOf, OpsOf
<1> QED  BY <1>1, <1>2, <1>3, <1>4 DEF LoadOf, Load

WorkerQuiet ==
  \/ Tick \/ EndReceive \/ TakeResults \/ DropResults \/ AcceptGame \/ DeliverResult \/ EndDeliver
  \/ (Submit /\ SubmitRefused) \/ Disconnect \/ EndUpdate \/ Reap

\* The steps of the worker, by what they do to the wire.
LEMMA WorkerCases ==
  ASSUME WorkerNext
  PROVE  /\ UNCHANGED scriptVars
         /\ \/ TransportStep /\ UNCHANGED <<sessionVars, batch>>
            \/ StopSockets /\ StopSession /\ UNCHANGED batch
            \/ Submit /\ SubmitAccepted
            \/ WorkerQuiet /\ UNCHANGED <<wireVars, client, closing, writer, tPending>> /\ issued' = issued
<1>1. UNCHANGED scriptVars
  BY DEF WorkerNext, Tick, Accept, EndAccept, Receive, EndReceive, Flush, EndFlush, TakeResults, DropResults, AcceptGame,
         DeliverResult, EndDeliver, Submit, Disconnect, EndUpdate, Reap, ChangeBridgePort, Stop
<1>2. CASE Accept \/ EndAccept \/ Receive \/ Flush \/ EndFlush
  BY <1>1, <1>2 DEF TransportStep, Accept, EndAccept, Receive, Flush, EndFlush, managerVars
<1>3. CASE ChangeBridgePort \/ Stop
  BY <1>1, <1>3 DEF ChangeBridgePort, Stop
<1>4. CASE Tick \/ EndReceive \/ EndUpdate \/ Reap
  BY <1>1, <1>4 DEF WorkerQuiet, Tick, EndReceive, EndUpdate, Reap, sessionVars, transportVars
<1>5. CASE TakeResults \/ DropResults \/ AcceptGame
  BY <1>1, <1>5 DEF WorkerQuiet, TakeResults, DropResults, AcceptGame, NewSession, historyVars, sessionVars
<1>6. CASE DeliverResult \/ EndDeliver \/ Disconnect
  BY <1>1, <1>6 DEF WorkerQuiet, DeliverResult, EndDeliver, Disconnect, StopSession, CompleteOk, CompleteFailed, sessionVars,
                    transportVars
<1>7. CASE Submit
  BY <1>1, <1>7 DEF WorkerQuiet, Submit, SubmitRefused, historyVars, transportVars
<1> QED  BY <1>2, <1>3, <1>4, <1>5, <1>6, <1>7 DEF WorkerNext


\* What a connection carries after any step but a submit.
LEMMA NextFlow ==
  ASSUME TypeInv, ChainInv, [Next]_vars, ~(WorkerNext /\ Submit /\ SubmitAccepted)
  PROVE  (\A c \in Conns : Flows(c)) /\ issued' = issued
<1>1. TypeOK /\ \A c \in Conns : ChainOf(c)  BY DEF TypeInv, ChainInv
<1>2. CASE WorkerNext
  <2>1. UNCHANGED <<sock, outgoing, operations>>  BY <1>2, WorkerCases DEF scriptVars
  <2>2. CASE TransportStep /\ UNCHANGED sessionVars
    BY <1>1, <2>1, <2>2, TransportFlow DEF sessionVars
  <2>3. CASE StopSockets /\ StopSession
    BY <1>1, <2>1, <2>3, StopFlow DEF StopSession
  <2>4. CASE UNCHANGED <<wireVars, client, closing, writer, tPending>> /\ issued' = issued
    BY <1>1, <2>1, <2>4, FlowStay DEF wireVars
  <2> QED  BY <1>2, <2>2, <2>3, <2>4, WorkerCases
<1>3. CASE ScriptNext
  <2>1. issued' = issued  BY <1>3 DEF ScriptNext, appVars, sessionVars
  <2> QED  BY <1>3, <2>1, ScriptFlow
<1>4. CASE ForeignNext \/ \E c \in Conns : ResetConnection(c) /\ UNCHANGED <<appVars, scriptVars>>
  <2>1. /\ UNCHANGED <<appVars, scriptVars>>
        /\ \/ ForeignConnect
           \/ \E d \in Foreign : ForeignSend(d) \/ ForeignRead(d) \/ ForeignClose(d)
           \/ \E d \in Conns : ResetConnection(d)
    BY <1>4 DEF ForeignNext
  <2>2. issued' = issued  BY <2>1 DEF appVars, sessionVars
  <2> QED  BY <1>1, <2>1, <2>2, ForeignFlow
<1>5. CASE UNCHANGED vars
  BY <1>1, <1>5, FlowStay DEF vars, wireVars, transportVars, scriptVars, sessionVars
<1> QED  BY <1>2, <1>3, <1>4, <1>5 DEF Next

\* A submit puts its request, with a new tag, at the far end of the client's
\* connection, or answers it at once.
LEMMA SubmitFlow ==
  ASSUME TypeOK, ChainInv, Submit, SubmitAccepted
  PROVE  /\ issued \in Nat /\ issued' = issued + 1 /\ UNCHANGED <<wireVars, scriptVars, client, closing>>
         /\ \E r \in Requests :
              /\ r.tag = issued + 1
              /\ \/ /\ tPending' = tPending \cup {r} /\ (\A p \in tPending : p.id # r.id)
                    /\ client \in Conns /\ tResults' = tResults
                    /\ writer' = [writer EXCEPT ![client] = Append(writer[client], Work("Request", r))]
                    /\ ChainOf(client)' /\ LoadOf(client)' = LoadOf(client) \cup {r}
                 \/ /\ UNCHANGED <<tPending, writer>>
                    /\ tResults' = Append(tResults, [status |-> "Failed", reqs |-> {r}, by |-> NoTag])
<1>1. PICK k \in 0..(MaxOutstanding - 1), op \in Ops :
        LET r == [id |-> IdAfter(k), op |-> op, tag |-> issued + 1] IN
        /\ SubmitQueued(r) \/ SubmitOversize(r)
        /\ issued' = r.tag
  BY DEF SubmitAccepted
<1> DEFINE r == [id |-> IdAfter(k), op |-> op, tag |-> issued + 1]
           f == Work("Request", r)
<1>2. issued \in Nat /\ issued + 1 \in Tags /\ IdAfter(k) \in Ids
  BY IdAfterType, WireAssumption DEF SubmitAccepted, TypeOK, SessionTypeOK, Tags
<1>3. r \in Requests /\ r.tag = issued + 1
  BY <1>2 DEF Requests
<1>4. f \in Frames /\ Own(f) = {r}
  <2>1. f \in Frames  BY <1>3, WorkFrames DEF WorkTypes
  <2>2. Live(f) /\ Req(f) = r  BY <1>2, ConnFacts DEF Live, Req, Work
  <2> QED  BY <2>1, <2>2 DEF Own
<1>5. SubmitQueued(r) \/ SubmitOversize(r)  BY <1>1
<1>6. issued' = issued + 1 /\ UNCHANGED <<wireVars, scriptVars>>
  BY <1>1 DEF SubmitAccepted, Submit
<1> HIDE DEF r, f
<1>7. CASE SubmitOversize(r)
  BY <1>2, <1>3, <1>6, <1>7 DEF SubmitOversize
<1>8. CASE SubmitQueued(r)
  <2>1. /\ client \in Conns /\ writer' = [writer EXCEPT ![client] = Append(writer[client], f)] /\ tPending' = tPending \cup {r}
        /\ (\A p \in tPending : p.id # r.id) /\ UNCHANGED <<client, closing, tResults>>
    BY <1>8 DEF SubmitQueued, CanSend, TypeOK, TransportTypeOK, f
  <2>2. writer'[client] = Append(writer[client], f) /\ writer[client] \in Seq(Frames)
    BY <2>1 DEF TypeOK, TransportTypeOK, Streams
  <2>3. Before(LoadOf(client), Own(f))
    <3>1. \A q \in LoadOf(client) : q.tag <= issued  BY <2>1 DEF ChainInv
    <3>2. LoadOf(client) \subseteq Requests  BY <2>1, LoadType
    <3> QED  BY <1>2, <1>3, <1>4, <3>1, <3>2 DEF Before, Requests, Tags
  <2>4. /\ toApp'[client] = toApp[client] /\ toPeer'[client] = toPeer[client]
        /\ OutOf(client)' = OutOf(client) /\ OpsOf(client)' = OpsOf(client)
    BY <1>6, <2>1 DEF wireVars, scriptVars, OutOf, OpsOf
  <2>5. /\ Chain(toApp[client], OutOf(client), OpsOf(client), toPeer[client], Append(writer[client], f))
        /\ Load(toApp[client], OutOf(client), OpsOf(client), toPeer[client], Append(writer[client], f))
             = LoadOf(client) \cup {r}
    <3>1. Chain(toApp[client], OutOf(client), OpsOf(client), toPeer[client], writer[client])
      BY <2>1 DEF ChainInv, ChainOf
    <3>2. Before(Load(toApp[client], OutOf(client), OpsOf(client), toPeer[client], writer[client]), Own(f))
      BY <2>3 DEF LoadOf
    <3>3. /\ Chain(toApp[client], OutOf(client), OpsOf(client), toPeer[client], Append(writer[client], f))
          /\ Load(toApp[client], OutOf(client), OpsOf(client), toPeer[client], Append(writer[client], f))
               = Load(toApp[client], OutOf(client), OpsOf(client), toPeer[client], writer[client]) \cup Own(f)
      <4>1. f \in Frames /\ writer[client] \in Seq(Frames)  BY <1>4, <2>2
      <4> QED  BY <4>1, <3>1, <3>2, ChainSubmit
    <3> QED  BY <1>4, <3>3 DEF LoadOf
  <2>6. ChainOf(client)' /\ LoadOf(client)' = LoadOf(client) \cup {r}
    BY <2>1, <2>2, <2>4, <2>5 DEF ChainOf, LoadOf
  <2> QED  BY <1>2, <1>3, <1>6, <2>1, <2>6 DEF f
<1> QED  BY <1>5, <1>7, <1>8

-----------------------------------------------------------------------------
(* The invariant, part by part. *)

\* The steps that are not a submit, and those that are.
SubmitStep == WorkerNext /\ Submit /\ SubmitAccepted

LEMMA ChainInvStep ==
  ASSUME TypeInv, ChainInv, [Next]_vars
  PROVE  ChainInv'
<1>1. TypeOK /\ issued \in Nat  BY DEF TypeInv, TypeOK, SessionTypeOK
<1>2. sock' \notin Foreign /\ (sock' = NoConn => operations' = << >> /\ outgoing' = << >>)
  <2>1. CASE UNCHANGED scriptVars  BY <2>1 DEF ChainInv, scriptVars
  <2>2. CASE ScriptNext
    <3>1. CASE CloseSocket  BY <3>1, ConnFacts DEF CloseSocket
    <3>2. CASE LuaConnect  BY <3>2, ConnFacts DEF LuaConnect
    <3>3. CASE ~CloseSocket /\ ~LuaConnect
      <4>1. UNCHANGED sock /\ (sock = NoConn => UNCHANGED <<operations, outgoing>>)
        BY <2>2, <3>3 DEF TypeInv, InFrame, ScriptNext, LuaHello, LuaRequest, LuaError, LuaClose, LuaUnexpected, LuaProtocolClose,
           LuaDisconnected, OnFrame, RunOperation, QueueResponse, EndWork, LuaFlush, EndFrame, LuaStop, LuaRestart,
           LuaArriving, LuaTake, QueueOrFail, AtHead
      <4> QED  BY <4>1 DEF ChainInv
    <3> QED  BY <3>1, <3>2, <3>3
  <2>3. UNCHANGED scriptVars \/ ScriptNext
    BY WorkerCases DEF Next, ForeignNext, vars
  <2> QED  BY <2>1, <2>2, <2>3
<1>3. CASE ~SubmitStep
  <2>1. (\A c \in Conns : Flows(c)) /\ issued' = issued  BY <1>3, NextFlow DEF SubmitStep
  <2> QED  BY <1>2, <2>1 DEF ChainInv, Flows
<1>4. CASE SubmitStep
  <2>1. issued' = issued + 1 /\ UNCHANGED <<wireVars, scriptVars, client, closing>>
    BY <1>1, <1>4, SubmitFlow DEF SubmitStep
  <2>2. ASSUME NEW c \in Conns, writer'[c] = writer[c]
        PROVE  ChainOf(c)' /\ LoadOf(c)' = LoadOf(c)
    <3>1. ChainOf(c)' = ChainOf(c) /\ LoadOf(c)' = LoadOf(c)
      BY <2>1, <2>2 DEF ChainOf, LoadOf, OutOf, OpsOf, wireVars, scriptVars
    <3> QED  BY <3>1 DEF ChainInv
  <2>3. \A c \in Conns : \A q \in LoadOf(c) : q.tag \in Nat /\ q.tag <= issued
    BY <1>1, LoadType DEF ChainInv, Requests, Tags
  <2>4. PICK r \in Requests :
          /\ r.tag = issued + 1
          /\ \/ /\ client \in Conns
                /\ writer' = [writer EXCEPT ![client] = Append(writer[client], Work("Request", r))]
                /\ ChainOf(client)' /\ LoadOf(client)' = LoadOf(client) \cup {r}
             \/ UNCHANGED writer
    BY <1>1, <1>4, SubmitFlow DEF SubmitStep
  <2>5. ASSUME NEW c \in Conns PROVE ChainOf(c)' /\ \A q \in LoadOf(c)' : q.tag <= issued'
    <3>1. CASE writer'[c] = writer[c]
      <4>1. ChainOf(c)' /\ LoadOf(c)' = LoadOf(c)  BY <2>2, <3>1
      <4> QED  BY <1>1, <2>1, <2>3, <4>1
    <3>2. CASE writer'[c] # writer[c]
      <4>1. c = client /\ client' = client
        BY <1>1, <2>1, <2>4, <3>2 DEF TypeOK, TransportTypeOK, Streams
      <4>2. ChainOf(c)' /\ LoadOf(c)' = LoadOf(c) \cup {r}
        BY <2>4, <3>2, <4>1
      <4> QED  BY <1>1, <2>1, <2>3, <2>4, <4>2
    <3> QED  BY <3>1, <3>2
  <2> QED  BY <1>2, <2>5 DEF ChainInv
<1> QED  BY <1>3, <1>4

\* What a step does to the listener's queue and to the client.
LEMMA BacklogCases ==
  ASSUME TypeOK, [Next]_vars
  PROVE  \/ UNCHANGED <<opened, backlog>> /\ client' \in {client, NoConn}
         \/ opened' = opened /\ backlog # << >> /\ backlog' = Tail(backlog) /\ client' \in {client, Head(backlog)}
         \/ opened' = opened + 1 /\ opened + 1 \in Conns /\ backlog' = Append(backlog, opened + 1) /\ client' = client
         \/ opened' = opened /\ backlog' = << >> /\ client' = NoConn
<1>1. CASE WorkerNext
  <2>1. CASE TransportStep
    BY <2>1 DEF TransportStep, AcceptClient, RejectBusyClient, FlushClosingPeers, AcceptHello, RejectHello, ReceiveResult,
                ReceiveError, ReceiveClose, ReceiveUnexpected, ReceiveClosed, FlushFrame, FlushError, FlushEnd, CloseClient,
                BeginProtocolClose, BeginOrderlyClose, BeginClose, Take, transportVars, wireVars
  <2>2. CASE StopSockets  BY <2>2 DEF StopSockets
  <2>3. CASE Submit /\ SubmitAccepted  BY <2>3 DEF SubmitAccepted, SubmitQueued, SubmitOversize, wireVars
  <2>4. CASE UNCHANGED <<wireVars, client>>  BY <2>4 DEF wireVars
  <2> QED  BY <1>1, <2>1, <2>2, <2>3, <2>4, WorkerCases
<1>2. CASE ScriptNext
  <2>1. client' = client  BY <1>2 DEF ScriptNext, appVars, transportVars
  <2>2. CASE LuaConnect  BY <2>1, <2>2 DEF LuaConnect, OpenConnection
  <2>3. CASE ~LuaConnect
    BY <1>2, <2>1, <2>3 DEF ScriptNext, LuaHello, LuaRequest, LuaError, LuaClose, LuaUnexpected,
       LuaDisconnected, OnFrame, RunOperation, QueueResponse, EndWork, LuaFlush, EndFrame, LuaStop, LuaRestart, LuaArriving,
       wireVars
  <2> QED  BY <2>2, <2>3
<1>3. CASE ForeignNext
  BY <1>3, ConnFacts DEF ForeignNext, ForeignConnect, OpenConnection, ForeignSend, ForeignRead, ForeignClose, appVars, transportVars
<1>4. CASE \E c \in Conns : ResetConnection(c) /\ UNCHANGED <<appVars, scriptVars>>
  BY <1>4 DEF ResetConnection, appVars, transportVars
<1>5. CASE UNCHANGED vars
  BY <1>5 DEF vars, wireVars, transportVars
<1> QED  BY <1>1, <1>2, <1>3, <1>4, <1>5 DEF Next

LEMMA FreshInvStep ==
  ASSUME TypeInv, ChainInv, FreshInv, [Next]_vars
  PROVE  FreshInv'
<1>1. TypeOK /\ opened \in Nat /\ backlog \in Seq(Conns) /\ client \in Conns \cup {NoConn} /\ Conns \subseteq Nat /\ NoConn = 0
  BY DEF TypeInv, TypeOK, WireTypeOK, TransportTypeOK, Conns, NoConn
<1>2. /\ client' <= opened'
      /\ \A i \in DOMAIN backlog' : backlog'[i] <= opened' /\ backlog'[i] # client'
      /\ \A i, j \in DOMAIN backlog' : i # j => backlog'[i] # backlog'[j]
      /\ \A i \in DOMAIN backlog' : \/ \E j \in DOMAIN backlog : backlog'[i] = backlog[j]
                                    \/ backlog'[i] > opened
      /\ opened' >= opened
  <2>1. \A i \in DOMAIN backlog : backlog[i] \in Conns /\ backlog[i] # NoConn  BY <1>1, ConnFacts
  <2>2. CASE UNCHANGED <<opened, backlog>> /\ client' \in {client, NoConn}
    BY <1>1, <2>1, <2>2 DEF FreshInv
  <2>3. CASE opened' = opened /\ backlog # << >> /\ backlog' = Tail(backlog) /\ client' \in {client, Head(backlog)}
    <3>1. /\ 1 \in DOMAIN backlog /\ Head(backlog) = backlog[1]
          /\ \A i \in DOMAIN backlog' : i + 1 \in DOMAIN backlog /\ i + 1 # 1 /\ backlog'[i] = backlog[i + 1]
          /\ \A i, j \in DOMAIN backlog' : i # j => i + 1 # j + 1
      BY <1>1, <2>3
    <3> QED  BY <1>1, <2>3, <3>1 DEF FreshInv
  <2>4. CASE opened' = opened + 1 /\ opened + 1 \in Conns /\ backlog' = Append(backlog, opened + 1) /\ client' = client
    <3>1. /\ Len(backlog) \in Nat /\ DOMAIN backlog = 1..Len(backlog) /\ DOMAIN backlog' = 1..(Len(backlog) + 1)
          /\ \A i \in 1..Len(backlog) : backlog'[i] = backlog[i]
          /\ backlog'[Len(backlog) + 1] = opened + 1
      BY <1>1, <2>4
    <3>2. \A i \in DOMAIN backlog' : (i \in DOMAIN backlog /\ backlog'[i] = backlog[i])
                                     \/ (i = Len(backlog) + 1 /\ backlog'[i] = opened + 1)
      <4>1. \A i \in 1..(Len(backlog) + 1) : i \in 1..Len(backlog) \/ i = Len(backlog) + 1  BY <3>1
      <4> QED  BY <3>1, <4>1
    <3>3. \A i \in DOMAIN backlog : backlog[i] \in Nat /\ backlog[i] <= opened /\ backlog[i] # client
      BY <1>1, <2>1 DEF FreshInv
    <3>4. client \in Nat /\ client <= opened  BY <1>1 DEF FreshInv
    <3>5. \A i, j \in DOMAIN backlog : i # j => backlog[i] # backlog[j]  BY DEF FreshInv
    <3>6. \A i \in DOMAIN backlog' : backlog'[i] <= opened + 1 /\ backlog'[i] # client
      BY <1>1, <3>2, <3>3, <3>4
    <3>7. \A i, j \in DOMAIN backlog' : i # j => backlog'[i] # backlog'[j]
      BY <1>1, <3>2, <3>3, <3>5
    <3>8. \A i \in DOMAIN backlog' : (\E j \in DOMAIN backlog : backlog'[i] = backlog[j]) \/ backlog'[i] > opened
      BY <1>1, <3>2
    <3> QED  BY <1>1, <2>4, <3>4, <3>6, <3>7, <3>8
  <2>5. CASE opened' = opened /\ backlog' = << >> /\ client' = NoConn
    BY <1>1, <2>5
  <2> QED  BY <1>1, <2>2, <2>3, <2>4, <2>5, BacklogCases
<1>3. backlog' \in Seq(Conns) /\ opened' \in Nat
  <2>1. TypeInv'  BY TypeStep
  <2> QED  BY <2>1 DEF TypeInv, TypeOK, WireTypeOK
<1>4. \A i \in DOMAIN backlog' : backlog'[i] \in Conns /\ LoadOf(backlog'[i]) = {}
  <2>1. \A i \in DOMAIN backlog' : backlog'[i] \in Conns  BY <1>3
  <2> QED  BY <1>2, <2>1 DEF FreshInv
<1>5. \A c \in Conns : c > opened' => LoadOf(c) = {}
  <2>1. \A c \in Conns : c > opened' => c > opened  BY <1>1, <1>2, <1>3
  <2> QED  BY <2>1 DEF FreshInv
<1>6. ASSUME NEW c \in Conns, LoadOf(c) = {}, c # client \/ ~SubmitStep PROVE LoadOf(c)' = {}
  <2>1. CASE ~SubmitStep
    <3>1. Flows(c)  BY <2>1, NextFlow DEF SubmitStep
    <3> QED  BY <1>6, <3>1 DEF Flows
  <2>2. CASE SubmitStep
    <3>1. UNCHANGED <<wireVars, scriptVars>>  BY <1>1, <2>2, SubmitFlow DEF SubmitStep
    <3>2. writer'[c] = writer[c]
      BY <1>1, <1>6, <2>2, SubmitFlow DEF SubmitStep, TypeOK, TransportTypeOK, Streams
    <3>3. LoadOf(c)' = LoadOf(c)
      BY <3>1, <3>2 DEF LoadOf, OutOf, OpsOf, wireVars, scriptVars
    <3> QED  BY <1>6, <3>3
  <2> QED  BY <2>1, <2>2
<1>7. SubmitStep => UNCHANGED <<client, opened>>
  BY <1>1, SubmitFlow DEF SubmitStep, wireVars
<1>8. \A c \in Conns : c > opened' => LoadOf(c)' = {}
  <2> SUFFICES ASSUME NEW c \in Conns, c > opened' PROVE LoadOf(c)' = {}
    OBVIOUS
  <2>1. c # client \/ ~SubmitStep
    BY <1>1, <1>7 DEF FreshInv
  <2> QED  BY <1>5, <1>6, <2>1
<1>9. ASSUME NEW c \in Conns, \E i \in DOMAIN backlog' : c = backlog'[i] PROVE LoadOf(c)' = {}
  <2>1. LoadOf(c) = {}  BY <1>4, <1>9
  <2>2. c # client \/ ~SubmitStep  BY <1>2, <1>7, <1>9
  <2> QED  BY <1>6, <2>1, <2>2
<1>10. \A c \in Conns : (\E i \in DOMAIN backlog' : c = backlog'[i]) => LoadOf(c)' = {}
  BY <1>9
<1>11. (\A i \in DOMAIN backlog : LoadOf(backlog[i]) = {})'
  BY <1>3, <1>10, SMTT(30) DEF LoadOf, OutOf, OpsOf
<1> QED  BY <1>2, <1>8, <1>11 DEF FreshInv

\* A result of the shipped script answers the pending request with its ID, and
\* nothing else on the connection is about that request.
LEMMA ResultFrame ==
  ASSUME TypeOK, ChainInv, ClientInv, EvidenceInv, ReceiveResult, client \notin Foreign,
         NEW p \in tPending, p.id = Frame.id,
         UNCHANGED <<sock, outgoing, operations>>
  PROVE  /\ Frame.tag \in Ran /\ p = Req(Frame)
         /\ \A c \in Conns : c = client => p \notin LoadOf(c)'
<1>1. /\ client \in Conns /\ toApp[client] # << >> /\ ~closing /\ Frame.type = "Result" /\ toApp \in Streams
      /\ toApp' = [toApp EXCEPT ![client] = Tail(toApp[client])] /\ UNCHANGED <<toPeer, writer>>
  BY DEF ReceiveResult, Arriving, CanReceive, Take, TypeOK, TransportTypeOK, WireTypeOK
<1>2. Frame \in UpFrames(client)
  <2>1. toApp[client] \in Seq(UpFrames(client))  BY <1>1 DEF EvidenceInv
  <2> HIDE DEF UpFrames
  <2> QED  BY <1>1, <2>1, TailType DEF Frame
<1>3. Frame \in Frames /\ Frame.tag \in Ran  BY <1>1, <1>2 DEF UpFrames
<1>4. Ran \subseteq Tags  BY DEF Ran, TypeOK, ScriptTypeOK
<1>5. Live(Frame)  BY <1>1, <1>3, <1>4, ConnFacts DEF Live
<1>6. toApp[client] \in Seq(Frames) /\ Rising(toApp[client])
  BY <1>1, Stretches DEF ChainInv
<1>7. /\ Carried(toApp[client]) = {Req(Frame)} \cup Carried(Tail(toApp[client]))
      /\ Before({Req(Frame)}, Carried(Tail(toApp[client])))
  <2>1. Own(Frame) = {Req(Frame)}  BY <1>5 DEF Own
  <2> QED  BY <1>1, <1>6, <2>1, CarriedTail DEF Frame
<1>8. Req(Frame) \in LoadOf(client)  BY <1>7 DEF LoadOf, Load
<1>9. p = Req(Frame)
  <2>1. Req(Frame) \in tPending  BY <1>1, <1>8 DEF ClientInv
  <2>2. Req(Frame).id = Frame.id  BY DEF Req
  <2> QED  BY <2>1, <2>2 DEF ClientInv
<1>10. ASSUME NEW c \in Conns, c = client PROVE p \notin LoadOf(c)'
  <2>1. toApp'[c] = Tail(toApp[c])  BY <1>1, <1>10 DEF Streams
  <2>2. LoadOf(c)' = Load(Tail(toApp[c]), OutOf(c), OpsOf(c), toPeer[c], writer[c])
    BY <1>1, <1>10, <2>1 DEF LoadOf, OutOf, OpsOf
  <2>3. Before({p}, LoadOf(c)')
    <3>1. ChainOf(c)  BY DEF ChainInv
    <3> QED  BY <1>7, <1>9, <1>10, <2>2, <3>1 DEF ChainOf, Chain, Load, Before
  <2>4. p.tag \in Nat  BY DEF TypeOK, TransportTypeOK, Requests, Tags
  <2> QED  BY <2>3, <2>4 DEF Before
<1> QED  BY <1>3, <1>9, <1>10

\* What a step other than a submit does to the client and the transport's table.
LEMMA ClientCases ==
  ASSUME [Next]_vars, ~SubmitStep
  PROVE  \/ UNCHANGED <<client, closing, tPending>>
         \/ tPending' = {} /\ (client' = NoConn \/ closing')
         \/ AcceptClient
         \/ ReceiveResult /\ UNCHANGED scriptVars
<1>1. CASE WorkerNext
  <2>1. CASE TransportStep
    <3>1. CASE RejectBusyClient \/ FlushClosingPeers \/ FlushFrame
      BY <3>1 DEF RejectBusyClient, FlushClosingPeers, FlushFrame
    <3>2. CASE AcceptHello  BY <3>2 DEF AcceptHello, CloseClient
    <3>3. CASE RejectHello \/ ReceiveClose \/ ReceiveUnexpected
      BY <3>3 DEF RejectHello, ReceiveClose, ReceiveUnexpected, BeginOrderlyClose, BeginProtocolClose, BeginClose
    <3>4. CASE ReceiveError  BY <3>4 DEF ReceiveError
    <3>5. CASE ReceiveClosed \/ FlushError \/ FlushEnd
      BY <3>5 DEF ReceiveClosed, FlushError, FlushEnd, CloseClient, transportVars
    <3> QED  BY <1>1, <2>1, <3>1, <3>2, <3>3, <3>4, <3>5, WorkerCases DEF TransportStep
  <2>2. CASE StopSockets  BY <2>2 DEF StopSockets
  <2> QED  BY <1>1, <2>1, <2>2, WorkerCases DEF SubmitStep
<1>2. CASE ~WorkerNext
  BY <1>2 DEF Next, ScriptNext, ForeignNext, appVars, vars, transportVars
<1> QED  BY <1>1, <1>2

LEMMA ClientInvStep ==
  ASSUME TypeInv, ChainInv, ClientInv, FreshInv, EvidenceInv, [Next]_vars
  PROVE  ClientInv'
<1>1. TypeOK /\ client \in Conns \cup {NoConn} /\ NoConn \notin Conns
  BY ConnFacts DEF TypeInv, TypeOK, TransportTypeOK
<1>2. ASSUME \A c \in Conns \ Foreign : c = client' /\ ~closing' => LoadOf(c)' \subseteq tPending',
             \A p, q \in tPending' : p.id = q.id => p = q
      PROVE  ClientInv'
  <2>1. ASSUME client' \in Conns \ Foreign, ~closing' PROVE (LoadOf(client) \subseteq tPending)'
    BY <1>2, <2>1 DEF LoadOf, OutOf, OpsOf
  <2> QED  BY <1>2, <2>1 DEF ClientInv
<1>3. CASE SubmitStep
  <2>1. PICK r \in Requests :
          \/ /\ tPending' = tPending \cup {r} /\ (\A p \in tPending : p.id # r.id)
             /\ client \in Conns /\ LoadOf(client)' = LoadOf(client) \cup {r}
          \/ UNCHANGED <<tPending, writer>>
    BY <1>1, <1>3, SubmitFlow DEF SubmitStep
  <2>2. UNCHANGED <<wireVars, scriptVars, client, closing>>
    BY <1>1, <1>3, SubmitFlow DEF SubmitStep
  <2>3. \A p, q \in tPending' : p.id = q.id => p = q
    BY <2>1 DEF ClientInv
  <2>4. ASSUME NEW c \in Conns \ Foreign, c = client', ~closing' PROVE LoadOf(c)' \subseteq tPending'
    <3>1. c = client /\ LoadOf(c) \subseteq tPending  BY <2>2, <2>4 DEF ClientInv
    <3>2. CASE tPending' = tPending \cup {r} /\ LoadOf(client)' = LoadOf(client) \cup {r}
      <4>1. LoadOf(c)' = LoadOf(c) \cup {r}  BY <2>2, <3>1, <3>2 DEF LoadOf, OutOf, OpsOf
      <4> QED  BY <3>1, <3>2, <4>1
    <3>3. CASE UNCHANGED <<tPending, writer>>
      <4>1. LoadOf(c)' = LoadOf(c)  BY <2>2, <3>3 DEF LoadOf, OutOf, OpsOf, wireVars, scriptVars
      <4> QED  BY <3>1, <3>3, <4>1
    <3> QED  BY <2>1, <3>2, <3>3
  <2> QED  BY <1>2, <2>3, <2>4
<1>4. CASE ~SubmitStep
  <2>1. \A c \in Conns : LoadOf(c)' \subseteq LoadOf(c)
    BY <1>4, NextFlow DEF SubmitStep, Flows
  <2>2. CASE UNCHANGED <<client, closing, tPending>>
    BY <1>2, <2>1, <2>2 DEF ClientInv
  <2>3. CASE tPending' = {} /\ (client' = NoConn \/ closing')
    BY <1>1, <1>2, <2>3
  <2>4. CASE AcceptClient
    <3>1. /\ backlog # << >> /\ client' = Head(backlog) /\ tPending' = tPending /\ backlog \in Seq(Conns)
      BY <1>1, <2>4 DEF AcceptClient, TypeOK, WireTypeOK
    <3>2. LoadOf(Head(backlog)) = {}  BY <3>1 DEF FreshInv
    <3> QED  BY <1>2, <2>1, <3>1, <3>2 DEF ClientInv
  <2>5. CASE ReceiveResult /\ UNCHANGED scriptVars
    <3>1. PICK p \in tPending : p.id = Frame.id /\ tPending' = tPending \ {p}
      BY <2>5 DEF ReceiveResult
    <3>2. UNCHANGED <<client, closing>> /\ UNCHANGED <<sock, outgoing, operations>>
      BY <2>5 DEF ReceiveResult, scriptVars
    <3>3. ASSUME NEW c \in Conns \ Foreign, c = client', ~closing' PROVE LoadOf(c)' \subseteq tPending'
      <4>1. c = client /\ LoadOf(c) \subseteq tPending  BY <3>2, <3>3 DEF ClientInv
      <4>2. p \notin LoadOf(c)'  BY <1>1, <2>5, <3>1, <3>2, <3>3, <4>1, ResultFrame
      <4> QED  BY <2>1, <3>1, <4>1, <4>2
    <3> QED  BY <1>2, <3>1, <3>3 DEF ClientInv
  <2> QED  BY <1>4, <2>2, <2>3, <2>4, <2>5, ClientCases
<1> QED  BY <1>3, <1>4

\* The steps of the script, by what they do to its operations.
LEMMA ScriptCases ==
  ASSUME TypeInv, ChainInv, ScriptNext
  PROVE  \/ sock' = NoConn /\ ran' = ran
         \/ LuaConnect /\ ran' = ran
         \/ UNCHANGED <<sock, operations, ran>>
         \/ /\ sock \in Conns /\ UNCHANGED <<sock, ran>>
            /\ \E r \in DownOf(sock) : operations' = Append(operations, [req |-> r, at |-> "new"])
         \/ RunOperation
         \/ operations # << >> /\ operations' = Tail(operations) /\ UNCHANGED <<sock, ran>>
<1>1. CASE LuaRequest
  <2> DEFINE r == [id |-> LuaFrame.id, op |-> LuaFrame.op, tag |-> LuaFrame.tag]
  <2>1. TypeOK /\ sock \in Conns /\ LuaFrame \in Frames /\ toPeer[sock] # << >> /\ LuaFrame.type = "Request" /\ ran' = ran
    BY <1>1, LuaFrameType DEF LuaRequest, LuaArriving, TypeInv
  <2>2. Live(LuaFrame) /\ r = Req(LuaFrame)
    BY <2>1, ConnFacts DEF Frames, ControlTypes, WorkTypes, Live, Req
  <2>3. toPeer[sock] \in Seq(Frames)  BY <2>1 DEF TypeOK, WireTypeOK, Streams
  <2>4. r \in Carried(toPeer[sock])
    <3>1. Own(LuaFrame) = {r}  BY <2>2 DEF Own
    <3> QED  BY <2>1, <2>3, <3>1, CarriedTail DEF LuaFrame
  <2>5. CASE LuaTake /\ operations' = Append(operations, [req |-> r, at |-> "new"])
    BY <2>1, <2>4, <2>5 DEF LuaTake, DownOf
  <2>6. CASE QueueOrFail(<<Work("Error", r)>>, phase)
    BY <2>1, <2>6 DEF QueueOrFail, CloseSocket, LuaTake
  <2> QED  BY <1>1, <2>5, <2>6 DEF LuaRequest
<1>2. CASE QueueResponse
  BY <1>2 DEF QueueResponse, AtHead
<1>3. CASE ~LuaRequest /\ ~QueueResponse /\ ~RunOperation /\ ~LuaConnect
  BY <1>3 DEF ScriptNext, LuaHello, LuaError, LuaClose, LuaUnexpected, LuaProtocolClose, LuaDisconnected, OnFrame, EndWork,
     LuaFlush, EndFrame, LuaStop, LuaRestart, LuaArriving, LuaTake, QueueOrFail, CloseSocket
<1> QED  BY <1>1, <1>2, <1>3 DEF LuaConnect

LEMMA RanStay ==
  ASSUME RanInv, ran' = ran, ran \in Seq(Tags), issued \in Nat, issued' \in Nat, issued <= issued',
         \A i \in DOMAIN operations' : i > 1 => operations'[i].at = "new",
         sock' # NoConn => \A t \in Ran, r \in Todo' : t < r.tag
  PROVE  RanInv'
<1>1. Ran' = Ran /\ Ran \subseteq Nat
  <2>1. Ran' = Ran  BY DEF Ran
  <2>2. Ran \subseteq Tags  BY DEF Ran
  <2> QED  BY <2>1, <2>2 DEF Tags
<1>2. RanInOrder'  BY DEF RanInv, RanInOrder
<1>3. \A t \in Ran : t <= issued'  BY <1>1 DEF RanInv
<1> QED  BY <1>1, <1>2, <1>3 DEF RanInv

LEMMA RunStep ==
  ASSUME TypeInv, ChainInv, RanInv, RunOperation, UNCHANGED <<issued, writer>>
  PROVE  RanInv'
<1> DEFINE o == operations[1]
<1>1. /\ operations \in Seq(Operations) /\ operations # << >> /\ sock \in Conns /\ UNCHANGED <<sock, toPeer>>
      /\ ran \in Seq(Tags) /\ issued \in Nat /\ NoConn \notin Conns
  BY ConnFacts DEF TypeInv, InFrame, TypeOK, ScriptTypeOK, SessionTypeOK, RunOperation, AtHead, wireVars
<1>2. PICK at \in {"partial", "done", "failed"} : operations' = [operations EXCEPT ![1].at = at]
  BY DEF RunOperation
<1>3. /\ DOMAIN operations' = DOMAIN operations /\ 1 \in DOMAIN operations /\ Head(operations) = o
      /\ \A i \in DOMAIN operations : i # 1 => operations'[i] = operations[i]
      /\ operations'[1].at # "new" /\ operations'[1].req = o.req
  BY <1>1, <1>2 DEF Operations
<1>4. \A i \in DOMAIN operations' : i > 1 => operations'[i].at = "new"
  BY <1>3 DEF RanInv
<1>5. DownOf(sock)' = DownOf(sock)  BY <1>1 DEF DownOf
<1>6. NewOps' \subseteq NewOps  BY <1>3 DEF NewOps
<1>7. Todo' \subseteq Todo  BY <1>5, <1>6 DEF Todo
<1>8. CASE o.at # "new"
  <2>1. ran' = ran  BY <1>3, <1>8 DEF RunOperation
  <2>2. \A t \in Ran, r \in Todo' : t < r.tag  BY <1>1, <1>7 DEF RanInv
  <2> QED  BY <1>1, <1>4, <2>1, <2>2, RanStay
<1>9. CASE o.at = "new"
  <2>1. ran' = Append(ran, o.req.tag)  BY <1>3, <1>9 DEF RunOperation
  <2>2. o.req \in NewOps  BY <1>3, <1>9 DEF NewOps
  <2>3. \A t \in Ran : t < o.req.tag  BY <1>1, <2>2 DEF RanInv, Todo
  <2>4. ChainOf(sock) /\ OpsOf(sock) = operations  BY <1>1 DEF ChainInv, OpsOf
  <2>5. o.req \in LoadOf(sock)  BY <1>3, <2>4 DEF LoadOf, Load, Queued
  <2>6. o.req.tag <= issued /\ o.req.tag \in Tags
    BY <1>1, <2>5, LoadType DEF ChainInv, TypeInv, Requests
  <2>7. \A r \in Todo' : o.req.tag < r.tag
    <3>1. ASSUME NEW r \in NewOps' PROVE o.req.tag < r.tag
      <4>1. PICK i \in DOMAIN operations' : operations'[i].at = "new" /\ r = operations'[i].req
        BY DEF NewOps
      <4>2. i # 1 /\ i \in DOMAIN operations /\ r = operations[i].req  BY <1>3, <4>1
      <4>3. 1 < i  BY <1>1, <4>2
      <4> QED  BY <1>3, <2>4, <4>2, <4>3 DEF ChainOf, Chain, RisingOps
    <3>2. ASSUME NEW r \in DownOf(sock) PROVE o.req.tag < r.tag
      <4>1. o.req \in Queued(operations)  BY <1>3 DEF Queued
      <4> QED  BY <2>4, <3>2, <4>1 DEF ChainOf, Chain, Before, DownOf
    <3> QED  BY <1>5, <3>1, <3>2 DEF Todo
  <2> DEFINE n == Len(ran)
             tag == o.req.tag
  <2>8. /\ n \in Nat /\ DOMAIN ran = 1..n /\ DOMAIN ran' = 1..(n + 1) /\ ran'[n + 1] = tag
        /\ \A i \in 1..n : ran'[i] = ran[i] /\ ran[i] \in Ran
    BY <1>1, <2>1 DEF Ran
  <2>9. \A i \in DOMAIN ran' : (i \in DOMAIN ran /\ ran'[i] = ran[i] /\ ran[i] \in Ran) \/ (i = n + 1 /\ ran'[i] = tag)
    <3>1. \A i \in 1..(n + 1) : i \in 1..n \/ i = n + 1  BY <2>8
    <3> QED  BY <2>8, <3>1
  <2>10. Ran' \subseteq Ran \cup {tag}  BY <2>9 DEF Ran
  <2>11. RanInOrder'
    <3> SUFFICES ASSUME NEW i \in DOMAIN ran', NEW j \in DOMAIN ran', i < j PROVE ran'[i] < ran'[j]
      BY DEF RanInOrder
    <3>1. i \in DOMAIN ran  BY <2>8, <2>9
    <3> QED  BY <2>3, <2>8, <2>9, <3>1 DEF RanInv, RanInOrder
  <2>12. \A t \in Ran' : t <= issued'  BY <2>6, <2>10 DEF RanInv
  <2>13. \A t \in Ran', r \in Todo' : t < r.tag
    <3>1. \A t \in Ran, r \in Todo' : t < r.tag  BY <1>1, <1>7 DEF RanInv
    <3> QED  BY <2>7, <2>10, <3>1
  <2> QED  BY <1>4, <2>11, <2>12, <2>13 DEF RanInv
<1> QED  BY <1>8, <1>9

LEMMA RanInvStep ==
  ASSUME TypeInv, ChainInv, FreshInv, RanInv, [Next]_vars
  PROVE  RanInv'
<1>1. /\ TypeOK /\ issued \in Nat /\ ran \in Seq(Tags) /\ sock \in Conns \cup {NoConn} /\ NoConn \notin Conns
      /\ operations \in Seq(Operations)
  BY ConnFacts DEF TypeInv, TypeOK, SessionTypeOK, ScriptTypeOK
<1>2. \A t \in Ran : t \in Nat /\ t <= issued
  <2>1. Ran \subseteq Tags  BY <1>1 DEF Ran
  <2> QED  BY <2>1 DEF RanInv, Tags
<1>3. CASE SubmitStep
  <2>1. issued' = issued + 1 /\ UNCHANGED <<wireVars, scriptVars>>
    BY <1>1, <1>3, SubmitFlow DEF SubmitStep
  <2>2. PICK r \in Requests :
          /\ r.tag = issued + 1
          /\ \/ client \in Conns /\ writer' = [writer EXCEPT ![client] = Append(writer[client], Work("Request", r))]
             \/ UNCHANGED writer
    BY <1>1, <1>3, SubmitFlow DEF SubmitStep
  <2> DEFINE f == Work("Request", r)
  <2>3. f \in Frames /\ \A q \in Own(f) : q.tag = issued + 1
    <3>1. f \in Frames  BY WorkFrames DEF WorkTypes
    <3>2. Req(f).tag = issued + 1  BY <2>2 DEF Req, Work
    <3> QED  BY <3>1, <3>2 DEF Own
  <2>4. ASSUME NEW c \in Conns, c = sock PROVE \A q \in DownOf(c)' : q \in DownOf(c) \/ q.tag = issued + 1
    <3>1. writer'[c] \in {writer[c], Append(writer[c], f)} /\ toPeer'[c] = toPeer[c] /\ writer[c] \in Seq(Frames)
      BY <1>1, <2>1, <2>2 DEF TypeOK, TransportTypeOK, Streams, wireVars
    <3> HIDE DEF f
    <3>2. Carried(Append(writer[c], f)) = Carried(writer[c]) \cup Own(f)  BY <2>3, <3>1, CarriedAppend
    <3> QED  BY <2>3, <3>1, <3>2 DEF DownOf
  <2>5. sock' = sock /\ ran' = ran /\ operations' = operations  BY <2>1 DEF scriptVars
  <2>6. ASSUME sock' # NoConn PROVE \A t \in Ran, q \in Todo' : t < q.tag
    <3>1. NewOps' = NewOps  BY <2>5 DEF NewOps
    <3>2. \A q \in Todo' : q \in Todo \/ q.tag = issued + 1
      BY <1>1, <2>4, <2>5, <2>6, <3>1 DEF Todo, DownOf
    <3> QED  BY <1>1, <1>2, <2>5, <2>6, <3>2 DEF RanInv
  <2>7. \A i \in DOMAIN operations' : i > 1 => operations'[i].at = "new"  BY <2>5 DEF RanInv
  <2> QED  BY <1>1, <2>1, <2>5, <2>6, <2>7, RanStay
<1>4. CASE ~SubmitStep
  <2>1. issued' = issued /\ \A c \in Conns : DownOf(c)' \subseteq DownOf(c)
    BY <1>4, NextFlow DEF SubmitStep, Flows
  <2>2. ASSUME sock' # NoConn, sock' = sock PROVE DownOf(sock)' \subseteq DownOf(sock)
    <3>1. ASSUME NEW c \in Conns, c = sock PROVE DownOf(sock)' \subseteq DownOf(sock)
      BY <2>1, <2>2, <3>1 DEF DownOf
    <3> QED  BY <1>1, <2>2, <3>1
  <2>3. ASSUME sock' = sock, NewOps' \subseteq Todo, ran' = ran,
               \A i \in DOMAIN operations' : i > 1 => operations'[i].at = "new"
        PROVE  RanInv'
    <3>1. sock' # NoConn => Todo' \subseteq Todo  BY <2>2, <2>3 DEF Todo
    <3>2. sock' # NoConn => \A t \in Ran, q \in Todo' : t < q.tag  BY <2>3, <3>1 DEF RanInv
    <3> QED  BY <1>1, <2>1, <2>3, <3>2, RanStay
  <2>4. CASE UNCHANGED <<sock, operations, ran>>
    <3>1. NewOps' = NewOps  BY <2>4 DEF NewOps
    <3>2. \A i \in DOMAIN operations' : i > 1 => operations'[i].at = "new"  BY <2>4 DEF RanInv
    <3> QED  BY <2>3, <2>4, <3>1, <3>2 DEF Todo
  <2>5. CASE ScriptNext
    <3>1. CASE sock' = NoConn /\ ran' = ran
      <4>1. operations' = << >>  BY <3>1, ChainInvStep DEF ChainInv
      <4>2. \A i \in DOMAIN operations' : i > 1 => operations'[i].at = "new"  BY <4>1
      <4> QED  BY <1>1, <2>1, <3>1, <4>2, RanStay
    <3>2. CASE LuaConnect /\ ran' = ran
      <4>1. PICK c \in Conns : c = opened + 1 /\ sock' = c /\ sock = NoConn /\ operations' = operations
        BY <3>2 DEF LuaConnect, OpenConnection
      <4>2. operations = << >> /\ operations' = << >>  BY <4>1 DEF ChainInv
      <4>3. c > opened  BY <1>1, <4>1 DEF TypeOK, WireTypeOK
      <4>4. DownOf(c) = {}  BY <4>1, <4>3 DEF FreshInv, LoadOf, Load, DownOf
      <4>5. DownOf(sock)' = {}  BY <2>1, <4>1, <4>4 DEF DownOf
      <4>6. NewOps' = {}  BY <4>2 DEF NewOps
      <4>7. Todo' = {}  BY <4>5, <4>6 DEF Todo
      <4>8. \A i \in DOMAIN operations' : i > 1 => operations'[i].at = "new"  BY <4>2
      <4> QED  BY <1>1, <2>1, <3>2, <4>7, <4>8, RanStay
    <3>3. CASE /\ sock \in Conns /\ UNCHANGED <<sock, ran>>
               /\ \E r \in DownOf(sock) : operations' = Append(operations, [req |-> r, at |-> "new"])
      <4>1. PICK r \in DownOf(sock) : operations' = Append(operations, [req |-> r, at |-> "new"])
        BY <3>3
      <4> DEFINE n == Len(operations)
      <4>2. /\ n \in Nat /\ DOMAIN operations = 1..n /\ DOMAIN operations' = 1..(n + 1)
            /\ operations'[n + 1] = [req |-> r, at |-> "new"]
            /\ \A i \in 1..n : operations'[i] = operations[i]
        BY <1>1, <4>1
      <4>3. \A i \in DOMAIN operations' : \/ i \in DOMAIN operations /\ operations'[i] = operations[i]
                                          \/ operations'[i] = [req |-> r, at |-> "new"]
        <5>1. \A i \in 1..(n + 1) : i \in 1..n \/ i = n + 1  BY <4>2
        <5> QED  BY <4>2, <5>1
      <4>4. \A i \in DOMAIN operations' : i > 1 => operations'[i].at = "new"  BY <4>3 DEF RanInv
      <4>5. NewOps' \subseteq NewOps \cup {r}  BY <4>3 DEF NewOps
      <4> QED  BY <2>3, <3>3, <4>4, <4>5 DEF Todo
    <3>4. CASE RunOperation
      BY <2>1, <2>5, <3>4, RunStep DEF ScriptNext, appVars, transportVars
    <3>5. CASE operations # << >> /\ operations' = Tail(operations) /\ UNCHANGED <<sock, ran>>
      <4>1. \A i \in DOMAIN operations' : i + 1 \in DOMAIN operations /\ i + 1 > 1 /\ operations'[i] = operations[i + 1]
        BY <1>1, <3>5
      <4>2. \A i \in DOMAIN operations' : i > 1 => operations'[i].at = "new"  BY <4>1 DEF RanInv
      <4>3. NewOps' \subseteq NewOps  BY <4>1 DEF NewOps
      <4> QED  BY <2>3, <3>5, <4>2, <4>3 DEF Todo
    <3> QED  BY <2>4, <2>5, <3>1, <3>2, <3>3, <3>4, <3>5, ScriptCases
  <2>6. UNCHANGED <<sock, operations, ran>> \/ ScriptNext
    BY WorkerCases DEF Next, ForeignNext, vars, scriptVars
  <2> QED  BY <2>4, <2>5, <2>6
<1> QED  BY <1>3, <1>4

\* Work that is done stays done.
LEMMA RanGrows ==
  ASSUME TypeInv, [Next]_vars
  PROVE  Ran \subseteq Ran'
<1>1. ran \in Seq(Tags) /\ operations \in Seq(Operations)  BY DEF TypeInv, TypeOK, ScriptTypeOK
<1>2. CASE ran' = ran  BY <1>2 DEF Ran
<1>3. CASE RunOperation
  <2>1. \A t : \A i \in DOMAIN ran : i \in DOMAIN Append(ran, t) /\ Append(ran, t)[i] = ran[i]  BY <1>1
  <2>2. ran' = ran \/ \E t : ran' = Append(ran, t)  BY <1>3 DEF RunOperation
  <2> QED  BY <1>2, <2>1, <2>2 DEF Ran
<1>4. ran' = ran \/ RunOperation
  <2>1. CASE ScriptNext
    BY <2>1 DEF ScriptNext, LuaConnect, LuaHello, LuaRequest, LuaError, LuaClose, LuaUnexpected, LuaDisconnected, OnFrame,
       QueueResponse, EndWork, LuaFlush, EndFrame, LuaStop, LuaRestart, LuaArriving
  <2> QED  BY <2>1, WorkerCases DEF Next, ForeignNext, vars, scriptVars
<1> QED  BY <1>2, <1>3, <1>4

LEMMA SeqMore ==
  ASSUME NEW S, NEW T, S \subseteq T, NEW s \in Seq(S)
  PROVE  s \in Seq(T)
OBVIOUS

LEMMA EvidenceGrows ==
  ASSUME TypeInv, [Next]_vars
  PROVE  /\ \A c : UpFrames(c) \subseteq UpFrames(c)'
         /\ OutFrames \subseteq OutFrames' /\ RanOperations \subseteq RanOperations' /\ TrueResults \subseteq TrueResults'
         /\ \A t, by : Answered(t, by) => Answered(t, by)'
<1>1. Ran \subseteq Ran'  BY RanGrows
<1>2. \A t, by : Answered(t, by) => Answered(t, by)'  BY <1>1 DEF Answered
<1>3. TrueResults \subseteq TrueResults'  BY <1>2 DEF TrueResults
<1> QED  BY <1>1, <1>2, <1>3 DEF UpFrames, OutFrames, RanOperations

\* What arrives at the assistant.
LEMMA UpStep ==
  ASSUME TypeInv, ChainInv, EvidenceInv, [Next]_vars, NEW c \in Conns
  PROVE  toApp'[c] \in Seq(UpFrames(c)')
<1> DEFINE F == UpFrames(c)
<1>1. TypeOK /\ toApp \in Streams /\ sock \in Conns \cup {NoConn} /\ client \in Conns \cup {NoConn} /\ NoConn \notin Conns
  BY ConnFacts DEF TypeInv, TypeOK, WireTypeOK, ScriptTypeOK, TransportTypeOK
<1>2. toApp[c] \in Seq(F)  BY DEF EvidenceInv
<1>3. ASSUME toApp'[c] \in Seq(F) PROVE toApp'[c] \in Seq(UpFrames(c)')
  <2>1. F \subseteq UpFrames(c)'  BY EvidenceGrows
  <2> HIDE DEF F
  <2> QED  BY <1>3, <2>1, SeqMore
<1>4. c \notin Foreign => F = OutFrames  BY DEF UpFrames, OutFrames
<1>5. ASSUME \/ toApp'[c] \in {<< >>, toApp[c]}
             \/ toApp[c] # << >> /\ toApp'[c] = Tail(toApp[c])
             \/ \E f \in F : toApp'[c] = Append(toApp[c], f)
             \/ \E s \in Seq(F) : toApp'[c] = toApp[c] \o s
      PROVE  toApp'[c] \in Seq(F)
  <2> HIDE DEF F
  <2> QED  BY <1>2, <1>5, EmptySeqType, TailType, AppendType, ConcatType
<1> HIDE DEF F
<1>6. CASE WorkerNext
  <2>1. CASE TransportStep
    <3>1. CASE AcceptClient \/ FlushFrame  BY <1>3, <1>5, <3>1 DEF AcceptClient, FlushFrame
    <3>2. CASE RejectBusyClient
      <4>1. toApp'[c] \in {<< >>, toApp[c]}  BY <1>1, <3>2 DEF RejectBusyClient, Streams
      <4> QED  BY <1>3, <1>5, <4>1
    <3>3. CASE FlushClosingPeers
      <4>1. toApp'[c] \in {<< >>, toApp[c]}  BY <1>1, <3>3 DEF FlushClosingPeers
      <4> QED  BY <1>3, <1>5, <4>1
    <3>4. CASE Arriving /\ Take
      <4>1. toApp'[c] = toApp[c] \/ (toApp[c] # << >> /\ toApp'[c] = Tail(toApp[c]))
        BY <1>1, <3>4 DEF Arriving, CanReceive, Take, Streams
      <4> QED  BY <1>3, <1>5, <4>1
    <3>5. CASE ~AcceptClient /\ ~FlushFrame /\ ~RejectBusyClient /\ ~FlushClosingPeers /\ ~(Arriving /\ Take)
      <4>1. toApp' = [toApp EXCEPT ![client] = << >>] \/ toApp' = toApp
        BY <2>1, <3>5 DEF TransportStep, AcceptHello, RejectHello, ReceiveResult, ReceiveError, ReceiveClose,
           ReceiveUnexpected, ReceiveClosed, FlushError, FlushEnd, CloseClient, BeginProtocolClose, BeginOrderlyClose,
           BeginClose, transportVars, wireVars
      <4>2. toApp'[c] \in {<< >>, toApp[c]}  BY <1>1, <4>1 DEF Streams
      <4> QED  BY <1>3, <1>5, <4>2
    <3> QED  BY <3>1, <3>2, <3>3, <3>4, <3>5
  <2>2. CASE StopSockets
    <3>1. toApp'[c] = << >>  BY <2>2 DEF StopSockets
    <3> QED  BY <1>3, <1>5, <3>1
  <2>3. CASE toApp' = toApp  BY <1>3, <1>5, <2>3
  <2>4. TransportStep \/ StopSockets \/ toApp' = toApp
    BY <1>6, WorkerCases DEF SubmitAccepted, wireVars
  <2> QED  BY <2>1, <2>2, <2>3, <2>4
<1>7. CASE ScriptNext
  <2>1. sock \in Conns => sock \notin Foreign  BY DEF ChainInv
  <2>2. outgoing \in Seq(OutFrames)  BY DEF EvidenceInv
  <2>3. CASE LuaFlush
    <3>1. sock \in Conns /\ outgoing # << >>
      BY <1>1, <2>3 DEF LuaFlush, TypeInv, InFrame
    <3>2. Head(outgoing) \in OutFrames
      <4> HIDE DEF OutFrames
      <4> QED  BY <2>2, <3>1, TailType
    <3>3. \/ toApp'[c] = toApp[c]
          \/ c = sock /\ toApp'[c] = Append(toApp[c], Head(outgoing))
      BY <1>1, <2>3, <3>1 DEF LuaFlush, Streams
    <3> QED  BY <1>3, <1>4, <1>5, <2>1, <3>1, <3>2, <3>3
  <2>4. CASE LuaStop
    <3>1. CASE sock = NoConn  BY <1>3, <1>5, <2>4, <3>1 DEF LuaStop
    <3>2. CASE sock # NoConn
      <4> DEFINE last == IF Len(outgoing) < MaxOutgoing THEN Append(outgoing, Control("Close")) ELSE outgoing
      <4>1. PICK n \in 0..Len(last) :
               toApp' = IF appOpen[sock] THEN [toApp EXCEPT ![sock] = toApp[sock] \o SubSeq(last, 1, n)] ELSE toApp
        BY <2>4, <3>2 DEF LuaStop
      <4>2. Control("Close") \in OutFrames
        BY ControlFrames DEF ControlTypes, OutFrames, Control
      <4>3. last \in Seq(OutFrames)
        <5> HIDE DEF OutFrames
        <5> QED  BY <2>2, <4>2, AppendType
      <4>4. SubSeq(last, 1, n) \in Seq(OutFrames)
        <5> HIDE DEF OutFrames, last
        <5> QED  BY <4>3, SubSeqType
      <4> DEFINE sent == SubSeq(last, 1, n)
      <4> HIDE DEF last
      <4>5. toApp'[c] = toApp[c] \/ (c = sock /\ toApp'[c] = toApp[c] \o sent)
        BY <1>1, <4>1 DEF Streams
      <4> QED  BY <1>1, <1>3, <1>4, <1>5, <2>1, <4>4, <4>5
    <3> QED  BY <3>1, <3>2
  <2>5. CASE ~LuaFlush /\ ~LuaStop
    <3>1. toApp' = toApp
      BY <1>7, <2>5 DEF ScriptNext, LuaConnect, OpenConnection, LuaHello, LuaRequest, LuaError, LuaClose, LuaUnexpected,
         LuaDisconnected, OnFrame, RunOperation, QueueResponse, EndWork, EndFrame, LuaRestart, LuaArriving, wireVars
    <3> QED  BY <1>3, <1>5, <3>1
  <2> QED  BY <2>3, <2>4, <2>5
<1>8. ASSUME NEW d \in Foreign, ForeignSend(d) PROVE toApp'[c] \in Seq(UpFrames(c)')
  <2>1. PICK f \in ForeignFrames : toApp' = [toApp EXCEPT ![d] = Append(toApp[d], f)]
    BY <1>8 DEF ForeignSend
  <2>2. f \in Frames /\ (f.type = "Result" => f.tag = NoTag)
    BY <2>1, ControlFrames DEF ForeignFrames, ControlTypes, Control, Frames, WorkTypes
  <2>3. toApp'[c] = toApp[c] \/ (c = d /\ toApp'[c] = Append(toApp[c], f))
    BY <1>1, <2>1, ConnFacts DEF Streams
  <2>4. c = d => f \in F  BY <2>2 DEF F, UpFrames
  <2> QED  BY <1>3, <1>5, <2>3, <2>4
<1>9. ASSUME NEW d \in Conns, ResetConnection(d) PROVE toApp'[c] \in Seq(UpFrames(c)')
  <2>1. toApp'[c] \in {<< >>, toApp[c]}  BY <1>1, <1>9 DEF ResetConnection, Streams
  <2> QED  BY <1>3, <1>5, <2>1
<1>10. CASE ForeignNext
  <2>1. (\E d \in Foreign : ForeignSend(d)) \/ toApp' = toApp
    BY <1>10 DEF ForeignNext, ForeignConnect, OpenConnection, ForeignRead, ForeignClose
  <2> QED  BY <1>3, <1>5, <1>8, <2>1
<1>11. CASE UNCHANGED vars
  BY <1>3, <1>5, <1>11 DEF vars, wireVars
<1> QED  BY <1>6, <1>7, <1>9, <1>10, <1>11 DEF Next

\* What the script has to send, and to do.
LEMMA ScriptEvidence ==
  ASSUME TypeInv, ChainInv, EvidenceInv, [Next]_vars
  PROVE  outgoing' \in Seq(OutFrames') /\ operations' \in Seq(RanOperations')
<1>1. TypeOK /\ operations \in Seq(Operations) /\ OutFrames \subseteq OutFrames' /\ RanOperations \subseteq RanOperations'
  BY EvidenceGrows DEF TypeInv, TypeOK, ScriptTypeOK
<1>2. outgoing \in Seq(OutFrames) /\ operations \in Seq(RanOperations)  BY DEF EvidenceInv
<1>3. ASSUME outgoing' \in Seq(OutFrames) PROVE outgoing' \in Seq(OutFrames')
  <2> HIDE DEF OutFrames
  <2> QED  BY <1>1, <1>3, SeqMore
<1>4. ASSUME operations' \in Seq(RanOperations) PROVE operations' \in Seq(RanOperations')
  <2> HIDE DEF RanOperations
  <2> QED  BY <1>1, <1>4, SeqMore
<1>5. /\ << >> \in Seq(OutFrames) /\ << >> \in Seq(RanOperations)
      /\ (outgoing # << >> => Tail(outgoing) \in Seq(OutFrames))
      /\ (operations # << >> => Tail(operations) \in Seq(RanOperations) /\ Head(operations) \in RanOperations)
      /\ \A f \in OutFrames : Append(outgoing, f) \in Seq(OutFrames)
      /\ \A o \in RanOperations : Append(operations, o) \in Seq(RanOperations)
      /\ \A s \in Seq(OutFrames) : outgoing \o s \in Seq(OutFrames)
  <2> HIDE DEF OutFrames, RanOperations
  <2> QED  BY <1>2, EmptySeqType, TailType, AppendType, ConcatType
<1>6. CASE UNCHANGED <<outgoing, operations>>  BY <1>2, <1>3, <1>4, <1>6
<1>7. ASSUME NEW frames, frames \in Seq(OutFrames), NEW next, QueueOrFail(frames, next)
      PROVE  outgoing' \in Seq(OutFrames') /\ operations' \in Seq(RanOperations')
  BY <1>2, <1>3, <1>4, <1>5, <1>7 DEF QueueOrFail, CloseSocket
<1>8. \A type \in ControlTypes \cup {"Error"} : Control(type) \in OutFrames
  BY ControlFrames DEF ControlTypes, Control, OutFrames
<1>9. CASE ScriptNext
  <2>1. CASE LuaConnect
    <3>1. Control("ClientHello") \in OutFrames  BY <1>8 DEF ControlTypes
    <3>2. <<Control("ClientHello")>> \in Seq(OutFrames)
      <4> HIDE DEF OutFrames
      <4> QED  BY <3>1
    <3> QED  BY <1>2, <1>3, <1>4, <2>1, <3>2 DEF LuaConnect
  <2>2. CASE LuaRequest
    <3> DEFINE r == [id |-> LuaFrame.id, op |-> LuaFrame.op, tag |-> LuaFrame.tag]
               o == [req |-> r, at |-> "new"]
    <3>1. LuaFrame \in Frames /\ LuaFrame.type = "Request"
      BY <1>1, <2>2, LuaFrameType DEF LuaRequest
    <3>2. r \in Requests
      BY <3>1 DEF Frames, ControlTypes, WorkTypes, Requests
    <3>3. CASE operations' = Append(operations, o) /\ UNCHANGED outgoing
      <4>1. o \in RanOperations  BY <3>2 DEF RanOperations, Operations
      <4> QED  BY <1>2, <1>3, <1>4, <1>5, <3>3, <4>1
    <3>4. CASE QueueOrFail(<<Work("Error", r)>>, phase)
      <4>1. Work("Error", r) \in Frames  BY <3>2, WorkFrames DEF WorkTypes
      <4>2. Work("Error", r) \in OutFrames  BY <4>1 DEF OutFrames, Work
      <4>3. <<Work("Error", r)>> \in Seq(OutFrames)
        <5> HIDE DEF OutFrames
        <5> QED  BY <4>2
      <4> QED  BY <1>7, <3>4, <4>3
    <3> QED  BY <2>2, <3>3, <3>4 DEF LuaRequest
  <2>3. CASE LuaClose
    <3>1. Control("Close") \in OutFrames  BY <1>8 DEF ControlTypes
    <3>2. <<Control("Close")>> \in Seq(OutFrames)
      <4> HIDE DEF OutFrames
      <4> QED  BY <3>1
    <3> QED  BY <1>7, <2>3, <3>2 DEF LuaClose
  <2>4. CASE LuaUnexpected
    <3>1. Control("Error") \in OutFrames /\ Control("Close") \in OutFrames  BY <1>8 DEF ControlTypes
    <3>2. <<Control("Error"), Control("Close")>> \in Seq(OutFrames)
      <4> HIDE DEF OutFrames
      <4> QED  BY <3>1
    <3> QED  BY <1>7, <2>4, <3>2 DEF LuaUnexpected, LuaProtocolClose
  <2>5. CASE RunOperation
    <3>1. PICK at \in {"partial", "done", "failed"} : operations' = [operations EXCEPT ![1].at = at]
      BY <2>5 DEF RunOperation
    <3>2. /\ operations # << >> /\ Head(operations) = operations[1] /\ 1 \in DOMAIN operations
          /\ operations[1] \in RanOperations /\ ran \in Seq(Tags)
      BY <1>1, <1>5, <2>5 DEF RunOperation, AtHead, TypeOK, ScriptTypeOK
    <3> DEFINE o == [operations[1] EXCEPT !.at = at]
    <3>3. operations[1].req.tag \in Ran'
      <4>1. CASE operations[1].at = "new"
        <5>1. ran' = Append(ran, operations[1].req.tag)  BY <2>5, <3>2, <4>1 DEF RunOperation
        <5>2. Len(ran) + 1 \in DOMAIN ran' /\ ran'[Len(ran) + 1] = operations[1].req.tag  BY <3>2, <5>1
        <5> QED  BY <5>2 DEF Ran
      <4>2. CASE operations[1].at # "new"  BY <3>2, <4>2, RanGrows DEF RanOperations
      <4> QED  BY <4>1, <4>2
    <3>4. o \in RanOperations'
      BY <3>2, <3>3 DEF RanOperations, Operations
    <3>5. operations \in Seq(RanOperations')
      <4> HIDE DEF RanOperations
      <4> QED  BY <1>1, <1>2, SeqMore
    <3>6. operations' = [operations EXCEPT ![1] = o]  BY <3>1
    <3>7. operations' \in Seq(RanOperations')
      <4> DEFINE T == RanOperations'
      <4>1. operations \in Seq(T) /\ o \in T /\ 1 \in DOMAIN operations  BY <3>2, <3>4, <3>5
      <4> HIDE DEF T, o
      <4>2. [operations EXCEPT ![1] = o] \in Seq(T)  BY <4>1, SeqExceptType
      <4> QED  BY <3>6, <4>2 DEF T
    <3> QED  BY <1>2, <1>3, <2>5, <3>7 DEF RunOperation
  <2>6. CASE QueueResponse
    <3> DEFINE o == Head(operations)
               f == Work(IF o.at = "done" THEN "Result" ELSE "Error", o.req)
    <3>1. operations # << >> /\ outgoing' = Append(outgoing, f) /\ operations' = Tail(operations) /\ o \in RanOperations
      BY <1>5, <2>6 DEF QueueResponse, AtHead
    <3>2. o.req \in Requests /\ (o.at = "done" => o.req.tag \in Ran)
      BY <3>1 DEF RanOperations, Operations
    <3>3. f \in Frames  BY <3>2, WorkFrames DEF WorkTypes
    <3>4. f \in OutFrames  BY <3>2, <3>3 DEF OutFrames, Work
    <3> QED  BY <1>3, <1>4, <1>5, <3>1, <3>4
  <2>7. CASE LuaFlush
    BY <1>2, <1>3, <1>4, <1>5, <2>7 DEF LuaFlush
  <2>8. CASE ~LuaConnect /\ ~LuaRequest /\ ~LuaClose /\ ~LuaUnexpected /\ ~RunOperation /\ ~QueueResponse /\ ~LuaFlush
    <3>1. UNCHANGED <<outgoing, operations>> \/ (outgoing' = << >> /\ operations' = << >>)
      BY <1>9, <2>8 DEF ScriptNext, LuaHello, LuaError, LuaDisconnected, OnFrame, EndWork, EndFrame, LuaStop, LuaRestart,
         CloseSocket
    <3> QED  BY <1>3, <1>4, <1>5, <1>6, <3>1
  <2> QED  BY <2>1, <2>2, <2>3, <2>4, <2>5, <2>6, <2>7, <2>8
<1>10. UNCHANGED <<outgoing, operations>> \/ ScriptNext
  BY WorkerCases DEF Next, ForeignNext, vars, scriptVars
<1> QED  BY <1>6, <1>9, <1>10

\* The results on their way to the session.
LEMMA ResultEvidence ==
  ASSUME TypeInv, ChainInv, ClientInv, EvidenceInv, [Next]_vars
  PROVE  tResults' \in Seq(TrueResults') /\ batch' \in Seq(TrueResults')
<1>1. TypeOK /\ tPending \subseteq Requests /\ client \in Conns \cup {NoConn} /\ TrueResults \subseteq TrueResults'
  BY EvidenceGrows DEF TypeInv, TypeOK, TransportTypeOK
<1>2. tResults \in Seq(TrueResults) /\ batch \in Seq(TrueResults)  BY DEF EvidenceInv
<1>3. ASSUME tResults' \in Seq(TrueResults), batch' \in Seq(TrueResults)
      PROVE  tResults' \in Seq(TrueResults') /\ batch' \in Seq(TrueResults')
  <2> HIDE DEF TrueResults
  <2> QED  BY <1>1, <1>3, SeqMore
<1>4. /\ << >> \in Seq(TrueResults) /\ (batch # << >> => Tail(batch) \in Seq(TrueResults))
      /\ \A s \in Seq(TrueResults) : \A e \in TrueResults : Append(s, e) \in Seq(TrueResults)
  <2> HIDE DEF TrueResults
  <2> QED  BY <1>2, EmptySeqType, TailType, AppendType
<1>5. ASSUME NEW status \in Statuses \ {"Ok"}, NEW reqs \in SUBSET Requests, NEW by \in Tags \cup {NoTag}
      PROVE  [status |-> status, reqs |-> reqs, by |-> by] \in TrueResults
  BY DEF TrueResults, Results
<1>6. NoTag \in Tags \cup {NoTag} /\ "Disconnected" \in Statuses \ {"Ok"} /\ "ProtocolError" \in Statuses \ {"Ok"}
      /\ "Failed" \in Statuses \ {"Ok"}
  BY DEF Statuses
<1>7. ASSUME NEW status \in Statuses \ {"Ok"}, NEW reqs \in SUBSET Requests, NEW s \in Seq(TrueResults)
      PROVE  CompletePending(s, reqs, status) \in Seq(TrueResults)
  <2>1. [status |-> status, reqs |-> reqs, by |-> NoTag] \in TrueResults  BY <1>5, <1>6
  <2> HIDE DEF TrueResults
  <2> QED  BY <1>4, <2>1 DEF CompletePending
<1>8. CASE WorkerNext
  <2>1. CASE TransportStep /\ UNCHANGED <<sessionVars, batch>>
    <3>1. CASE UNCHANGED tResults  BY <1>2, <1>3, <2>1, <3>1
    <3>2. CASE ReceiveResult
      <4>1. PICK p \in tPending :
              p.id = Frame.id /\ tResults' = Append(tResults, [status |-> "Ok", reqs |-> {p}, by |-> Frame.tag])
        BY <3>2 DEF ReceiveResult
      <4> DEFINE e == [status |-> "Ok", reqs |-> {p}, by |-> Frame.tag]
      <4>2. client \in Conns /\ toApp[client] # << >> /\ Frame.type = "Result"
        BY <1>1, <3>2 DEF ReceiveResult, Arriving, CanReceive
      <4>3. Frame \in UpFrames(client)
        <5>1. toApp[client] \in Seq(UpFrames(client))  BY <4>2 DEF EvidenceInv
        <5> HIDE DEF UpFrames
        <5> QED  BY <4>2, <5>1, TailType DEF Frame
      <4>4. Frame.tag \in Tags \cup {NoTag}
        <5>1. Frame \in Frames  BY <4>3 DEF UpFrames
        <5> QED  BY <5>1 DEF Frames
      <4>5. Answered(p.tag, Frame.tag)
        <5>1. CASE client \in Foreign
          BY <4>2, <4>3, <5>1 DEF UpFrames, Answered
        <5>2. CASE client \notin Foreign
          <6>1. UNCHANGED <<sock, outgoing, operations>>  BY <1>8, WorkerCases DEF scriptVars
          <6>2. Frame.tag \in Ran /\ p = Req(Frame)  BY <1>1, <3>2, <4>1, <5>2, <6>1, ResultFrame
          <6> QED  BY <6>2 DEF Answered, Req
        <5> QED  BY <5>1, <5>2
      <4>6. e \in TrueResults  BY <1>1, <4>4, <4>5 DEF TrueResults, Results, Statuses
      <4> QED  BY <1>2, <1>3, <1>4, <2>1, <4>1, <4>6
    <3>3. CASE ReceiveError
      <4>1. PICK p \in tPending :
              tResults' = CompletePending(Append(tResults, [status |-> "Failed", reqs |-> {p}, by |-> Frame.tag]),
                                          tPending \ {p}, "Disconnected")
        BY <3>3 DEF ReceiveError
      <4>2. client \in Conns /\ toApp[client] # << >>
        BY <1>1, <3>3 DEF ReceiveError, Arriving, CanReceive
      <4>3. Frame \in Frames
        BY <1>1, <4>2, TailType DEF Frame, TypeOK, WireTypeOK, Streams
      <4>4. Frame.tag \in Tags \cup {NoTag}  BY <4>3 DEF Frames
      <4>5. [status |-> "Failed", reqs |-> {p}, by |-> Frame.tag] \in TrueResults  BY <1>1, <1>5, <1>6, <4>4
      <4>6. Append(tResults, [status |-> "Failed", reqs |-> {p}, by |-> Frame.tag]) \in Seq(TrueResults)
        BY <1>2, <1>4, <4>5
      <4>7. tPending \ {p} \in SUBSET Requests  BY <1>1
      <4> HIDE DEF TrueResults
      <4> QED  BY <1>2, <1>3, <1>6, <1>7, <2>1, <4>1, <4>6, <4>7
    <3>4. CASE \E status \in {"Disconnected", "ProtocolError"} : tResults' = CompletePending(tResults, tPending, status)
      BY <1>1, <1>2, <1>3, <1>6, <1>7, <2>1, <3>4
    <3> QED  BY <2>1, <3>1, <3>2, <3>3, <3>4, TransportCases
  <2>2. CASE Submit /\ SubmitAccepted
    <3>1. PICK r \in Requests :
            \/ tResults' = tResults
            \/ tResults' = Append(tResults, [status |-> "Failed", reqs |-> {r}, by |-> NoTag])
      BY <1>1, <2>2, SubmitFlow
    <3>2. batch' = batch  BY <2>2 DEF Submit, managerVars
    <3>3. [status |-> "Failed", reqs |-> {r}, by |-> NoTag] \in TrueResults  BY <1>5, <1>6
    <3> QED  BY <1>2, <1>3, <1>4, <3>1, <3>2, <3>3
  <2>3. CASE ChangeBridgePort \/ Stop
    BY <1>1, <1>2, <1>3, <1>4, <1>6, <1>7, <2>3 DEF ChangeBridgePort, Stop
  <2>4. CASE WorkerQuiet
    <3>1. tResults' \in {tResults, << >>} /\ (batch' \in {batch, tResults} \/ (batch # << >> /\ batch' = Tail(batch)))
      BY <2>4 DEF WorkerQuiet, Tick, EndReceive, TakeResults, DropResults, AcceptGame, DeliverResult, EndDeliver, Submit,
         SubmitRefused, Disconnect, EndUpdate, Reap, transportVars, managerVars
    <3> QED  BY <1>2, <1>3, <1>4, <3>1
  <2>5. \/ TransportStep /\ UNCHANGED <<sessionVars, batch>>
        \/ Submit /\ SubmitAccepted
        \/ ChangeBridgePort \/ Stop \/ WorkerQuiet
    BY <1>8 DEF WorkerNext, WorkerQuiet, TransportStep, Accept, EndAccept, Receive, Flush, EndFlush, Submit, managerVars
  <2> QED  BY <2>1, <2>2, <2>3, <2>4, <2>5
<1>9. CASE ~WorkerNext
  <2>1. UNCHANGED <<tResults, batch>>
    BY <1>9 DEF Next, ScriptNext, ForeignNext, appVars, vars, transportVars, managerVars
  <2> QED  BY <1>2, <1>3, <2>1
<1> QED  BY <1>8, <1>9

\* What the completions were called with.
LEMMA OutcomeEvidence ==
  ASSUME TypeInv, Inv, EvidenceInv, [Next]_vars
  PROVE  TrueOutcomes'
<1>1. TypeOK /\ \A t, by : Answered(t, by) => Answered(t, by)'
  BY EvidenceGrows DEF TypeInv
<1>2. \A t \in Tags : outcome[t] = "Ok" => Answered(t, answeredBy[t])  BY DEF EvidenceInv, TrueOutcomes
<1>3. ASSUME \A t \in Tags : outcome'[t] = "Ok" => Answered(t, answeredBy'[t])
      PROVE  TrueOutcomes'
  <2> SUFFICES ASSUME NEW t \in Tags, outcome'[t] = "Ok", NEW by, by = answeredBy'[t]
               PROVE  Answered(t, by)'
    BY DEF TrueOutcomes, Answered
  <2> QED  BY <1>1, <1>3
<1>4. CASE UNCHANGED <<outcome, answeredBy>>  BY <1>2, <1>3, <1>4
<1>5. ASSUME StopSession PROVE \A t \in Tags : outcome'[t] = "Ok" => Answered(t, answeredBy'[t])
  BY <1>2, <1>5 DEF StopSession, Complete
<1>6. CASE DeliverResult
  <2> DEFINE res == Head(batch)
  <2>1. batch \in Seq(Results) /\ batch # << >> /\ batch \in Seq(TrueResults)
    BY <1>1, <1>6 DEF DeliverResult, TypeOK, EvidenceInv
  <2>2. res \in TrueResults
    <3> HIDE DEF TrueResults
    <3> QED  BY <2>1, TailType
  <2>3. ASSUME NEW r \in res.reqs, Verdict(res, r) # "Ok", CompleteFailed(r, Verdict(res, r), res.by)
        PROVE  \A t \in Tags : outcome'[t] = "Ok" => Answered(t, answeredBy'[t])
    <3> DEFINE v == Verdict(res, r)
    <3> HIDE DEF v
    <3>1. PICK p \in sPending :
            /\ outcome' = [t \in Tags |-> IF t = p.tag THEN v
                             ELSE IF \E q \in sPending : q.tag = t THEN "Disconnected" ELSE outcome[t]]
            /\ answeredBy' = [answeredBy EXCEPT ![p.tag] = res.by]
      BY <2>3 DEF CompleteFailed, v
    <3>2. v # "Ok"  BY <2>3 DEF v
    <3>3. ASSUME NEW t \in Tags, outcome'[t] = "Ok" PROVE t # p.tag /\ outcome[t] = "Ok"
      BY <3>1, <3>2, <3>3
    <3>4. answeredBy \in [Tags -> Tags \cup {NoTag}]  BY <1>1 DEF TypeOK, SessionTypeOK
    <3>5. \A t \in Tags : t # p.tag => answeredBy'[t] = answeredBy[t]  BY <3>1, <3>4
    <3> QED  BY <1>2, <3>3, <3>5
  <2>4. ASSUME NEW r \in res.reqs, res.status = "Ok", CompleteOk(r, res.by)
        PROVE  \A t \in Tags : outcome'[t] = "Ok" => Answered(t, answeredBy'[t])
    <3>1. PICK p \in sPending : p.id = r.id /\ Complete({p}, "Ok", res.by)
      BY <2>4 DEF CompleteOk
    <3>2. ~sStopped  BY <3>1 DEF Inv, SessionInv
    <3>3. r \in sPending
      <4>1. res = batch[1] /\ 1 \in DOMAIN batch  BY <2>1
      <4> QED  BY <2>4, <3>2, <4>1 DEF Inv, TableInv, Deliverable, About
    <3>4. p = r  BY <3>1, <3>3 DEF Inv, SessionInv
    <3>5. Answered(p.tag, res.by)  BY <2>2, <2>4, <3>4 DEF TrueResults
    <3>6. \A t \in Tags : /\ outcome'[t] = (IF p.tag = t THEN "Ok" ELSE outcome[t])
                          /\ answeredBy'[t] = (IF p.tag = t THEN res.by ELSE answeredBy[t])
      BY <3>1 DEF Complete
    <3> QED  BY <1>2, <3>5, <3>6
  <2>5. CASE UNCHANGED sessionVars  BY <1>4, <2>5 DEF sessionVars
  <2>6. \/ \E r \in res.reqs : Verdict(res, r) # "Ok" /\ CompleteFailed(r, Verdict(res, r), res.by)
        \/ \E r \in res.reqs : Verdict(res, r) = "Ok" /\ CompleteOk(r, res.by)
        \/ UNCHANGED sessionVars
    BY <1>6 DEF DeliverResult
  <2>7. \A r \in res.reqs : Verdict(res, r) = "Ok" => res.status = "Ok"  BY DEF Verdict
  <2> HIDE DEF res
  <2> QED  BY <1>3, <2>3, <2>4, <2>5, <2>6, <2>7
<1>7. CASE StopSession  BY <1>3, <1>5, <1>7
<1>8. UNCHANGED <<outcome, answeredBy>> \/ StopSession \/ DeliverResult
  <2>1. CASE WorkerNext
    <3>1. CASE WorkerQuiet
      BY <3>1 DEF WorkerQuiet, Tick, EndReceive, TakeResults, DropResults, AcceptGame, NewSession, EndDeliver, Submit,
         SubmitRefused, Disconnect, EndUpdate, Reap, sessionVars, historyVars
    <3>2. CASE Submit /\ SubmitAccepted  BY <3>2 DEF SubmitAccepted
    <3> QED  BY <2>1, <3>1, <3>2, WorkerCases DEF sessionVars
  <2>2. CASE ~WorkerNext
    BY <2>2 DEF Next, ScriptNext, ForeignNext, appVars, vars, sessionVars
  <2> QED  BY <2>1, <2>2
<1> QED  BY <1>4, <1>6, <1>7, <1>8

LEMMA EvidenceInvStep ==
  ASSUME TypeInv, Inv, ChainInv, ClientInv, EvidenceInv, [Next]_vars
  PROVE  EvidenceInv'
<1>1. ASSUME NEW c \in Conns PROVE (toApp[c] \in Seq(UpFrames(c)))'
  BY UpStep
<1>2. (outgoing \in Seq(OutFrames))' /\ (operations \in Seq(RanOperations))'  BY ScriptEvidence
<1>3. (tResults \in Seq(TrueResults))' /\ (batch \in Seq(TrueResults))'  BY ResultEvidence
<1>4. TrueOutcomes'  BY OutcomeEvidence
<1> QED  BY <1>1, <1>2, <1>3, <1>4 DEF EvidenceInv

-----------------------------------------------------------------------------
LEMMA FlowInit == Init => FlowInv
<1> SUFFICES ASSUME Init PROVE FlowInv
  OBVIOUS
<1>1. /\ toApp = [c \in Conns |-> << >>] /\ toPeer = [c \in Conns |-> << >>] /\ writer = [c \in Conns |-> << >>]
      /\ sock = NoConn /\ client = NoConn /\ outgoing = << >> /\ operations = << >> /\ ran = << >>
      /\ opened = 0 /\ backlog = << >> /\ tPending = {} /\ tResults = << >> /\ batch = << >>
      /\ issued = 0 /\ outcome = [t \in Tags |-> "none"]
  BY DEF Init, WireInit, TransportInit, SessionInit, ScriptInit
<1>2. ASSUME NEW c \in Conns
      PROVE  toApp[c] = << >> /\ toPeer[c] = << >> /\ writer[c] = << >> /\ OutOf(c) = << >> /\ OpsOf(c) = << >>
  BY <1>1 DEF OutOf, OpsOf
<1>3. \A c \in Conns : ChainOf(c) /\ LoadOf(c) = {}
  BY <1>2, CarriedEmpty DEF ChainOf, LoadOf, Chain, Load, Before
<1>4. NoConn \notin Foreign /\ NoConn \notin Conns /\ NoConn = 0  BY ConnFacts DEF NoConn
<1>5. EvidenceInv
  <2>1. \A c \in Conns : toApp[c] \in Seq(UpFrames(c))  BY <1>2, EmptySeqType
  <2>2. /\ << >> \in Seq(OutFrames) /\ << >> \in Seq(RanOperations) /\ << >> \in Seq(TrueResults)
    BY EmptySeqType
  <2>3. \A t \in Tags : outcome[t] # "Ok"  BY <1>1
  <2> HIDE DEF OutFrames, RanOperations, TrueResults
  <2> QED  BY <1>1, <2>1, <2>2, <2>3 DEF EvidenceInv, TrueOutcomes
<1>6. ChainInv  BY <1>1, <1>3, <1>4 DEF ChainInv
<1>7. ClientInv  BY <1>1, <1>4 DEF ClientInv
<1>8. FreshInv  BY <1>1, <1>3, <1>4 DEF FreshInv
<1>9. RanInv  BY <1>1, <1>4 DEF RanInv, RanInOrder, Ran
<1> QED  BY <1>5, <1>6, <1>7, <1>8, <1>9 DEF FlowInv

LEMMA FlowStep ==
  ASSUME TypeInv, Inv, FlowInv, [Next]_vars
  PROVE  FlowInv'
<1>1. ChainInv'  BY ChainInvStep DEF FlowInv
<1>2. FreshInv'  BY FreshInvStep DEF FlowInv
<1>3. ClientInv'  BY ClientInvStep DEF FlowInv
<1>4. RanInv'  BY RanInvStep DEF FlowInv
<1>5. EvidenceInv'  BY EvidenceInvStep DEF FlowInv
<1> QED  BY <1>1, <1>2, <1>3, <1>4, <1>5 DEF FlowInv

\* What the connections, the queues and the results hold is always in order and
\* true: the inductive invariant behind the three theorems that follow.
THEOREM FlowInvHolds == Spec => []FlowInv
<1>1. Spec => []TypeInv  BY InitType, TypeStep, PTL DEF Spec
<1> QED  BY <1>1, InvHolds, FlowInit, FlowStep, PTL DEF Spec

\* A completion called with Ok was answered by the frame that answers this very
\* request, although Poll looks the request up by an ID that every session uses
\* again and the transport outlives the sessions.
THEOREM AnswersAlwaysMatch == Spec => []AnswersMatch
<1>1. FlowInv => AnswersMatch  BY DEF FlowInv, EvidenceInv, TrueOutcomes, Answered, AnswersMatch
<1> QED  BY <1>1, FlowInvHolds, PTL

\* Game memory sees the requests in the order of their submission, each at most
\* once, over any number of reconnects, sessions and port changes.
THEOREM RunsInOrder == Spec => []RanInOrder
<1>1. FlowInv => RanInOrder  BY DEF FlowInv, RanInv
<1> QED  BY <1>1, FlowInvHolds, PTL

\* A request that the shipped script is said to have done is one it has done.
THEOREM OkAfterRun == Spec => []OkMeansRan
<1>1. FlowInv => OkMeansRan
  <2> SUFFICES ASSUME FlowInv, NEW t \in Tags, outcome[t] = "Ok", answeredBy[t] = t
               PROVE  \E i \in DOMAIN ran : ran[i] = t
    BY DEF OkMeansRan
  <2>1. t \in Ran  BY ConnFacts DEF FlowInv, EvidenceInv, TrueOutcomes, Answered
  <2> QED  BY <2>1 DEF Ran
<1> QED  BY <1>1, FlowInvHolds, PTL
=============================================================================
