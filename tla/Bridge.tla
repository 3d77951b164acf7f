-------------------------------- MODULE Bridge --------------------------------
(***************************************************************************)
(* The bridge as a whole: the mGBA script, arbitrary other clients, and    *)
(* the assistant's worker thread, which runs the manager's tick over the   *)
(* transport, the session and the game connection.  The worker and mGBA    *)
(* meet only on the sockets.                                               *)
(*                                                                         *)
(* The tick (GameConnectionManager::UpdateConnections) is a sequence of    *)
(* steps, `pc` says which comes next:                                      *)
(*   accept, receive, flush   TcpLuaTransport::PollResults                 *)
(*   results                  who gets the results; accept a new game      *)
(*   deliver                  GameSession::Poll, one result after another  *)
(*   update                   the behaviours read and write game memory    *)
(*   reap                     the manager removes a disconnected game      *)
(***************************************************************************)
EXTENDS GameSession, MgbaScript

VARIABLES
  pc,          \* where the worker thread is
  batch,       \* results GameSession::Poll has taken and not yet handled
  listening,   \* m_ListeningForConnections
  active       \* m_ActiveConnections is not empty; its game connection is
               \* disconnected exactly when its session is stopped

managerVars == <<pc, batch, listening, active>>
appVars == <<transportVars, sessionVars, managerVars>>
vars == <<wireVars, transportVars, sessionVars, scriptVars, managerVars>>

Stages == {"idle", "accept", "receive", "flush", "results", "deliver", "update", "reap"}

TypeOK ==
  /\ WireTypeOK /\ TransportTypeOK /\ SessionTypeOK /\ ScriptTypeOK
  /\ pc \in Stages
  /\ batch \in Seq(Results)
  /\ listening \in BOOLEAN /\ active \in BOOLEAN

\* After GameConnectionManager::Start.
Init ==
  /\ WireInit /\ TransportInit /\ SessionInit /\ ScriptInit
  /\ pc = "idle"
  /\ batch = << >>
  /\ listening = TRUE /\ active = FALSE

-----------------------------------------------------------------------------
\* Tick.  The worker takes no tick after Stop.
Tick ==
  /\ pc = "idle" /\ tState # "Stopped"
  /\ pc' = "accept"
  /\ UNCHANGED <<wireVars, transportVars, sessionVars, batch, listening, active, scriptVars>>

\* PollResults.  Each of its loops ends when the socket would block, and may
\* end earlier at its limit or on an error.
Accept ==
  /\ pc = "accept"
  /\ AcceptClient \/ RejectBusyClient
  /\ UNCHANGED <<sessionVars, managerVars, scriptVars>>

EndAccept ==
  /\ pc = "accept" /\ pc' = "receive"
  /\ FlushClosingPeers
  /\ UNCHANGED <<sessionVars, batch, listening, active, scriptVars>>

Receive ==
  /\ pc = "receive"
  /\ \/ AcceptHello \/ RejectHello \/ ReceiveResult \/ ReceiveError
     \/ ReceiveClose \/ ReceiveUnexpected \/ ReceiveClosed
  /\ UNCHANGED <<sessionVars, managerVars, scriptVars>>

EndReceive ==
  /\ pc = "receive" /\ pc' = "flush"
  /\ UNCHANGED <<wireVars, transportVars, sessionVars, batch, listening, active, scriptVars>>

Flush ==
  /\ pc = "flush"
  /\ FlushFrame \/ FlushError
  /\ UNCHANGED <<sessionVars, managerVars, scriptVars>>

EndFlush ==
  /\ pc = "flush" /\ pc' = "results"
  /\ FlushEnd
  /\ UNCHANGED <<sessionVars, batch, listening, active, scriptVars>>

-----------------------------------------------------------------------------
\* Mutant: the results are copied, not moved.
TakeResultsCopies ==
  /\ pc = "results" /\ active
  /\ batch' = tResults
  /\ pc' = "deliver"
  /\ UNCHANGED <<wireVars, transportVars, sessionVars, listening, active, scriptVars>>

\* Poll of the active game's session.
TakeResults ==
  /\ pc = "results" /\ active
  /\ batch' = tResults
  /\ tResults' = << >>
  /\ pc' = "deliver"
  /\ UNCHANGED <<tState, client, handshake, closing, writer, tPending, closingPeers>>
  /\ UNCHANGED <<wireVars, sessionVars, listening, active, scriptVars>>

\* No game: results of an old session are dropped, and once the transport has
\* left the Connected state a new game may be accepted.
DropResults ==
  /\ pc = "results" /\ ~active /\ ~(listening /\ tState = "Connected")
  /\ tResults' = << >>
  /\ listening' = (listening \/ tState = "Listening")
  /\ pc' = "idle"
  /\ UNCHANGED <<tState, client, handshake, closing, writer, tPending, closingPeers>>
  /\ UNCHANGED <<wireVars, sessionVars, batch, active, scriptVars>>

\* A new game connection and its session.  Its first Update polls at once.
AcceptGame ==
  /\ pc = "results" /\ ~active /\ listening /\ tState = "Connected"
  /\ tResults' = << >>
  /\ NewSession
  /\ active' = TRUE /\ listening' = FALSE
  /\ pc' = "accept"
  /\ UNCHANGED <<tState, client, handshake, closing, writer, tPending, closingPeers>>
  /\ UNCHANGED <<wireVars, batch, scriptVars>>

-----------------------------------------------------------------------------
Known(r) == \E p \in sPending : p.id = r.id

\* Poll checks an Ok result against the request with its ID.
Verdict(res, r) ==
  IF res.status = "Ok" /\ (\A p \in sPending : p.id = r.id => p.op # r.op) THEN "ProtocolError" ELSE res.status

\* GameSession::Poll, one result (see Results for the order of a group).
DeliverResult ==
  /\ pc = "deliver" /\ batch # << >>
  /\ batch' = Tail(batch)
  /\ LET res == Head(batch) IN
     \/ \E r \in res.reqs :
          /\ Known(r)
          /\ IF Verdict(res, r) = "Ok" THEN CompleteOk(r, res.by) ELSE CompleteFailed(r, Verdict(res, r), res.by)
     \/ (\A r \in res.reqs : ~Known(r)) /\ UNCHANGED sessionVars
  /\ UNCHANGED <<wireVars, transportVars, pc, listening, active, scriptVars>>

\* Poll returns.  A transport that is no longer connected ends the game even
\* when no request was waiting.
EndDeliver ==
  /\ pc = "deliver" /\ batch = << >>
  /\ IF ~sStopped /\ tState = "Connected"
     THEN pc' = "update" /\ UNCHANGED sessionVars
     ELSE pc' = "reap" /\ StopSession
  /\ UNCHANGED <<wireVars, transportVars, batch, listening, active, scriptVars>>

\* The behaviours' update makes any number of requests.
Submit ==
  /\ pc = "update"
  /\ SubmitAccepted \/ SubmitRefused
  /\ UNCHANGED <<managerVars, scriptVars>>

\* The game connection disconnects: a behaviour asks for it, or a request is
\* outside the address ranges, so that its completion is called at once.  (The
\* ID that request used up no longer matters: the session is over.)
Disconnect ==
  /\ pc = "update" /\ ~sStopped
  /\ StopSession
  /\ UNCHANGED <<wireVars, transportVars, managerVars, scriptVars>>

EndUpdate ==
  /\ pc = "update" /\ pc' = "reap"
  /\ UNCHANGED <<wireVars, transportVars, sessionVars, batch, listening, active, scriptVars>>

\* The end of UpdateConnections.
Reap ==
  /\ pc = "reap" /\ pc' = "idle"
  /\ active' = ~sStopped
  /\ listening' = (listening \/ (sStopped /\ tState = "Listening"))
  /\ UNCHANGED <<wireVars, transportVars, sessionVars, batch, scriptVars>>

-----------------------------------------------------------------------------
\* Commands run between ticks.  A new port is a new transport object; the
\* script finds it once it has been reloaded.
ChangeBridgePort ==
  /\ pc = "idle" /\ tState # "Stopped"
  /\ StopSockets
  /\ tState' = "Listening" /\ tResults' = << >>
  /\ StopSession
  /\ listening' = TRUE /\ active' = FALSE
  /\ UNCHANGED <<pc, batch, scriptVars>>

Stop ==
  /\ pc = "idle" /\ tState # "Stopped"
  /\ StopSockets
  /\ tState' = "Stopped"
  /\ tResults' = CompletePending(tResults, tPending, "Disconnected")
  /\ StopSession
  /\ listening' = FALSE /\ active' = FALSE
  /\ UNCHANGED <<pc, batch, scriptVars>>

WorkerNext ==
  \/ Tick \/ Accept \/ EndAccept \/ Receive \/ EndReceive \/ Flush \/ EndFlush
  \/ TakeResults \/ DropResults \/ AcceptGame
  \/ DeliverResult \/ EndDeliver
  \/ Submit \/ Disconnect \/ EndUpdate \/ Reap
  \/ ChangeBridgePort \/ Stop

-----------------------------------------------------------------------------
(* Clients that are not the shipped script: they may send anything.  What   *)
(* such a client sends is chosen when the worker is about to read it, which *)
(* nobody can tell from a frame that has waited in the socket.              *)

ForeignConnect ==
  /\ tState # "Stopped"
  /\ \E c \in Foreign : OpenConnection(c)

ForeignFrames == {Control(type) : type \in {"ClientHello", "OldHello", "Close", "Malformed"}}
  \cup [type : {"Result", "Error"}, id : Ids, op : Ops, tag : {NoTag}]

ForeignSend(c) ==
  /\ pc = "receive" /\ c = client /\ peerOpen[c] /\ toApp[c] = << >>
  /\ \E f \in ForeignFrames : toApp' = [toApp EXCEPT ![c] = Append(@, f)]
  /\ UNCHANGED <<opened, backlog, toPeer, appOpen, peerOpen>>

ForeignRead(c) ==
  /\ peerOpen[c] /\ toPeer[c] # << >>
  /\ toPeer' = [toPeer EXCEPT ![c] = Tail(@)]
  /\ UNCHANGED <<opened, backlog, toApp, appOpen, peerOpen>>

ForeignClose(c) ==
  /\ peerOpen[c]
  /\ peerOpen' = [peerOpen EXCEPT ![c] = FALSE]
  /\ toPeer' = [toPeer EXCEPT ![c] = << >>]
  /\ UNCHANGED <<opened, backlog, toApp, appOpen>>

-----------------------------------------------------------------------------
\* The script can only connect while somebody listens.
ScriptNext ==
  \/ LuaConnect /\ tState # "Stopped" /\ UNCHANGED appVars
  \/ LuaHello /\ UNCHANGED appVars
  \/ LuaRequest /\ UNCHANGED appVars
  \/ LuaError /\ UNCHANGED appVars
  \/ LuaClose /\ UNCHANGED appVars
  \/ LuaUnexpected /\ UNCHANGED appVars
  \/ LuaDisconnected /\ UNCHANGED appVars
  \/ OnFrame /\ UNCHANGED appVars
  \/ RunOperation /\ UNCHANGED appVars
  \/ QueueResponse /\ UNCHANGED appVars
  \/ EndWork /\ UNCHANGED appVars
  \/ LuaFlush /\ UNCHANGED appVars
  \/ EndFrame /\ UNCHANGED appVars
  \/ LuaStop /\ UNCHANGED appVars
  \/ LuaRestart /\ UNCHANGED appVars

ForeignNext ==
  \/ ForeignConnect /\ UNCHANGED <<appVars, scriptVars>>
  \/ \E c \in Foreign : ForeignSend(c) /\ UNCHANGED <<appVars, scriptVars>>
  \/ \E c \in Foreign : ForeignRead(c) /\ UNCHANGED <<appVars, scriptVars>>
  \/ \E c \in Foreign : ForeignClose(c) /\ UNCHANGED <<appVars, scriptVars>>

Next ==
  \/ WorkerNext
  \/ ScriptNext
  \/ ForeignNext
  \/ \E c \in Conns : ResetConnection(c) /\ UNCHANGED <<appVars, scriptVars>>

Spec == Init /\ [][Next]_vars

-----------------------------------------------------------------------------
(* Properties *)

Holds(results, r) == \E i \in DOMAIN results : r \in results[i].reqs

\* Poll finds the callback for a result by its request ID alone, IDs start at 1
\* in every session, and the transport outlives sessions.  Still no callback is
\* ever given the answer to another request: a request completed with Ok was
\* completed by the frame that answers this very request (or by a client that
\* makes answers up).
AnswersMatch ==
  \A t \in Tags : outcome[t] = "Ok" => answeredBy[t] = t \/ (answeredBy[t] = NoTag /\ Foreign # {})

\* Every accepted request is completed exactly once: it is still pending in the
\* running session, or its completion has been called one time, through every
\* order of results, disconnects, port changes and shutdown.
CompletedOnce ==
  \A t \in 1..issued : calls[t] = (IF \E p \in sPending : p.tag = t THEN 0 ELSE 1)

\* A request the session waits for is never forgotten below it: the transport
\* still expects its result or has the result ready.  (If it were in neither
\* place its behaviour would wait forever.)
NoLostRequest ==
  \A p \in sPending : p \in tPending \/ Holds(tResults, p) \/ Holds(batch, p)

\* The transport's table never holds work of an earlier session while a session
\* runs, although closing a game does not clear it.
NoStaleWork == ~sStopped => tPending \subseteq sPending

\* Game memory sees the requests in the order in which they were submitted,
\* each at most once, across reconnects: nothing a lost session asked for runs
\* after the first request of the session that follows it.
RanInOrder == \A i, j \in DOMAIN ran : i < j => ran[i] < ran[j]

\* A write is reported as done only after the script has done it.
OkMeansRan ==
  \A t \in Tags : outcome[t] = "Ok" /\ answeredBy[t] = t => \E i \in DOMAIN ran : ran[i] = t

\* Two waiting requests never share an ID, also when IDs wrap around.
DistinctIds == \A p, q \in sPending : p.id = q.id => p = q

-----------------------------------------------------------------------------
(* The inductive invariant of the worker's side (proved in BridgeProofs). *)

\* The session's table and the calls of the completions.
SessionInv ==
  /\ sStopped => sPending = {}
  /\ \A p \in sPending : p.tag <= issued
  /\ \A p, q \in sPending : p.id = q.id \/ p.tag = q.tag => p = q
  /\ \A t \in Tags : t > issued => calls[t] = 0
  /\ CompletedOnce

\* Every result is about requests in `reqs`, and no request has two results.
About(results, reqs) ==
  /\ \A i \in DOMAIN results : results[i].reqs \subseteq reqs
  /\ \A i, j \in DOMAIN results : i # j => results[i].reqs \cap results[j].reqs = {}

\* Results that may be delivered while a session runs are about requests of
\* this session that the transport no longer waits for.
Deliverable(results) == About(results, sPending \ tPending)

\* An Ok result is about one request.
SingleOk(results) ==
  \A i \in DOMAIN results : results[i].status = "Ok" => \A p, q \in results[i].reqs : p = q

TableInv ==
  /\ NoStaleWork
  /\ ~sStopped => Deliverable(tResults) /\ Deliverable(batch)
  /\ SingleOk(tResults) /\ SingleOk(batch)
  /\ NoLostRequest

\* Why a new session finds the transport's table empty: the manager listens
\* only from a moment at which the transport was not connected, and nobody
\* submits while it listens.
ManagerInv ==
  /\ pc # "deliver" => batch = << >>
  /\ pc = "deliver" => tResults = << >>
  /\ active => ~listening
  /\ ~active => sStopped
  /\ tState # "Connected" \/ listening => tPending = {}

Inv == SessionInv /\ TableInv /\ ManagerInv
=============================================================================
