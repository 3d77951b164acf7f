------------------------------ MODULE MgbaScript ------------------------------
(***************************************************************************)
(* The Lua script inside mGBA (Assets/RogueAssistant_mGBA.lua): it keeps   *)
(* one connection to the assistant, queues the memory work it is asked for *)
(* and does a bounded part of it in every emulated frame.  mGBA calls it   *)
(* back on one thread, so onFrame and receiveAvailable never overlap.      *)
(***************************************************************************)
EXTENDS BridgeWire

CONSTANTS
  MaxOps,         \* capacity of the operation queue (MAX_QUEUE_FRAMES / MAX_QUEUE_BYTES)
  MaxOutgoing     \* capacity of the send queue

ASSUME ScriptAssumption == MaxOps \in Nat \ {0} /\ MaxOutgoing \in Nat \ {0}

VARIABLES
  phase,        \* state.phase
  lStopped,     \* state.stopped
  sock,         \* state.socket: its connection, NoConn for nil
  operations,   \* state.operations
  outgoing,     \* state.outgoing
  luaAt,        \* where onFrame is: "idle" outside it, "work", then "flush"
  ran           \* history: tags of the operations that touched game memory, in order

scriptVars == <<phase, lStopped, sock, operations, outgoing, luaAt, ran>>

\* How far an operation is: untouched, partly done in an earlier frame, or with
\* its response prepared.
Operations == [req : Requests, at : {"new", "partial", "done", "failed"}]

ScriptTypeOK ==
  /\ phase \in {"disconnected", "awaiting_hello", "connected", "closing"}
  /\ lStopped \in BOOLEAN
  /\ sock \in Conns \cup {NoConn}
  /\ operations \in Seq(Operations)
  /\ outgoing \in Seq(Frames)
  /\ luaAt \in {"idle", "work", "flush"}
  /\ ran \in Seq(Tags)

\* onFrame works on the socket it found open.
InFrame == luaAt # "idle" => sock # NoConn

ScriptInit ==
  /\ phase = "disconnected"
  /\ lStopped = FALSE
  /\ sock = NoConn
  /\ operations = << >> /\ outgoing = << >>
  /\ luaAt = "idle"
  /\ ran = << >>

-----------------------------------------------------------------------------
\* Mutant: the operations of the old connection stay queued.
CloseSocketOnly ==
  /\ sock' = NoConn /\ phase' = "disconnected"
  /\ outgoing' = << >> /\ UNCHANGED operations
  /\ peerOpen' = [peerOpen EXCEPT ![sock] = FALSE]
  /\ toPeer' = [toPeer EXCEPT ![sock] = << >>]

\* closeSocket, and failConnection, which only adds a message.  What has
\* arrived and was not read is lost.
CloseSocket ==
  /\ sock' = NoConn /\ phase' = "disconnected"
  /\ operations' = << >> /\ outgoing' = << >>
  /\ peerOpen' = [peerOpen EXCEPT ![sock] = FALSE]
  /\ toPeer' = [toPeer EXCEPT ![sock] = << >>]

\* connect, from onFrame.  A client hello is the first thing it sends.
LuaConnect ==
  /\ luaAt = "idle" /\ ~lStopped /\ sock = NoConn
  /\ \E c \in Conns \ Foreign : OpenConnection(c) /\ sock' = c
  /\ phase' = "awaiting_hello"
  /\ outgoing' = <<Control("ClientHello")>>
  /\ UNCHANGED <<lStopped, operations, luaAt, ran>>

-----------------------------------------------------------------------------
\* receiveAvailable, one frame.
LuaArriving ==
  /\ luaAt = "idle" /\ sock # NoConn /\ toPeer[sock] # << >>
  /\ UNCHANGED <<opened, backlog, toApp, appOpen, lStopped, luaAt, ran>>
LuaFrame == Head(toPeer[sock])
LuaTake == toPeer' = [toPeer EXCEPT ![sock] = Tail(@)] /\ UNCHANGED <<sock, peerOpen>>

\* The send queue takes all of `frames`, and the script goes on in phase `next`,
\* or the script gives the connection up.
QueueOrFail(frames, next) ==
  IF Len(outgoing) + Len(frames) <= MaxOutgoing
  THEN /\ LuaTake
       /\ outgoing' = outgoing \o frames
       /\ phase' = next
       /\ UNCHANGED operations
  ELSE CloseSocket

\* beginProtocolClose
LuaProtocolClose == QueueOrFail(<<Control("Error"), Control("Close")>>, "closing")

LuaHello ==
  /\ LuaArriving /\ phase = "awaiting_hello" /\ LuaFrame.type \in {"ServerHello", "Rejected"}
  /\ LuaTake
  /\ phase' = IF LuaFrame.type = "ServerHello" THEN "connected" ELSE "closing"
  /\ UNCHANGED <<operations, outgoing>>

\* Mutant: the newest request goes first.
LuaRequestFirst ==
  /\ LuaArriving /\ phase = "connected" /\ LuaFrame.type = "Request"
  /\ LET r == [id |-> LuaFrame.id, op |-> LuaFrame.op, tag |-> LuaFrame.tag] IN
     IF Len(operations) < MaxOps
     THEN /\ LuaTake
          /\ operations' = <<[req |-> r, at |-> "new"]>> \o operations
          /\ UNCHANGED <<phase, outgoing>>
     ELSE QueueOrFail(<<Work("Error", r)>>, phase)

\* A read or write request and enqueueOperation; an operation that does not fit
\* is answered with an error.  The script checks the address and size with the
\* table the assistant has already used, so that check never fails here.
LuaRequest ==
  /\ LuaArriving /\ phase = "connected" /\ LuaFrame.type = "Request"
  /\ LET r == [id |-> LuaFrame.id, op |-> LuaFrame.op, tag |-> LuaFrame.tag] IN
     IF Len(operations) < MaxOps
     THEN /\ LuaTake
          /\ operations' = Append(operations, [req |-> r, at |-> "new"])
          /\ UNCHANGED <<phase, outgoing>>
     ELSE QueueOrFail(<<Work("Error", r)>>, phase)

\* Only an error about the connection as a whole ends it.
LuaError ==
  /\ LuaArriving /\ phase # "awaiting_hello" /\ LuaFrame.type = "Error"
  /\ LuaTake
  /\ phase' = IF LuaFrame.id = 0 THEN "closing" ELSE phase
  /\ UNCHANGED <<operations, outgoing>>

LuaClose ==
  /\ LuaArriving /\ phase # "awaiting_hello" /\ LuaFrame.type = "Close"
  /\ QueueOrFail(<<Control("Close")>>, "closing")

\* What the script understands in each phase; anything else ends the connection.
Expected == [awaiting_hello |-> {"ServerHello", "Rejected"},
             connected |-> {"Request", "Error", "Close"},
             closing |-> {"Error", "Close"}]

LuaUnexpected ==
  /\ LuaArriving /\ LuaFrame.type \notin Expected[phase]
  /\ LuaProtocolClose

\* Receive reports the end of the stream or an error.
LuaDisconnected ==
  /\ luaAt = "idle" /\ sock # NoConn /\ toPeer[sock] = << >> /\ ~appOpen[sock]
  /\ CloseSocket
  /\ UNCHANGED <<lStopped, luaAt, ran, opened, backlog, toApp, appOpen>>

-----------------------------------------------------------------------------
\* onFrame with a socket: processOperations, flushOutgoing, and the end of an
\* orderly close.
OnFrame ==
  /\ luaAt = "idle" /\ ~lStopped /\ sock # NoConn
  /\ luaAt' = IF phase = "connected" THEN "work" ELSE "flush"
  /\ UNCHANGED <<phase, lStopped, sock, operations, outgoing, ran, wireVars>>

AtHead(at) == luaAt = "work" /\ operations # << >> /\ Head(operations).at \in at

\* One pass of the loop over the head operation: mGBA's memory is read or
\* written, all of it or as much as this frame's budget allows.
RunOperation ==
  /\ AtHead({"new", "partial"})
  /\ \E at \in {"partial", "done", "failed"} : operations' = [operations EXCEPT ![1].at = at]
  /\ ran' = IF Head(operations).at = "new" THEN Append(ran, Head(operations).req.tag) ELSE ran
  /\ UNCHANGED <<phase, lStopped, sock, outgoing, luaAt, wireVars>>

\* Mutant: work is acknowledged before it is done.
QueueResponseEarly ==
  /\ AtHead({"new", "done", "failed"}) /\ Len(outgoing) < MaxOutgoing
  /\ LET o == Head(operations) IN
     outgoing' = Append(outgoing, Work(IF o.at = "failed" THEN "Error" ELSE "Result", o.req))
  /\ operations' = Tail(operations)
  /\ UNCHANGED <<phase, lStopped, sock, luaAt, ran, wireVars>>

\* A prepared response moves to the send queue once there is room.
QueueResponse ==
  /\ AtHead({"done", "failed"}) /\ Len(outgoing) < MaxOutgoing
  /\ LET o == Head(operations) IN
     outgoing' = Append(outgoing, Work(IF o.at = "done" THEN "Result" ELSE "Error", o.req))
  /\ operations' = Tail(operations)
  /\ UNCHANGED <<phase, lStopped, sock, luaAt, ran, wireVars>>

\* The loop ends: no operation, no room for a response, or the frame's budget
\* (64 operations, 256 KiB), which is not counted here, is spent.
EndWork ==
  /\ luaAt = "work"
  /\ luaAt' = "flush"
  /\ UNCHANGED <<phase, lStopped, sock, operations, outgoing, ran, wireVars>>

LuaFlush ==
  /\ luaAt = "flush" /\ outgoing # << >> /\ Len(toApp[sock]) < WireCap
  /\ toApp' = IF appOpen[sock] THEN [toApp EXCEPT ![sock] = Append(@, Head(outgoing))] ELSE toApp
  /\ outgoing' = Tail(outgoing)
  /\ UNCHANGED <<phase, lStopped, sock, operations, luaAt, ran>>
  /\ UNCHANGED <<opened, backlog, toPeer, appOpen, peerOpen>>

\* flushOutgoing stops (would block, error, all sent) and onFrame returns.
EndFrame ==
  /\ luaAt = "flush" /\ luaAt' = "idle"
  /\ \/ ~appOpen[sock] /\ outgoing # << >> /\ CloseSocket
     \/ phase = "closing" /\ outgoing = << >> /\ CloseSocket
     \/ ~(phase = "closing" /\ outgoing = << >>)
          /\ UNCHANGED <<phase, sock, operations, outgoing, toPeer, peerOpen>>
  /\ UNCHANGED <<lStopped, ran, opened, backlog, toApp, appOpen>>

-----------------------------------------------------------------------------
\* mGBA's stop and shutdown callbacks: say Close if the queue takes it, send
\* what the socket takes now, and close.
LuaStop ==
  /\ luaAt = "idle" /\ ~lStopped
  /\ lStopped' = TRUE
  /\ IF sock = NoConn THEN UNCHANGED <<phase, sock, operations, outgoing, toApp, toPeer, peerOpen>>
     ELSE LET last == IF Len(outgoing) < MaxOutgoing THEN Append(outgoing, Control("Close")) ELSE outgoing IN
          /\ \E n \in 0..Len(last) :
               toApp' = IF appOpen[sock] THEN [toApp EXCEPT ![sock] = @ \o SubSeq(last, 1, n)] ELSE toApp
          /\ CloseSocket
  /\ UNCHANGED <<luaAt, ran, opened, backlog, appOpen>>

\* mGBA's start and reset callbacks.
LuaRestart ==
  /\ luaAt = "idle" /\ (lStopped \/ sock # NoConn)
  /\ lStopped' = FALSE
  /\ IF sock = NoConn THEN UNCHANGED <<phase, sock, operations, outgoing, toPeer, peerOpen>> ELSE CloseSocket
  /\ UNCHANGED <<luaAt, ran, opened, backlog, toApp, appOpen>>
=============================================================================
