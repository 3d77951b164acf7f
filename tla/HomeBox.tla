------------------------------- MODULE HomeBox -------------------------------
(***************************************************************************)
(* Extended Storage: HomeBoxBehaviour moves whole boxes between the game   *)
(* and boxes.dat, seeing the game only through reads and writes that run   *)
(* in order, some time after they were requested (ObservedGameMemory, and  *)
(* module Bridge for why they run in order).  The player swaps boxes,      *)
(* leaves and reopens the screen; the connection or the app is lost at any *)
(* moment; saves fail.                                                     *)
(*                                                                         *)
(* The ROM headers have been read and are valid.  A box's Pokemon data is  *)
(* cut into the pieces that one write request carries.  A box is known by  *)
(* where each piece of it came from; box metadata always goes with it.     *)
(* Slots count from 1.                                                     *)
(***************************************************************************)
EXTENDS Naturals, Sequences, FiniteSets

CONSTANTS
  Local,            \* homeLocalBoxCount
  Remote,           \* homeTotalBoxCount - homeLocalBoxCount
  Pieces,           \* writes that make up one box: homeDestMonSize / 1024
  MaxOutstanding,   \* MaximumOutstandingMemoryRequests
  MaxOpens,         \* bound: times the player opens Extended Storage
  MaxSwaps,         \* bound: swaps the player makes
  MaxConnections    \* bound: game connections

ASSUME HomeBoxAssumption ==
  /\ Local \in Nat \ {0} /\ Remote \in Nat \ {0} /\ Pieces \in Nat \ {0}
  /\ MaxOutstanding \in Nat \ {0}
  /\ MaxOpens \in Nat /\ MaxSwaps \in Nat /\ MaxConnections \in Nat \ {0}

LocalSlots == 1..Local
Slots == 1..(Local + Remote)

\* The data of a box, piece by piece: the slot where each piece was at first.
\* Zeros stand for a box that has been asked for and not been read.
Boxes == [1..Pieces -> Slots]
Original(slot) == [k \in 1..Pieces |-> slot]
Blank == [k \in 1..Pieces |-> 0]
NoBox == [k \in 1..Pieces |-> Local + Remote + 1]

Identity == [i \in Slots |-> i]
Orders == {o \in [Slots -> Slots] : \A i, j \in Slots : i # j => o[i] # o[j]}
Fresh == [i \in Slots |-> 0]    \* the ROM's 255, before any session wrote an order
NoOrder == [i \in Slots |-> Local + Remote + 1]

\* Requests and their results: what is read or written, where, and the data.
PtrRead == [kind |-> "ptr", slot |-> 0, piece |-> 0, box |-> Blank]
StateRead == [kind |-> "state", slot |-> 0, piece |-> 0, box |-> Blank]
OrderWrite == [kind |-> "order", slot |-> 0, piece |-> 0, box |-> Blank]
MetaWrite(i) == [kind |-> "meta", slot |-> i, piece |-> 0, box |-> Blank]
BoxRead(i) == [kind |-> "box", slot |-> i, piece |-> 0, box |-> Blank]
PieceWrite(i, k, b) == [kind |-> "piece", slot |-> i, piece |-> k, box |-> b]

VARIABLES
  open, order, gBoxes,    \* the game: screen open, order array, local boxes
  file,                   \* the boxes in boxes.dat (see HomeBoxFile)
  sent, results,          \* requests not yet run, results not yet polled
  conn,                   \* the game connection: "up", "closing", "down"
  oPtr, oOrder, oBox,     \* ObservedGameMemory: pointer, state and box blobs
  attached,               \* HomeBoxBehaviour is attached
  hState, reopen,         \* m_State, m_RequiresReopen
  stored, active, idx,    \* m_StoredBoxData, m_ActiveBoxData, m_LocalActiveBoxIndices
  queue, nextPiece,       \* m_BoxWriteRequests: their slots, and the first piece of the front one not yet sent
  waiting,                \* m_WaitingForBoxWrite
  writeIndex,             \* m_InitialiseBoxWriteIndex: metadata still to be sent
  pending, retry,         \* m_HasPendingFileWrite; a save failed less than 5 s ago
  opens, swaps, conns,    \* bounds
  lost,                   \* history: a transfer was interrupted or could not be saved
  crossed                 \* history: a box was asked for while an earlier box read had no answer

gameVars == <<open, order, gBoxes, opens, swaps>>
observedVars == <<oPtr, oOrder, oBox>>
behaviourVars == <<attached, hState, reopen, stored, active, idx, queue, nextPiece, waiting, writeIndex, pending, retry>>
vars == <<gameVars, file, sent, results, conn, observedVars, behaviourVars, conns, lost, crossed>>

HStates == {"OpenOfflineFile", "InitialiseBoxData", "WaitingForBoxData", "SendGameDataInit", "WaitForInit", "Update"}

TypeOK ==
  /\ open \in BOOLEAN /\ order \in Orders \cup {Fresh} /\ gBoxes \in [LocalSlots -> Boxes]
  /\ file \in [1..Remote -> Boxes]
  /\ Len(sent) + Len(results) <= MaxOutstanding
  /\ conn \in {"up", "closing", "down"}
  /\ oPtr \in {"unread", "null", "set"}
  /\ oOrder \in Orders \cup {Fresh, NoOrder} /\ oBox \in Boxes \cup {NoBox}
  /\ attached \in BOOLEAN /\ reopen \in BOOLEAN /\ waiting \in BOOLEAN /\ pending \in BOOLEAN /\ retry \in BOOLEAN
  /\ hState \in HStates
  /\ stored \in Seq(Boxes) /\ Len(stored) \in {0, Remote}
  /\ active \in Seq(Boxes \cup {Blank}) /\ Len(active) <= Local + Remote
  /\ idx \in Orders
  /\ queue \subseteq LocalSlots /\ nextPiece \in 1..(Pieces + 1)
  /\ writeIndex \in 1..(Local + Remote + 1)
  /\ opens \in 0..MaxOpens /\ swaps \in 0..MaxSwaps /\ conns \in 0..MaxConnections
  /\ lost \in BOOLEAN /\ crossed \in BOOLEAN

\* OnAttach's fields
BlankBehaviour ==
  /\ hState' = "OpenOfflineFile" /\ reopen' = FALSE
  /\ stored' = << >> /\ active' = << >> /\ idx' = Identity
  /\ queue' = {} /\ nextPiece' = 1 /\ waiting' = FALSE /\ writeIndex' = 1
  /\ pending' = FALSE /\ retry' = FALSE

Init ==
  /\ open = FALSE /\ order = Fresh /\ gBoxes = [i \in LocalSlots |-> Original(i)]
  /\ file = [j \in 1..Remote |-> Original(Local + j)]
  /\ sent = << >> /\ results = << >>
  /\ conn = "up"
  /\ oPtr = "unread" /\ oOrder = NoOrder /\ oBox = NoBox
  /\ attached = FALSE /\ hState = "OpenOfflineFile" /\ reopen = FALSE
  /\ stored = << >> /\ active = << >> /\ idx = Identity
  /\ queue = {} /\ nextPiece = 1 /\ waiting = FALSE /\ writeIndex = 1
  /\ pending = FALSE /\ retry = FALSE
  /\ opens = 0 /\ swaps = 0 /\ conns = 1
  /\ lost = FALSE /\ crossed = FALSE

-----------------------------------------------------------------------------
(* The game and its player. *)

OpenScreen ==
  /\ ~open /\ opens < MaxOpens
  /\ open' = TRUE /\ order' = Fresh /\ opens' = opens + 1
  /\ UNCHANGED <<gBoxes, swaps, file, sent, results, conn, observedVars, behaviourVars, conns, lost, crossed>>

CloseScreen ==
  /\ open /\ open' = FALSE
  /\ UNCHANGED <<order, gBoxes, opens, swaps, file, sent, results, conn, observedVars, behaviourVars, conns, lost, crossed>>

Swap(i, j) ==
  /\ open /\ order # Fresh /\ swaps < MaxSwaps
  /\ order' = [order EXCEPT ![i] = order[j], ![j] = order[i]]
  /\ swaps' = swaps + 1
  /\ UNCHANGED <<open, gBoxes, opens, file, sent, results, conn, observedVars, behaviourVars, conns, lost, crossed>>

\* The script runs the oldest request.  State memory keeps its bytes while the
\* screen is closed.
Execute ==
  /\ sent # << >>
  /\ LET r == Head(sent)
         answer == CASE r.kind = "ptr" -> [r EXCEPT !.slot = IF open THEN 1 ELSE 0]
                     [] r.kind = "box" -> [r EXCEPT !.box = gBoxes[r.slot]]
                     [] OTHER -> r
     IN
     /\ order' = IF r.kind = "order" THEN Identity ELSE order
     /\ gBoxes' = IF r.kind = "piece" THEN [gBoxes EXCEPT ![r.slot][r.piece] = r.box[r.piece]] ELSE gBoxes
     /\ results' = IF conn = "up" THEN Append(results, [answer |-> answer, order |-> order]) ELSE results
  /\ sent' = Tail(sent)
  /\ UNCHANGED <<open, opens, swaps, file, conn, observedVars, behaviourVars, conns, lost, crossed>>

-----------------------------------------------------------------------------
(* Observation and the callbacks of writes. *)

\* ObservedGameMemory::OnRecieveMessage, or the callback of a piece's write,
\* which only the behaviour that sent it still has.
Deliver ==
  /\ conn = "up" /\ results # << >>
  /\ LET res == Head(results) IN
     /\ oPtr' = IF res.answer.kind = "ptr" THEN (IF res.answer.slot = 1 THEN "set" ELSE "null") ELSE oPtr
     /\ oOrder' = IF res.answer.kind = "state" THEN res.order ELSE oOrder
     /\ oBox' = IF res.answer.kind = "box" THEN res.answer.box ELSE oBox
     /\ waiting' = (waiting /\ res.answer.kind # "piece")
  /\ results' = Tail(results)
  /\ UNCHANGED <<gameVars, file, sent, conn, conns, lost, crossed>>
  /\ UNCHANGED <<attached, hState, reopen, stored, active, idx, queue, nextPiece, writeIndex, pending, retry>>

IsHomeBoxStateValid == oPtr = "set" /\ oOrder # NoOrder

\* GameSession::Submit: `q` with one more request, if there is room.
HasRoom(q) == Len(q) + Len(results) < MaxOutstanding
Offer(q, r) == IF HasRoom(q) THEN Append(q, r) ELSE q

\* What ObservedGameMemory::Update asks for.
Observing == IF oPtr = "set" THEN Offer(Offer(sent, PtrRead), StateRead) ELSE Offer(sent, PtrRead)
Clears == HasRoom(sent) /\ oPtr # "set"

-----------------------------------------------------------------------------
(* Saving. *)

\* The records HandlePendingFileWrite collects.
Records == [j \in 1..Remote |-> active[idx[Local + j]]]

\* Mutant: a save does not wait for the writes.
SaveAtOnce(writes, force, outcome) ==
  /\ \/ outcome = "none" /\ (~pending \/ (retry /\ ~force))
     \/ outcome \in {"saved", "failed"} /\ pending
  /\ file' = IF outcome = "saved" THEN Records ELSE file

\* HandlePendingFileWrite once no write of `writes` is open.  A failed attempt
\* is not repeated for 5 seconds, unless `force` is set.
HandlePendingFileWrite(writes, force, outcome) ==
  LET due == pending /\ writes = {} IN
  /\ \/ outcome = "none" /\ (~due \/ (retry /\ ~force))
     \/ outcome \in {"saved", "failed"} /\ due
  /\ file' = IF outcome = "saved" THEN Records ELSE file

Outcomes == {"none", "saved", "failed"}

\* Boxes are queued in the order of their slots, and only into an empty queue.
Front == CHOOSE i \in queue : \A j \in queue : i <= j

\* Mutant: a box counts as written when its last piece has been sent.
UnfinishedSent == IF queue # {} /\ nextPiece > Pieces THEN queue \ {Front} ELSE queue

\* After the last result a box's write may be complete and still queued.
Unfinished == IF ~waiting /\ queue # {} /\ nextPiece > Pieces THEN queue \ {Front} ELSE queue

\* OnDetach: any other open write means that the transfer was interrupted.
OnDetach ==
  /\ IF Unfinished # {}
     THEN lost' = TRUE /\ UNCHANGED file
     ELSE \E outcome \in Outcomes :
            /\ HandlePendingFileWrite(Unfinished, TRUE, outcome)
            /\ lost' = (lost \/ outcome = "failed")
  /\ attached' = FALSE
  /\ BlankBehaviour

-----------------------------------------------------------------------------
(* HomeBoxBehaviour::OnUpdate, by m_State: `q` is what has been sent before. *)

\* Mutant: a screen that is in use is set up again.
OpenAnyScreen(q) ==
  /\ hState = "OpenOfflineFile"
  /\ stored' = file
  /\ hState' = "InitialiseBoxData"
  /\ writeIndex' = Local + 1
  /\ sent' = q
  /\ UNCHANGED <<conn, oBox, reopen, active, idx, queue, nextPiece, waiting>>

OpenOfflineFile(q) ==
  /\ hState = "OpenOfflineFile"
  /\ \/ /\ oOrder # Fresh         \* another session has set this screen up
        /\ reopen' = TRUE
        /\ UNCHANGED <<hState, stored, writeIndex, conn>>
     \/ /\ oOrder = Fresh         \* LoadOfflineData
        /\ stored' = file
        /\ hState' = "InitialiseBoxData"
        /\ writeIndex' = Local + 1
        /\ UNCHANGED <<reopen, conn>>
     \/ /\ oOrder = Fresh         \* boxes.dat cannot be used
        /\ conn' = "closing"
        /\ UNCHANGED <<hState, reopen, stored, writeIndex>>
  /\ sent' = q
  /\ UNCHANGED <<oBox, active, idx, queue, nextPiece, waiting>>

\* Mutant: the blob of the box before is not cleared.
InitialiseWithOldBlob(q) ==
  /\ hState = "InitialiseBoxData"
  /\ IF Len(active) < Local
     THEN /\ sent' = Offer(q, BoxRead(Len(active) + 1))
          /\ active' = IF HasRoom(q) THEN Append(active, Blank) ELSE active
          /\ hState' = IF HasRoom(q) THEN "WaitingForBoxData" ELSE hState
     ELSE active' = active \o stored /\ hState' = "SendGameDataInit" /\ sent' = q
  /\ UNCHANGED <<conn, reopen, stored, idx, queue, nextPiece, waiting, writeIndex, oBox>>

InitialiseBoxData(q) ==
  /\ hState = "InitialiseBoxData"
  /\ IF Len(active) < Local
     THEN /\ oBox' = NoBox        \* RequestPokemonStorageData
          /\ sent' = Offer(q, BoxRead(Len(active) + 1))
          /\ active' = IF HasRoom(q) THEN Append(active, Blank) ELSE active
          /\ hState' = IF HasRoom(q) THEN "WaitingForBoxData" ELSE hState
     ELSE /\ active' = active \o stored
          /\ hState' = "SendGameDataInit"
          /\ sent' = q
          /\ UNCHANGED oBox
  /\ UNCHANGED <<conn, reopen, stored, idx, queue, nextPiece, waiting, writeIndex>>

WaitingForBoxData(q) ==
  /\ hState = "WaitingForBoxData"
  /\ IF oBox # NoBox
     THEN active' = [active EXCEPT ![Len(active)] = oBox] /\ hState' = "InitialiseBoxData"
     ELSE UNCHANGED <<active, hState>>
  /\ sent' = q
  /\ UNCHANGED <<conn, reopen, stored, idx, queue, nextPiece, waiting, writeIndex, oBox>>

\* Mutant: one box too many.
MetadataLeftOver(n) == n <= Local + Remote + 1

MetadataLeft(n) == n <= Local + Remote

\* One box's metadata in every update; the order follows the last of them.
SendGameDataInit(q) ==
  /\ hState = "SendGameDataInit"
  /\ LET metadata == MetadataLeft(writeIndex)
         q1 == IF metadata THEN Offer(q, MetaWrite(writeIndex)) ELSE q
         next == IF metadata /\ HasRoom(q) THEN writeIndex + 1 ELSE writeIndex
     IN
     /\ writeIndex' = next
     /\ IF MetadataLeft(next)
        THEN sent' = q1 /\ UNCHANGED <<idx, hState>>
        ELSE /\ idx' = Identity
             /\ sent' = Offer(q1, OrderWrite)
             /\ hState' = IF HasRoom(q1) THEN "WaitForInit" ELSE hState
  /\ UNCHANGED <<conn, reopen, stored, active, queue, nextPiece, waiting, oBox>>

WaitForInit(q) ==
  /\ hState = "WaitForInit"
  /\ hState' = IF oOrder # Fresh THEN "Update" ELSE hState
  /\ sent' = q
  /\ UNCHANGED <<conn, reopen, stored, active, idx, queue, nextPiece, waiting, writeIndex, oBox>>

\* Mutant: a refused write is waited for as well.
PumpAndWait(q) ==
  /\ hState = "Update" /\ queue # {}
  /\ LET sends == ~waiting /\ nextPiece <= Pieces /\ HasRoom(q)
         written == ~waiting /\ nextPiece > Pieces
     IN
     /\ queue' = IF written THEN queue \ {Front} ELSE queue
     /\ nextPiece' = IF written THEN 1 ELSE IF sends THEN nextPiece + 1 ELSE nextPiece
     /\ sent' = IF sends THEN Append(q, PieceWrite(Front, nextPiece, active[idx[Front]])) ELSE q
     /\ waiting' = (waiting \/ nextPiece <= Pieces)
  /\ UNCHANGED <<conn, hState, reopen, stored, active, idx, writeIndex, oBox>>

\* PumpWriteMonBox with a box to write: at most one piece is on its way.
PumpWriteMonBox(q) ==
  /\ hState = "Update" /\ queue # {}
  /\ LET sends == ~waiting /\ nextPiece <= Pieces /\ HasRoom(q)
         written == ~waiting /\ nextPiece > Pieces
     IN
     /\ queue' = IF written THEN queue \ {Front} ELSE queue
     /\ nextPiece' = IF written THEN 1 ELSE IF sends THEN nextPiece + 1 ELSE nextPiece
     /\ sent' = IF sends THEN Append(q, PieceWrite(Front, nextPiece, active[idx[Front]])) ELSE q
     /\ waiting' = (waiting \/ sends)
  /\ UNCHANGED <<conn, hState, reopen, stored, active, idx, writeIndex, oBox>>

\* Otherwise, follow the order the player has made.  An order that is no
\* permutation (the screen was reopened unnoticed) ends the connection.
FollowOrder(q) ==
  /\ hState = "Update" /\ queue = {}
  /\ IF oOrder = Fresh
     THEN conn' = "closing" /\ UNCHANGED <<idx, queue>>
     ELSE /\ idx' = oOrder
          /\ queue' = {i \in LocalSlots : oOrder[i] # idx[i]}
          /\ UNCHANGED conn
  /\ sent' = q
  /\ UNCHANGED <<hState, reopen, stored, active, nextPiece, waiting, writeIndex, oBox>>

OnUpdate(q) ==
  \/ /\ reopen
     /\ sent' = q
     /\ UNCHANGED <<file, conn, oBox, hState, reopen, stored, active, idx, queue, nextPiece, waiting, writeIndex, pending, retry>>
  \/ /\ ~reopen
     /\ \/ OpenOfflineFile(q) \/ InitialiseBoxData(q) \/ WaitingForBoxData(q)
        \/ SendGameDataInit(q) \/ WaitForInit(q)
        \/ PumpWriteMonBox(q) \/ FollowOrder(q)
     /\ \E outcome \in Outcomes :
          /\ HandlePendingFileWrite(queue, FALSE, outcome)
          /\ pending' = ((pending /\ outcome # "saved") \/ idx' # idx)
          /\ retry' = ((retry /\ outcome = "none") \/ outcome = "failed")

-----------------------------------------------------------------------------
(* GameConnection::Update with CommonBehaviour: observe, attach or detach the *)
(* behaviour, or let it work.                                                *)

Observe ==
  /\ oOrder' = IF Clears THEN NoOrder ELSE oOrder
  /\ oBox' = IF Clears THEN NoBox ELSE oBox
  /\ UNCHANGED <<gameVars, results, oPtr, conns>>

Attach ==
  /\ conn = "up" /\ ~attached /\ IsHomeBoxStateValid
  /\ Observe /\ sent' = Observing
  /\ attached' = TRUE /\ BlankBehaviour
  /\ UNCHANGED <<file, conn, lost, crossed>>

Detach ==
  /\ conn = "up" /\ attached /\ ~IsHomeBoxStateValid
  /\ Observe /\ sent' = Observing
  /\ OnDetach
  /\ UNCHANGED <<conn, crossed>>

TickWithoutBox ==
  /\ conn = "up" /\ ~attached /\ ~IsHomeBoxStateValid
  /\ Observe /\ sent' = Observing
  /\ UNCHANGED <<file, conn, behaviourVars, lost, crossed>>

\* A box's data is not known by its box: OnRecieveMessage takes the answer to an
\* earlier read, of another box and another screen, for the one that is waited for.
BoxReadUnderWay ==
  \/ \E i \in DOMAIN sent : sent[i].kind = "box"
  \/ \E i \in DOMAIN results : results[i].answer.kind = "box"

TickWithBox ==
  /\ conn = "up" /\ attached /\ IsHomeBoxStateValid
  /\ OnUpdate(Observing)
  /\ crossed' = (crossed \/ (Len(active') > Len(active) /\ hState' = "WaitingForBoxData" /\ BoxReadUnderWay))
  /\ UNCHANGED <<gameVars, results, oPtr, oOrder, conns, attached, lost>>

Tick == Attach \/ Detach \/ TickWithoutBox \/ TickWithBox

\* The transport is found disconnected.
LoseConnection ==
  /\ conn = "up" /\ conn' = "closing"
  /\ UNCHANGED <<gameVars, file, sent, results, observedVars, behaviourVars, conns, lost, crossed>>

\* GameConnection::Disconnect.  What was sent may still run.
Disconnect ==
  /\ conn = "closing" /\ conn' = "down"
  /\ results' = << >>
  /\ IF attached THEN OnDetach ELSE UNCHANGED <<file, behaviourVars, lost>>
  /\ oPtr' = "unread" /\ oOrder' = NoOrder /\ oBox' = NoBox
  /\ UNCHANGED <<gameVars, sent, conns, crossed>>

\* The app is killed: nothing is detached.
Crash ==
  /\ conn = "up" /\ conn' = "down"
  /\ results' = << >>
  /\ attached' = FALSE /\ BlankBehaviour
  /\ lost' = (lost \/ pending)
  /\ oPtr' = "unread" /\ oOrder' = NoOrder /\ oBox' = NoBox
  /\ UNCHANGED <<gameVars, file, sent, conns, crossed>>

\* The script has closed its old socket, and with it what had not run.
Reconnect ==
  /\ conn = "down" /\ conns < MaxConnections
  /\ conn' = "up" /\ conns' = conns + 1
  /\ sent' = << >>
  /\ UNCHANGED <<gameVars, file, results, observedVars, behaviourVars, lost, crossed>>

Next ==
  \/ OpenScreen \/ CloseScreen
  \/ \E i, j \in Slots : i < j /\ Swap(i, j)
  \/ Execute \/ Deliver \/ Tick
  \/ LoseConnection \/ Disconnect \/ Crash \/ Reconnect

Spec == Init /\ [][Next]_vars

\* The emulator runs, the worker polls and ticks every few milliseconds, and a
\* disk that is tried again and again takes a save.
Fairness ==
  /\ WF_vars(Execute) /\ WF_vars(Deliver) /\ WF_vars(Tick) /\ WF_vars(Disconnect)
  /\ SF_vars(TickWithBox /\ pending /\ ~pending')

FairSpec == Spec /\ Fairness

-----------------------------------------------------------------------------
(* Properties *)

\* A swap the assistant has seen does not stay unsaved: its box writes all get
\* through, one confirmed piece after another, and then the file is saved, or
\* the session ends (PumpWriteMonBox, HandlePendingFileWrite).  This takes a
\* game that keeps up: the reads of every tick come before the behaviour's
\* writes and could take all the room there is.
KeepsUp == []<>(sent = << >> /\ results = << >>)
EventuallySaved == KeepsUp => (pending ~> ~pending)

Held == {gBoxes[i] : i \in LocalSlots} \cup {file[j] : j \in 1..Remote}

\* No Pokemon is lost or doubled: whenever no transfer waits for its save, the
\* game and boxes.dat hold every box, whole, exactly once - after any swaps,
\* reopened screens, disconnects, crashes and failed saves, unless a transfer
\* was cut off before its file was saved.  (The app cannot tell a late answer to
\* an earlier screen's box read from the one it waits for: see BoxReadUnderWay.)
NothingLost == ~lost /\ ~crossed /\ ~pending => Held = {Original(i) : i \in Slots}

\* boxes.dat changes only when the game has all the boxes that the saved order
\* gives to it, also while old writes are on their way (HandlePendingFileWrite
\* waits for the confirmation of every piece).
SavedAfterGame == [][file' # file /\ ~crossed => \A i \in LocalSlots : gBoxes[i] = active[idx[i]]]_vars

\* The boxes a session works with are the ones the game has, although an
\* earlier screen's reads and writes may still have been on their way when this
\* one was opened, and box reads too until the session asks for a box; from then
\* on a late one can be taken for the session's own (see BoxReadUnderWay).
CapturedRight ==
  ~crossed /\ hState \in {"SendGameDataInit", "WaitForInit"} => \A i \in LocalSlots : active[i] = gBoxes[i]

\* While a screen is open, an order the player has made on it is not overwritten
\* by the order a session starts with, whatever sessions come and go (the comment
\* on m_RequiresReopen).  Within one opening only, MaxOpens = 1: across a fast
\* close and reopen a late read of the old screen makes it happen.
OrderKept == [][order' = Identity /\ order \notin {Fresh, Identity} => swaps' = swaps + 1]_vars
=============================================================================
