# Rogue Assistant in TLA+

Models, model-checking runs and machine-checked proofs for Rogue Assistant
(`src/RogueAssistantCpp`), the desktop program that talks to Pokemon Emerald
Rogue running in mGBA. The modules follow the source; `PROJECT.json` maps every
definition to its lines.

## 1. The system

Three programs take part. **mGBA** runs the game and the bridge script
(`Assets/RogueAssistant_mGBA.lua`), which reads and writes game memory on request.
The **assistant** listens on a local TCP port and runs two threads: the main
thread draws the window, the worker thread does everything else. A **remote
assistant** may be connected over ENet for multiplayer.

| Component | State | Operations | Meets |
|---|---|---|---|
| Bridge script (Lua) | socket, decoder, operation queue, send queue, a response that did not fit | connect, receive, run operations once per frame, flush, stop, restart | TcpLuaTransport, by TCP |
| Frame codec (`FrameWriter`, `FrameDecoder`) | queued frames, offset in the first, byte counts; partial frame, unread frames, error | Queue, ConsumeSent, Reset; Append, TakeFrames | the two ends of the stream |
| `TcpLuaTransport` | state, client, closing peers, pending requests, results | PollResults (accept, receive, flush), Submit, Stop | sockets below, GameSession and the manager above |
| `GameSession` | next ID, pending callbacks, stopped | Submit, Poll, Stop | transport below, behaviours above |
| `GameConnectionManager`, `GameConnection` | active game, listening flag, port, list of behaviours and those to remove | Start, Tick, commands, port change, Stop; Update, Disconnect, requests, adding and removing behaviours | all of the above |
| `ObservedGameMemory`, `CommonBehaviour` | the ROM's headers, pointers and states as last read; weak pointers to two behaviours | Update, Clear; check and confirm the ROM, attach and remove behaviours | GameConnection |
| Range and layout checks | none | IsRangeAllowed, ValidateMultiplayerLayout, ValidateHomeBoxLayout | every request and both behaviours |
| `UpdateTimer` | time kept | Update | GameConnection |
| `HomeBoxBehaviour` | phase, boxes, order, writes under way, pending save | OnAttach, OnUpdate, OnDetach | game memory, Home Box files |
| Home Box files | `boxes.dat`, `boxes.dat.bak`, a temporary sibling | LoadHomeBoxFile, SaveHomeBoxFile, WriteFileAtomically | the file system |
| `SessionWorker` | command queue, stop flag, snapshot, failure | Submit, Stop, the worker's loop | UI and runtime |
| `UserData`, settings, old data | settings, dirty flag, may-write flag; `settings.ini`, the data folder, the exported script | Init (import, folders, load), set, save; export | the manager, the file system |
| `MultiplayerBehaviour` | host and peer, handshakes, deadlines, player profiles | hello, ROM handshake, broadcast, disconnect | ENet and game memory |

What is hard here:

* **Identity across sessions.** Callbacks are found by a request ID that starts
  again at 1 for every game, above a transport object that outlives games. An old
  answer would complete a new request if anything survived.
* **Re-entrancy.** A failed completion disconnects the game from inside
  `GameSession::Poll`, which completes all other requests while results are
  still being iterated.
* **Limits on both sides.** Operation queue, send queue, unread frames,
  outstanding requests and closing peers are bounded, and each overflow is handled.
* **Transfers over many ticks.** A swap of boxes is two lots of memory writes in
  pieces and a file save. The player, the connection or the app may go away between any two.
* **Files.** A save is two atomic replacements, each of which fails or is cut off on
  its own. Settings outlive the run, and so does what a crash in the middle of the import leaves behind.
* **Peers over ENet.** Messages are ordered within a channel only, peer slots are used again, and a
  handshake goes through two games' memories over many updates in which either side may leave.
* **A game that changes its mind.** Pointers, request flags and screens change while reads of them are under way, behaviours
  are removed and attached while a list of them is being worked through, and any step of it may end the connection. Every address, offset and size comes from the ROM.
* **Two threads.** A queue, a condition variable whose notification is sent
  without the mutex, and exceptions in each phase.

What makes each component correct is stated in section 3; the full list of hazards, each
at its line, is `hazards` in `PROJECT.json`.

## 2. Modules

```
BridgeWire <- TcpLuaTransport <- GameSession --+
          \                                     >-- Bridge <- BridgeProofs
           +-- MgbaScript ---------------------+
FrameStream <- FrameStreamProofs   (bytes below BridgeWire's frames)
DurableStore <- HomeBoxFile <- HomeBoxFileProofs
HomeBox <- HomeBoxProofs        (above Bridge and HomeBoxFile)
GameMemory <- GameConnection <- GameConnectionProofs   (above Bridge; attaches HomeBox and Multiplayer)
                            \
                             +- MCGameConnection
UpdateTimer                     (when GameConnection updates; with its proof)
AppData <- SessionWorker <- SessionWorkerProofs
EnetLink <- MultiplayerHost <- MultiplayerClient <- Multiplayer <- MultiplayerProofs
```

**BridgeWire** has the frames (kind, request ID, and the request the frame is
really about) and TCP connections: two bounded sequences of frames, each end open or closed,
a backlog of connections that nobody has accepted yet, resets.

**TcpLuaTransport** has `PollResults` in the order of the code: accept or turn away as
busy, receive and handle frames, flush; `Submit`, `Stop` and the two ways a client is
dropped, at once (`CloseClient`) and after a goodbye (`BeginClose`). `CompletePending` makes
results in *some* order, as iterating an `unordered_map` does; the model keeps them
as one result about a set of requests, and `Poll` picks from it.

**GameSession** allocates IDs as the code does (wrap past zero, skip pending ones) and
calls completions. Every request has a *tag* that no code can see: it is the identity
the properties speak about. `calls`, `outcome` and `answeredBy` record what
the callbacks saw.

**MgbaScript** is the Lua script, one frame of the emulator at a time: receive, run
up to its limit of operations, flush. `ran` records the order in which
requests reached game memory.

**Bridge** composes them. The worker's tick is a sequence of steps named by `pc`, because
the script, other clients and the network move between any two of them. It adds
the manager (who gets the results, when a new game is accepted, removal of a
disconnected one, port change, shutdown), `GameSession::Poll` one
result at a time with a completion that may disconnect the game in the middle, and
connections in `Foreign`, which belong to clients that send *anything*.

**FrameStream** is one direction of one connection at the level of bytes: `FrameWriter`, a
socket that takes and gives any number of bytes, `FrameDecoder`. Bytes are known
by their frame and place, so a mixed-up stream is visible.

**HomeBoxFile** has each step of `SaveHomeBoxFile` and `WriteFileAtomically`, failures and
crashes between them, damage at rest and the manual recovery of
`docs/home-box-format.md`. **DurableStore** is what it promises: a register whose save
takes effect at one moment or not at all.

**HomeBox** has the player, the observed memory, the behaviour's phases and saving. Requests run
in order some time after they were made: that is what Bridge shows (`RanInOrder`). A save is one
step with outcome saved or failed: that is what HomeBoxFile shows. The boxes still to be written are a set, because the code queues them in the order
of their slots and queues no more before all are done; `Front` is the first of them and `nextPiece` how far it is. `crossed` records the one case that the behaviour
cannot tell apart: a box was asked for while an earlier box read had no answer yet (section 6).

**GameMemory** has the checks of addresses, sizes and layouts as operators on a ROM's header. Where the code computes
in 64 bits or checks a product the sums are exact; a request's address is 32 bits wide (`AddressLimit`).

**GameConnection** is one game from the first read of its headers to its end. The connection is a record, and each function of
the code an operator from the record before to the record after (`Request`, `Observe`, `FollowMultiplayer`, `Disconnect`, ...), because
they call each other in the middle of their work: a refused request disconnects, a disconnect detaches. An update is three kinds of step: observe, one behaviour
of the copied list after another, one removal after another. `fate` records what each instance of a behaviour was told. **MCGameConnection** has the ROMs of the run.

**UpdateTimer** is the rule that decides when an update is due. It has a theorem and no run.

**AppData** is what outlives a run of the app, and the port: the import of the old data folder step by step, `settings.ini` (absent, damaged,
complete or with some keys), loading, changing and saving settings, the listener and the exported script. **SessionWorker** has both threads, with the condition
variable at the level of test, block, wake and time out; the worker's calls into the runtime are AppData's actions. The process may crash at any step and be started again.

**EnetLink** is ENet as seen by its users: connections with two ends that learn of a loss at different times,
messages ordered within a channel, unreliable state messages, slots that are used again. Every connection has a *number* that no
code can see. **MultiplayerHost** and **MultiplayerClient** are `MultiplayerBehaviour` in its two roles, each with its
game's memory as far as the behaviour uses it. An update is a start (the observer's read, writes that found no room before), the
events of `PollConnection` one by one, and an end, because the network and the other assistant move between them.
**Multiplayer** composes them, and adds connections in `Foreign`, whose owner sends any message on any channel. That a
game's ROM leaves its answer in memory until the next handshake overwrites it is an assumption about the ROM; the
assistant's code never clears it.

Some operators are marked *Mutant*: forms of a definition with one plausible
mistake, used by nothing. `PROJECT.json` (`mutants`) says for each property which
of them breaks it.

## 3. Runs

| Run | Shows | Bounds |
|---|---|---|
| `bridge_reconnect` | `TypeOK`; `AnswersMatch`: no callback gets another request's answer; `RanInOrder`: memory sees requests in order, each once; `OkMeansRan`: success is reported only for work done; `CompletedOnce`: each completion is called exactly once | two connections of the script, three requests over two IDs, so that they wrap, two outstanding, room for two operations in the script |
| `bridge_foreign` | `Inv`, the inductive invariant of section 4 | a client that sends anything, then the script; one request |
| `frame_stream` | `FramesArriveWhole`, `BytesCounted`, `FailsOnlyWhenFull`, `EventuallyDelivered` | three frames of two sizes, decoder limit two |
| `frame_stream_stop` | a violation of `CloseIsDecoded`: see section 5 | the same |
| `home_box_file` | `FileInv`: what each file holds at each step of a save; `ImplementsStore`, `BackupKept`, `DamagedKept` | six saves |
| `home_box` | `CapturedRight`: a session works with the boxes the game has; `NothingLost`: no box lost, doubled or torn; `SavedAfterGame`: the file changes only after the game has its boxes; all unless `crossed`, which becomes true here | two local boxes, one remote, two pieces, two screens, one swap, one connection, seven outstanding requests |
| `home_box_reconnect` | `NothingLost`; `OrderKept`: a new session does not overwrite the order the player made on the open screen; `EventuallySaved` | two local boxes, two pieces, one screen, two swaps, two connections, three outstanding requests |
| `multiplayer` | `PendingIsLive`: the pending handshake is the one of the connection its slot has now; `ConformingAccepted`: no order of channels makes the host reject a conforming client; `ProfilesKept`: a connected client's ROM gets every profile change | one slot, used by something foreign and then by a client; two versions of the profiles; room for two requests in each bridge |
| `multiplayer_live` | `EventuallyAnswered`: a client that waits for its answer, without a deadline, gets it or is disconnected | the same with one version and no state messages |
| `multiplayer_overtaken` | a violation of `HostNotRejected`: see section 5 | one connection |
| `session_worker` | `NoneSkipped`: accepted commands are handled in order, none is lost; `ShutdownComplete`; `SettingsKept`: the file keeps what the player chose, over restarts, failures and crashes, and a damaged one is not touched; `PortsAgree`: port shown, listened on, saved and exported; `ImportedWhole`: the old data folder's tree is taken over whole or not at all; `StopReturns`, `CommandsHandled` | queue of two, three commands, two ports, two runs of the app |
| `game_connection` | `RequestsAllowed`: every byte the app asks for is allowed, whatever the headers say; `RequestsWhenReady`: the code's own assertion; `DetachedOnce`: a behaviour that ran is detached once and does not run again; `OneOfAKind`; `BehavioursFollow`: the attached behaviours become the ones the game wants | one connection, 16 addresses, six outstanding requests, the ROMs of MCGameConnection; the player's changes are unbounded |

**Why the bounds are enough.** Two connections are what stale state needs:
one that leaves something and one that meets it. Three requests over two IDs, two of them outstanding, make IDs wrap and
skip one that is still pending. Two runs of the app are what a file needs to be left by one and found by the next. The ROMs of `game_connection` differ each in one way from a good one
(no handshake, other API or edition, a size of zero or too large, an address that wraps or is not allowed, a layout that does not fit). Every limit (operations, send queue, closing peers, outstanding
requests, unread frames, waiting commands) is reached in some run. A transfer of two
pieces is the shortest that can be torn; two local boxes the fewest with two writes waiting. For an earlier screen's box read to be
unanswered when the next session asks for a box, the pointer, state and box reads of both must be under way together: with two boxes this takes
room for seven requests (with six it does not happen in these bounds), and without the exception `crossed` TLC then refutes `CapturedRight`. A small queue,
in which reads and writes refuse each other room, and two connections are in `home_box_reconnect`. `bridge_foreign` has one request, because
its client already sends anything at any moment; what takes several is in `bridge_reconnect`, and `Inv` is proved for any number.
The proofs of section 4 do not have these bounds.

**Deadlock** is checked for the Bridge, SessionWorker and GameConnection runs (in the last two a step that changes nothing stands for the end). FrameStream, HomeBox and Multiplayer stop when
their frames, swaps and connections have been used up.

**Fairness** matters to the liveness properties only; the safety ones hold of `Spec` (a run that checks both uses `FairSpec`).
* FrameStream: the worker polls every few milliseconds and mGBA reads every frame,
  so bytes keep moving (weak fairness of each side's step; nothing forces frames to be queued or
  the connection to be stopped).
* HomeBox: the emulator runs, the worker ticks, a disconnected game is removed. Strong fairness of
  the successful save: a disk that is tried again every five seconds takes a save some day.
  Nothing forces the player. `EventuallySaved` needs, and states,
  a game that catches up with its requests again and again: the
  observer's reads come first in each tick and could take all the room.
* Multiplayer: both workers tick, the emulators run, the ROM answers; ENet delivers what is on its reliable channels and
  notices an end that has gone (strong fairness of each side's events, since they are handled only while it polls).
  Nothing makes anyone connect, leave or lose a connection. As for the Home Box, `EventuallyAnswered` is about games
  that catch up with their requests.
* SessionWorker: both threads are scheduled and `wait_for` times out; once the window is closed the main thread finishes `Stop`. Nothing
  makes the user close it, and nothing makes the app crash or start again.
* GameConnection: updates begin and end again and again, and between two of them the game has answered everything, again and again
  (the script runs what has arrived in every frame, and an update comes every six frames). If mGBA is persistently slower, the first reads of an update take all the room and
  later ones are never made, so `BehavioursFollow` needs this. It also says what it is about: a player who in the end leaves things as they are.

## 4. Proofs

All for every value of the constants that satisfies the named assumptions (sizes and limits
are natural numbers, not zero where the code has no use for zero; `Foreign` is a set of connections).

Every property of the passing runs that is an invariant or an action property is proved; `OrderKept` has a hypothesis (one opening of the screen). The rest is listed at the end of this section.

**BridgeProofs, completions**. `TypeCorrect`: each variable keeps its type, one lemma per group of actions. None of `CompletedOnce`, `NoLostRequest` and `NoStaleWork` is inductive: that a
completion is called once depends on no request having two results, which depends on
what the transport's table holds when a session starts, which depends on when the manager
listens. `Inv` adds those:
* `SessionInv`: IDs and tags of pending requests are distinct, a stopped session has none
  pending, completions have been called exactly for the others;
* `TableInv`: while a session runs, results are about its requests, which
  the transport no longer waits for, and no two results are about the same one;
* `ManagerInv`: the manager listens only from a moment when the transport was not
  connected, and nobody submits while it listens, so a new session finds the table empty.

`InvHolds` shows it for any number of connections, requests and IDs and
with foreign clients; `CompletesOnce`, `NothingLost`, `NothingStale` and `IdsDistinct` follow. The argument:
what the transport does to its table and its results is one of a few moves (`TransportCases`);
each keeps `Inv` (`TransportMoves`); delivery and
submission have a lemma each.

**BridgeProofs, requests on their way**. `AnswersAlwaysMatch`, `RunsInOrder` and `OkAfterRun` are about requests that have left the assistant, so `FlowInv` speaks about all places
where one may be. Going against the stream from the assistant's socket, what has arrived, the script's send queue, its operations, the frames on their way to it and the
writer carry requests with ever larger tags (`ChainInv`); steps move them along or drop them, a submit puts a larger tag at the far end. All that the current client's connection carries is in the
transport's table with its ID (`ClientInv`), so an answer found by ID is the answer to that request; a connection carries nothing before it is the client's (`FreshInv`); answers come after the work
(`EvidenceInv`); what has run has smaller tags than what the script's present connection has still to run (`RanInv`). The properties are about the shipped script; foreign clients are connected too, and may send what they like.

**FrameStreamProofs**. `StreamInv` numbers the bytes: there is a function `st` with `st[n]` bytes queued in front of frame n. For any sizes, limits, chunks and numbers of frames:
* `PlaceInv`: the i-th byte between the decoder's frames and the writer has the number `st[n] + i`, where n is the frame the decoder works on, and the writer goes on behind the last of them. So the byte that is taken for the k-th of frame n is the k-th
  of frame n (`FramesInv`), and the length is read from its own frame (`LengthInv`).
* Stop breaks the numbering, because the rest of the frame that was being sent is gone. It is claimed of bytes of other frames than Close only, and of a decoder that has handed out no byte of Close: these were sent before. What is wrong after that is the finding of section 5.
* `BytesInv`: frames, buffer and input are within the byte limit; the largest frame and a chunk fit into it (`StreamAssumption`, true of the code's limits). So the byte limit never cuts off a frame that could be completed, and an undisturbed decoder fails only when it is full (`OnlyFailsWhenFull`).
* `WriterInv`, `CountInv`: the writer has the last frames, and `m_QueuedBytes` is the difference of two places in the stream. `BytesCounted` sums up sizes with a recursive function; that the sum is this difference follows because the recursion has one solution only (`SumCounted`, by a smallest counterexample).

**HomeBoxFileProofs**. `FileInvHolds` proves `FileInv`: the types and `SaveInv`, what each file holds at each step of a save; with it,
`FilesImplementStore` shows that every step is a step of DurableStore or a stutter, and `BackupIsKept`
and `DamagedIsKept` are action properties; `TypeHolds` is the type invariant.

**HomeBoxProofs**. For any number of local and remote boxes, pieces, outstanding requests, screens, swaps and connections. `HomeBoxInv` has the types (`WireInv`, `StateInv`), what a session has in each of its
states (`PhaseInv`), what may be on its way (`FlightInv`: at most one piece, and a session's box reads run after every piece that an earlier session sent), what the game holds of each box while pieces of it arrive
(`ContentInv`), and what game, file and session hold between them (`KeptInv`). `CapturesRight` follows from FlightInv (what was read is what the game still has), `SavesAfterGame` from ContentInv (a save waits for the last
confirmation), `NothingIsLost` from KeptInv (a session's boxes are a rearrangement of all boxes, and a save completes it). The proof does not go through without `~crossed`: see section 6.
`OrderInv` is about the order write, up to the second opening of the screen: of the pointer's answers the ones that saw the screen open come together (`PtrInv`), so a session that has ended is the last one of its connection (`IdleInv`); before its write,
an order that was read as fresh is fresh still, because nothing on its way can change it (`Untouched`, `BusyInv`), and there is one write at most, which runs while the order is fresh (`WriteInv`). `FirstOrderIsKept` states what follows for every `MaxOpens`, and `OrderIsKept` is `OrderKept` with `MaxOpens <= 1`, the run's bound:
without it, it does not hold (section 6).

**SessionWorkerProofs**. `WorkerInv`: commands are in the worker's own batch only between the swap and the next wait (`QueueInv`); nothing is accepted from `CloseWorker` on and the last snapshot is the worker's last act (`ClosedInv`); the runtime
is started before anything can reach the bridge (`StartedInv`); settings that need no saving are the file's, and only a damaged file is not writable (`SettingInv`); a folder that is renamed into place was copied to the end (`ImportInv`).
`NoneIsSkipped`, `ShutdownIsComplete`, `PortsDoAgree`, `ImportIsWhole` (the tree; `settings.ini` is another matter, section 6), `TypeHolds` and the action property `SettingsAreKept` follow, for any queue length, any number of commands, ports and runs.

**MultiplayerProofs**. Four invariants, each inductive with the ones before it, for any number of slots, clients, connections and versions.
* That `m_PendingHandshake` never outlives its connection (`PendingStaysLive`) depends on which ends of a
  slot are there and on whose handshakes are under way: `LiveInv` adds that the handshakes in a slot are of the
  connection it has (`WireInv`), and that a peer state exists only from the event that announced its connection to the
  one that ended it, with no new connection in between (`SlotInv`).
* `TypeInv` (`TypeHolds`): the types, and that no queue of requests passes its limit.
* `OrderInv` says which messages of a conforming client may be under way given what the host knows of it and how far the client is: no gameplay before the host has the handshake and has answered it, at most one hello, no handshake
  before a hello that is under way or known. `ConformingIsAccepted` follows.
* `ProfileInv`: the last version on its way to a client's game (channel, `m_PendingPlayerProfiles`, bridge, memory, in this order) is the one the host sent last. `ProfilesAreKept` follows.

**GameConnectionProofs**. First what the checks of GameMemory guarantee to the code that relies on them: `AcceptedBytesAllowed` (every byte of an accepted request is in an allowed range, and
the address of none wraps), `MultiplayerFieldsInside` and `HomeBoxFieldsInside` (every field, table entry and box that is read or written at an offset the ROM gave is
inside the copied state). For every header and every limit; they need that a table's product is compared exactly (`EntryInTable`).

Then `GameInv`, for every set of ROMs, memory map and limit of requests. `GameConnectionAssumption` says that the fields of a header are unsigned and addresses 32 bits wide, and that writable memory can be read; nothing else is assumed of a ROM.
Because the operators take a connection to a connection, its parts are predicates on a connection, with a lemma per operator:
* `RequestInv`: what is under way is permitted for this ROM and passed ValidateMemoryRequest; nothing is under way on a connection that is over; a header is valid only if it has the handshake. It gives `RequestsAreAllowed` and `OnlyWhenReady`.
* `LifeInv`: attached behaviours are of different kinds and not told yet; one that has run is attached, and none is left on a connection that is over; multiplayer and Home Box are attached only to a supported ROM. It gives `DetachesOnce` and `OneOfEach`.
* `WeakInv`: an attached behaviour is the one CommonBehaviour's weak pointer knows, or is in the list of removals. This is why no second one is attached: when CommonBehaviour runs, first in the list, the removals of the last update are done
  (`KnowsBoth`), and what it or a later behaviour asks for in this update is done before its next one.
* `UpdateInv`: while the connection lasts, what is left of the copied list is attached, so nothing detached runs.

All that a request, refused or not, does to the behaviours is to leave them alone or to end the connection (`Ends`), which keeps the proofs of the observer and of the behaviours' updates short.

**UpdateTimer**, `UpdatesPaced`. "Drop extra elapsed time so a long pause does not cause too many updates", made exact: in a window of time that begins at any call, there are fewer updates than
its length allows plus three, for every interval and every pattern of stalls. Inductive: the kept time pays for the updates to come (`TimerInv`). Natural numbers stand for 64-bit nanoseconds of a steady clock.

**Only model-checked.** Liveness and the properties that need fairness (out of this prover's reach, as is ENABLED): `EventuallyDelivered`, `EventuallySaved`, `EventuallyAnswered`, `StopReturns`, `CommandsHandled`, `BehavioursFollow`.

## 5. Findings

`TcpLuaTransport::Stop` resets the writer so that `Close` is the next thing sent, also if the first queued
frame is partly sent. The peer then reads the bytes of `Close` as the rest of that
frame and never decodes a `Close` (run `frame_stream_stop`). `docs/bridge-protocol.md` says that both programs keep
the bytes a partial send did not write, and a test is named for the close frame's priority. The effect is small: the
script notices that the socket is closed.

The host answers a ROM handshake on channel 1 and sends profiles on channel 4 and state on channels 2 and 3 from its next
update on. ENet does not order channels against each other, as `docs/multiplayer-protocol.md` says when it explains the early
handshake. If the answer is late, or waits for room in the client's bridge, game data reaches a client that has not
finished the handshake, and it disconnects a host that kept the protocol (run `multiplayer_overtaken`). The same document
says that the host sends game data only to a peer that finished the ROM handshake; what the code knows is that the *host's*
part of it is finished.

## 6. Simplifications

* Frames are whole in Bridge; FrameStream shows how bytes become frames. Encoding of fields
  is not modelled: a frame is well formed or malformed.
* Address checks are *passes* or *fails* in Bridge; GameConnection has the real ones.
* HomeBox assumes that the ROM's headers have been read and are valid (GameConnection has that part). It leaves out `CommonBehaviour`'s
  confirmation write and the multiplayer reads: they only take room from other requests, which a
  smaller `MaxOutstanding` does too.
* A box read's answer does not say which box it is of: `OnRecieveMessage` takes any for the one that is waited for, although the request cleared the blob (`ObservedGameMemory.cpp:187`, `:224`). With at least two local boxes, answers that are late and a
  screen that is closed and opened again at once, a session can therefore capture the answer to the earlier session's read of another box. The attempt to prove `CapturedRight` found this; in the run `home_box` it happens. `CapturedRight`, `NothingLost` and `SavedAfterGame`
  except it by `crossed`, which is true from the moment when a box is asked for while an earlier box read has no answer.
* `NothingLost` excepts transfers that were cut off before their save, which the assistant reports. `OrderKept` is checked
  within one screen: after a fast close and reopen a late read can make the old
  order valid for a moment, and the new screen's first swap is overwritten (no box is lost).
* A crash ends the app, not the machine: neither file is synced, and what a
  file system keeps after power loss is stated nowhere in the repository.
* Multiplayer: game state and player state are one channel of which nothing is repaired; a layout has been found valid and an
  address parsed; profiles have versions; of a hello it matters whether it is well formed and matches. Timeouts
  may happen at any moment. A foreign peer has one message under way at a time, so that the host meets any order of them.
  Two slots at once are in the model but not in a run (too many states), so the host's refusal of a second client during a handshake is
  not reached by TLC; `PendingStaysLive` is proved for any number of slots.
* After a handshake was written, the host takes the answer from the next copy it looks at. If that copy is older than the write and the ROM
  left an earlier client's answer there, that one is sent. Whether it does is the ROM's affair and not in
  this repository: no property is claimed.
* GameConnection: one connection (the manager's next one starts from nothing). A result is handled when the game has answered, not at the next poll: nothing looks at it in between. A
  transport that refuses a request looks like a session without room. That an address command names the right connection is not modelled. What the two behaviours do is reduced to what touches
  the connection: a write, a request for removal, a disconnect. The update timer is left out: an update may come whenever none is under way.
* `RequestsWhenReady` is about ROMs whose addresses can be used. If the multiplayer pointer's own address is not readable, that read disconnects the game and the
  observer still asks for the Home Box pointer, against the assertion in `ReadRequest`; the session has stopped, so nothing is sent. Likewise `CommonBehaviour` goes on after a refused confirmation write
  and may attach a behaviour to a connection that is over, which is never run nor detached; it has done nothing by then but set its own fields, and `DetachedOnce` is about behaviours that ran.
* A ROM whose multiplayer layout is refused gets a behaviour that is attached and removed with every update; `BehavioursFollow` excepts it.
* A multiplayer write that is refused inside `PollConnection` would destroy the ENet host under the service loop. Only a ROM whose multiplayer state is not in writable memory
  gets there, and the Multiplayer modules assume that it is.
* AppData: of the settings, the bridge port and one other are told apart. Whether the original assistant left files, and which, is open. A torn copy of its settings has some of
  its keys or is damaged. `script` is the port of this run's last successful export. The three atomic writes (settings, script, boxes) are the one of HomeBoxFile.
* What the import does when it is cut off, as the model shows it: between the rename of the folder and the copy of the settings a crash leaves no settings or a torn file, and no later run completes
  them; an import that fails is not tried again, because the log and `EnsureDirectory` then create the data folder; old settings without an old data folder are not copied, because `is_directory`
  with an error code reports a missing folder as an error (`AppPaths.cpp:276-281`). `docs/installation.md` says only that the first run *can* copy, so none of this contradicts it.
* When `GameConnectionManager::Stop` throws, the manager's destructor calls it again and may still save the settings. `StopRuntime` leaves this second call out and takes the
  settings as not saved.
* Diagnostics, counters nobody reads, logging and wording are left out.

## 7. Not modelled, and the plan

Not planned:
* window and pages: drawing and input; what they exchange with the worker is in SessionWorker;
* text helpers and logging, the choice of folders, parsing of the command line: no state that another part depends on;
* structure layouts of the ROM (`GameData`): offsets and tables;
* system calls of `TcpSocket`: modelled by their outcomes in BridgeWire;
* the encoding of frames and of the compatibility hello field by field. A decoder that reverses an encoder byte by byte would be a copy of the code, and the unit tests cover it.

Vendored code is not looked at.

What is left is liveness for every size, which needs other means.
