--------------------------- MODULE GameConnection ---------------------------
(***************************************************************************)
(* One game after another, as the app sees it (GameConnection.cpp): it     *)
(* reads the ROM's headers and then, with every update, the pointers and   *)
(* states that the game offers (ObservedGameMemory.cpp); CommonBehaviour   *)
(* checks the ROM, confirms the connection and attaches or removes the     *)
(* multiplayer and Home Box behaviours as the game asks.                   *)
(*                                                                         *)
(* The bridge below runs requests in order and answers each once, or the   *)
(* connection is lost (module Bridge).  What the two behaviours do with    *)
(* the game is in modules Multiplayer and HomeBox; here an update of theirs*)
(* may ask for a write, ask to be removed, or disconnect.                  *)
(*                                                                         *)
(* A connection is a record, and what the code does with it in one call is *)
(* an operator from the record before to the record after.                 *)
(***************************************************************************)
EXTENDS Naturals, Sequences, SequencesExt, GameMemory

CONSTANTS
  Readable, Writable,  \* ReadableRanges, WritableRanges: pairs <<begin, end>>
  HeaderAddress,       \* c_GFHeaderAddress
  HeaderSize,          \* the size of either header
  Roms,                \* the ROMs that may be played
  MaxOutstanding       \* MaximumOutstandingMemoryRequests

Null == 0
Flags == {0, 1, 2}     \* none, host, client
Addresses == 0..(AddressLimit - 1)

\* The fields of the headers are unsigned, the addresses among them 32 bits wide.
IsRom(h) ==
  /\ h.handshake \in BOOLEAN /\ h.api \in BOOLEAN /\ h.edition \in BOOLEAN /\ h.roles \subseteq Flags
  /\ {h.rogueAssistantHeader, h.assistantState, h.multiplayerPtr, h.homeBoxPtr, h.mpState, h.hbState} \subseteq Addresses
  /\ {h.assistantConfirmOffset, h.assistantConfirmSize, h.netMultiplayerSize, h.homeBoxSize} \subseteq Nat

ASSUME GameConnectionAssumption ==
  /\ \A r \in Readable : r[1] \in Nat /\ r[2] \in Nat
  /\ Writable \subseteq Readable
  /\ HeaderAddress \in Addresses /\ HeaderSize \in Nat /\ MaxOutstanding \in Nat
  /\ \A h \in Roms : IsRom(h)

VARIABLES
  rom,          \* the ROM's headers; rom.mpState and rom.hbState are where the states are
  offered,      \* game memory: the pointers to the two states (0 is null) and the request flags
  game,         \* the GameConnection
  todo,         \* Update: behavioursToUpdate, those not yet updated
  updating      \* Update is past its timer

vars == <<rom, offered, game, todo, updating>>

NoBlob == 3
Unread == AddressLimit
Instances == {"common", "mp", "hb"} \X {1, 2}
Fates == {"none", "attached", "ran", "detached", "twice", "late"}
RequestKinds == {"gf", "rh", "mpPtr", "mpState", "hbPtr", "hbState", "confirm", "mpWrite", "hbWrite"}
Reads == {"gf", "rh", "mpPtr", "mpState", "hbPtr", "hbState"}

\* A new GameConnection with its session and its ObservedGameMemory.
NewGame ==
  [ state |-> "Awaiting",                    \* m_State
    sent |-> << >>,                          \* requests not answered: the session's m_Pending
    gf |-> FALSE, rh |-> FALSE,              \* the headers are valid
    mpPtr |-> Unread, hbPtr |-> Unread,      \* m_MultiplayerStatePtr, m_HomeBoxStatePtr
    mpBlob |-> NoBlob, hbBlob |-> FALSE,     \* the request flags in m_MultiplayerState; m_HomeBoxState is valid
    behaviours |-> << >>,                    \* m_Behaviours
    toRemove |-> << >>,                      \* m_BehavioursToRemove
    mpWeak |-> 0, hbWeak |-> 0,              \* CommonBehaviour's weak pointers
    role |-> 0,                              \* multiplayer: m_RequestFlags
    address |-> FALSE, attempted |-> FALSE,  \* m_ConnectionAddressRaw is set, m_HasAttemptedConnection
    fate |-> [b \in Instances |-> "none"],   \* history: what became of an instance
    unready |-> FALSE ]                      \* history: a request was made when not ready

Offers == [mp : {Null, rom.mpState}, hb : {Null, rom.hbState}, flags : rom.roles]

Init ==
  /\ rom \in Roms
  /\ offered \in Offers
  /\ game = NewGame
  /\ todo = << >> /\ updating = FALSE

Attached(g) == ToSet(g.behaviours)
Live(g) == ToSet(g.behaviours) \cup ToSet(g.toRemove) \cup ToSet(todo)

-----------------------------------------------------------------------------
(* Detaching, and the end of a connection. *)

\* What becomes of a behaviour that is told `times` times that it is detached.
Told(fate, times) == IF times = 0 THEN fate ELSE IF fate = "detached" \/ times > 1 THEN "twice" ELSE "detached"

Twice(s, b) == \E i, j \in DOMAIN s : i # j /\ s[i] = b /\ s[j] = b

\* Disconnect.  Its Stop completes what is pending: nobody waits for it any more.
Disconnect(g) ==
  IF g.state = "Disconnected" THEN g
  ELSE [g EXCEPT !.state = "Disconnected", !.behaviours = << >>, !.toRemove = << >>, !.sent = << >>,
                 !.fate = [b \in Instances |->
                             Told(@[b], IF Twice(g.behaviours, b) THEN 2 ELSE IF b \in Attached(g) THEN 1 ELSE 0)]]

\* RemoveBehaviourInternal
RemoveBehaviourInternal(g, b) ==
  IF b \in Attached(g) THEN [g EXCEPT !.behaviours = RemoveFirst(@, b), !.fate[b] = Told(@, 1)] ELSE g

RemoveBehaviour(g, b) == [g EXCEPT !.toRemove = Append(@, b)]

\* AddBehaviour of a new instance; its number is free.
AddBehaviour(g, kind) ==
  LET b == <<kind, IF <<kind, 1>> \in Live(g) THEN 2 ELSE 1>> IN
  [g EXCEPT !.behaviours = Append(@, b), !.fate[b] = "attached"]

-----------------------------------------------------------------------------
(* Requests. *)

\* ValidateMemoryRequest
ValidRequest(r) ==
  /\ r.size # 0 /\ r.size <= PayloadLimit
  /\ IsRangeAllowed(r.address, r.size, IF r.kind \in Reads THEN Readable ELSE Writable)

IsReady(g) == g.state = "Connected"

\* Mutant: the limit is off by one.
CanSubmitOneMore(g) == g.state # "Disconnected" /\ Len(g.sent) <= MaxOutstanding

CanSubmit(g) == g.state # "Disconnected" /\ Len(g.sent) < MaxOutstanding

\* ReadRequest, WriteRequest and GameSession::Submit: a request the session has
\* no room for is dropped; an invalid one fails at once, and a failure
\* disconnects.  Addresses are 32 bits wide.
Request(g, kind, address, size) ==
  LET r == [kind |-> kind, address |-> address % AddressLimit, size |-> size]
      asked == [g EXCEPT !.unready = @ \/ ~IsReady(g)] IN
  IF ~CanSubmit(g) THEN asked
  ELSE IF ValidRequest(r) THEN [asked EXCEPT !.sent = Append(@, r)]
  ELSE Disconnect(asked)

-----------------------------------------------------------------------------
(* ObservedGameMemory *)

IsMultiplayerStateValid(g) == g.mpPtr \notin {Unread, Null} /\ g.mpBlob # NoBlob
IsHomeBoxStateValid(g) == g.hbPtr \notin {Unread, Null} /\ g.hbBlob

\* The first header: its copy is valid from here on, but if it is not the
\* header of a supported game the connection ends.
OnHeader(g) == IF rom.handshake THEN [g EXCEPT !.gf = TRUE] ELSE Disconnect([g EXCEPT !.gf = TRUE])

\* OnMemoryResult and ObservedGameMemory::OnRecieveMessage for an Ok result.
OnResult(g, kind) ==
  CASE kind = "gf" -> OnHeader(g)
    [] kind = "rh" -> [g EXCEPT !.rh = TRUE]
    [] kind = "mpPtr" -> [g EXCEPT !.mpPtr = offered.mp]
    [] kind = "mpState" -> [g EXCEPT !.mpBlob = offered.flags]
    [] kind = "hbPtr" -> [g EXCEPT !.hbPtr = offered.hb]
    [] kind = "hbState" -> [g EXCEPT !.hbBlob = TRUE]
    [] OTHER -> g

SizeAllowed(size) == size # 0 /\ size <= PayloadLimit

\* ObservedGameMemory::Update, the Home Box part.
ObserveHomeBox(g) ==
  LET asked == Request(g, "hbPtr", rom.homeBoxPtr, 1) IN
  IF g.hbPtr \in {Unread, Null} THEN [asked EXCEPT !.hbBlob = FALSE]
  ELSE IF SizeAllowed(rom.homeBoxSize) THEN Request(asked, "hbState", g.hbPtr, rom.homeBoxSize)
  ELSE Disconnect(asked)

\* Mutant: no return after the disconnect.
ObserveStatesOn(g) ==
  LET asked == Request(g, "mpPtr", rom.multiplayerPtr, 1) IN
  IF g.mpPtr \in {Unread, Null} THEN ObserveHomeBox([asked EXCEPT !.mpBlob = NoBlob])
  ELSE IF SizeAllowed(rom.netMultiplayerSize)
  THEN ObserveHomeBox(Request(asked, "mpState", g.mpPtr, rom.netMultiplayerSize))
  ELSE ObserveHomeBox(Disconnect(asked))

\* ObservedGameMemory::Update once both headers are valid.
ObserveStates(g) ==
  LET asked == Request(g, "mpPtr", rom.multiplayerPtr, 1) IN
  IF g.mpPtr \in {Unread, Null} THEN ObserveHomeBox([asked EXCEPT !.mpBlob = NoBlob])
  ELSE IF SizeAllowed(rom.netMultiplayerSize)
  THEN ObserveHomeBox(Request(asked, "mpState", g.mpPtr, rom.netMultiplayerSize))
  ELSE Disconnect(asked)

\* ObservedGameMemory::Update
Observe(g) ==
  IF ~g.gf THEN Request(g, "gf", HeaderAddress, HeaderSize)
  ELSE IF ~g.rh THEN Request(g, "rh", rom.rogueAssistantHeader, HeaderSize)
  ELSE ObserveStates(g)

-----------------------------------------------------------------------------
(* The behaviours' OnUpdate: the connections that may result. *)

\* MultiplayerBehaviour::OnAttach
AttachMultiplayer(g) ==
  LET added == AddBehaviour(g, "mp") IN
  [added EXCEPT !.mpWeak = Last(added.behaviours)[2], !.role = IF ValidateMultiplayerLayout(rom) THEN g.mpBlob ELSE 0,
                !.address = FALSE, !.attempted = FALSE]

\* Mutant: the weak pointer is reset, the behaviour is not removed.
FollowMultiplayerLoosely(g) ==
  IF IsMultiplayerStateValid(g)
  THEN IF <<"mp", g.mpWeak>> \notin Live(g) /\ g.mpBlob # 0 THEN AttachMultiplayer(g) ELSE g
  ELSE [g EXCEPT !.mpWeak = 0]

\* CommonBehaviour::OnUpdate, the multiplayer part.  A weak pointer has expired
\* when no list holds the behaviour.
FollowMultiplayer(g) ==
  LET mp == <<"mp", g.mpWeak>> IN
  IF IsMultiplayerStateValid(g)
  THEN IF mp \notin Live(g) /\ g.mpBlob # 0 THEN AttachMultiplayer(g) ELSE g
  ELSE IF mp \in Live(g) THEN [RemoveBehaviour(g, mp) EXCEPT !.mpWeak = 0] ELSE g

\* CommonBehaviour::OnUpdate, the Home Box part.
FollowHomeBox(g) ==
  LET hb == <<"hb", g.hbWeak>>
      added == AddBehaviour(g, "hb") IN
  IF IsHomeBoxStateValid(g)
  THEN IF hb \notin Live(g) THEN [added EXCEPT !.hbWeak = Last(added.behaviours)[2]] ELSE g
  ELSE IF hb \in Live(g) THEN [RemoveBehaviour(g, hb) EXCEPT !.hbWeak = 0] ELSE g

\* CommonBehaviour::OnUpdate reads the flags at an offset the ROM gives.
FlagsOutside(g) ==
  /\ IsMultiplayerStateValid(g) /\ <<"mp", g.mpWeak>> \notin Live(g)
  /\ rom.netRequestStateOffset >= rom.netMultiplayerSize

ConfirmAllowed ==
  /\ rom.assistantConfirmSize # 0 /\ rom.assistantConfirmSize <= WordSize
  /\ rom.assistantState <= AddressLimit - 1 - rom.assistantConfirmOffset

\* CommonBehaviour::OnUpdate.  It goes on after a confirmation that was refused.
CommonUpdates(g) ==
  LET confirmed == Request(g, "confirm", rom.assistantState + rom.assistantConfirmOffset, rom.assistantConfirmSize) IN
  { IF ~(g.gf /\ g.rh) THEN g
    ELSE IF ~(rom.api /\ rom.edition /\ ConfirmAllowed) THEN Disconnect(g)
    ELSE IF FlagsOutside(confirmed) THEN Disconnect(confirmed)
    ELSE FollowHomeBox(FollowMultiplayer(confirmed)) }

\* MultiplayerBehaviour::OnUpdate, once it has tried to connect: it may have
\* something to write, and may ask for its removal more than once.
Multiplays(g, b) ==
  LET wrote == Request(g, "mpWrite", g.mpPtr, 1) IN
  {g, wrote, RemoveBehaviour(g, b), RemoveBehaviour(RemoveBehaviour(wrote, b), b)}

\* Mutant: the game's request is read only when the behaviour is attached.
MultiplayerUpdatesOnce(g, b) ==
  LET tried == [g EXCEPT !.attempted = TRUE] IN
  IF ~IsMultiplayerStateValid(g) THEN {g}
  ELSE IF ~ValidateMultiplayerLayout(rom) THEN {RemoveBehaviour(g, b)}
  ELSE IF ~g.attempted THEN IF g.address THEN {tried, RemoveBehaviour(tried, b)} ELSE {g}
  ELSE Multiplays(g, b)

\* MultiplayerBehaviour::OnUpdate
MultiplayerUpdates(g, b) ==
  LET tried == [g EXCEPT !.attempted = TRUE] IN
  IF ~IsMultiplayerStateValid(g) THEN {g}
  ELSE IF ~ValidateMultiplayerLayout(rom) THEN {RemoveBehaviour(g, b)}
  ELSE IF ~g.attempted THEN IF g.address THEN {tried, RemoveBehaviour(tried, b)} ELSE {g}
  ELSE IF g.role # g.mpBlob THEN {RemoveBehaviour(g, b)}
  ELSE Multiplays(g, b)

\* HomeBoxBehaviour::OnUpdate
HomeBoxUpdates(g) ==
  IF ~IsHomeBoxStateValid(g) THEN {g}
  ELSE IF ~ValidateHomeBoxLayout(rom) THEN {Disconnect(g)}
  ELSE {g, Request(g, "hbWrite", g.hbPtr, 1), Disconnect(g)}

OnUpdate(g, b) ==
  LET ran == [g EXCEPT !.fate[b] = IF @ = "detached" THEN "late" ELSE "ran"] IN
  CASE b[1] = "common" -> CommonUpdates(ran)
    [] b[1] = "mp" -> MultiplayerUpdates(ran, b)
    [] b[1] = "hb" -> HomeBoxUpdates(ran)

-----------------------------------------------------------------------------
(* The worker: GameConnection::Update, step by step. *)

\* UpdateConnections drops a connection that is over; what it knew goes with it.
Dropped(g) == [NewGame EXCEPT !.state = "Disconnected", !.fate = g.fate, !.unready = g.unready]
Settled(g) == IF g.state = "Disconnected" THEN Dropped(g) ELSE g

\* At the end of an update the last references to removed behaviours go.
Forget(g) ==
  LET gone == Instances \ Attached(g)
      mpGone == \A n \in {1, 2} : <<"mp", n>> \in gone
  IN
  [g EXCEPT !.fate = [b \in Instances |-> IF b \in gone /\ @[b] \in {"attached", "detached"} THEN "none" ELSE @[b]],
            !.mpWeak = IF <<"mp", @>> \in gone THEN 0 ELSE @,
            !.hbWeak = IF <<"hb", @>> \in gone THEN 0 ELSE @,
            !.role = IF mpGone THEN 0 ELSE @,
            !.address = @ /\ ~mpGone, !.attempted = @ /\ ~mpGone]

\* A new connection is accepted, the game observed.  (Updates that come before
\* the timer is due only poll: see Answer and Lose.)
UpdateBegin ==
  /\ ~updating /\ game.state # "Disconnected"
  /\ LET accepted == IF game.state = "Awaiting" THEN AddBehaviour([game EXCEPT !.state = "Connected"], "common")
                     ELSE game
         observed == IF CanSubmit(accepted) THEN Observe(accepted) ELSE accepted
     IN
     game' = observed /\ todo' = observed.behaviours /\ updating' = TRUE
  /\ UNCHANGED <<rom, offered>>

\* Mutant: the loop does not look at the connection.
MayRunAfterwards(g, b) == b \notin ToSet(g.toRemove)

MayRun(g, b) == g.state # "Disconnected" /\ b \notin ToSet(g.toRemove)

\* The next behaviour of the copied list.
UpdateBehaviour ==
  /\ updating /\ todo # << >>
  /\ todo' = Tail(todo)
  /\ IF MayRun(game, Head(todo)) THEN game' \in OnUpdate(game, Head(todo)) ELSE UNCHANGED game
  /\ UNCHANGED <<rom, offered, updating>>

\* A behaviour that is to be removed goes.
UpdateRemove ==
  /\ updating /\ todo = << >> /\ game.toRemove # << >>
  /\ game' = [RemoveBehaviourInternal(game, Head(game.toRemove)) EXCEPT !.toRemove = Tail(@)]
  /\ UNCHANGED <<rom, offered, todo, updating>>

UpdateEnd ==
  /\ updating /\ todo = << >> /\ game.toRemove = << >>
  /\ game' = Settled(Forget(game))
  /\ updating' = FALSE
  /\ UNCHANGED <<rom, offered, todo>>

\* GameConnectionManager::HandleCommand: an address for this connection's
\* multiplayer behaviour.
ProvideAddress ==
  /\ ~updating
  /\ \E n \in {1, 2} : <<"mp", n>> \in Attached(game)
  /\ ~game.attempted
  /\ game' = [game EXCEPT !.address = TRUE]
  /\ UNCHANGED <<rom, offered, todo, updating>>

\* The poll finds the transport lost, or DisconnectConnections closes the game:
\* another port was chosen, or the app ends.
Lose ==
  /\ ~updating /\ game.state # "Disconnected"
  /\ game' = Dropped(Disconnect(game))
  /\ UNCHANGED <<rom, offered, todo, updating>>

-----------------------------------------------------------------------------
(* The game and the bridge. *)

\* The oldest request is run and its result polled, or it fails.  The result
\* waits for the next poll, but nothing looks at what it changes before that;
\* what the game does during an update counts as done after it.
Answer ==
  /\ ~updating /\ game.sent # << >>
  /\ LET answered == [game EXCEPT !.sent = Tail(@)] IN
     \/ game' = Settled(OnResult(answered, Head(game.sent).kind))
     \/ game' = Dropped(Disconnect(answered))
  /\ UNCHANGED <<rom, offered, todo, updating>>

\* The player opens or leaves multiplayer or Extended Storage, or asks for
\* another role.
Offer ==
  /\ ~updating
  /\ \/ \E ptr \in {Null, rom.mpState} \ {offered.mp} : offered' = [offered EXCEPT !.mp = ptr]
     \/ \E ptr \in {Null, rom.hbState} \ {offered.hb} : offered' = [offered EXCEPT !.hb = ptr]
     \/ \E flags \in rom.roles \ {offered.flags} : offered' = [offered EXCEPT !.flags = flags]
  /\ UNCHANGED <<rom, game, todo, updating>>

Worker == UpdateBegin \/ UpdateBehaviour \/ UpdateRemove \/ UpdateEnd
Environment == ProvideAddress \/ Lose \/ Answer \/ Offer
\* No game is left to connect.
Terminated == ~updating /\ game.state = "Disconnected" /\ UNCHANGED vars

Next == Worker \/ Environment \/ Terminated

Spec == Init /\ [][Next]_vars

\* Updates begin and end again and again, and mGBA keeps up with them: its script
\* runs what has arrived in every frame, and an update comes every six frames.
Fairness ==
  /\ []<>(updating \/ game.state = "Disconnected")
  /\ []<>(~updating /\ game.sent = << >>)

FairSpec == Spec /\ Fairness

-----------------------------------------------------------------------------
(* Properties *)

TypeOK ==
  /\ rom \in Roms
  /\ updating \in BOOLEAN
  /\ todo \in Seq(Instances)
  /\ game.state \in {"Awaiting", "Connected", "Disconnected"}
  /\ game.sent \in Seq([kind : RequestKinds, address : 0..(AddressLimit - 1), size : 0..PayloadLimit])
  /\ Len(game.sent) <= MaxOutstanding
  /\ game.mpPtr \in 0..Unread /\ game.hbPtr \in 0..Unread
  /\ game.mpBlob \in Flags \cup {NoBlob} /\ game.hbBlob \in BOOLEAN
  /\ game.behaviours \in Seq(Instances) /\ game.toRemove \in Seq(Instances)
  /\ game.fate \in [Instances -> Fates]
  /\ game.role \in Flags

\* Whatever a ROM's headers say, the app follows no pointer of a header that
\* lacks the handshake, writes nothing into a game it does not support, and
\* every byte it asks for is in memory it may read or write: no sum of a pointer,
\* an offset and a size goes round the end of the address space.
RequestsAllowed ==
  \A i \in DOMAIN game.sent :
    LET r == game.sent[i] IN
    /\ r.kind # "gf" => rom.handshake
    /\ r.kind \notin Reads => rom.api /\ rom.edition
    /\ r.kind = "confirm" => r.address = rom.assistantState + rom.assistantConfirmOffset /\ r.size <= WordSize
    /\ \A k \in 0..(r.size - 1) :
         (r.address + k) % AddressLimit \in Bytes(IF r.kind \in Reads THEN Readable ELSE Writable)

\* The addresses the ROM gives can be used: its pointers read, its states and
\* its confirmation field written.
AddressesUsable ==
  /\ \A a \in {rom.multiplayerPtr, rom.homeBoxPtr} : IsRangeAllowed(a, 1, Readable)
  /\ rom.mpState # Null => IsRangeAllowed(rom.mpState, rom.netMultiplayerSize, Writable)
  /\ rom.hbState # Null => IsRangeAllowed(rom.hbState, rom.homeBoxSize, Writable)
  /\ IsRangeAllowed((rom.assistantState + rom.assistantConfirmOffset) % AddressLimit, rom.assistantConfirmSize, Writable)

\* The assertion in ReadRequest and WriteRequest, "Attempting to write data, but
\* not ready": a call that disconnects the game asks nothing of it afterwards.
\* The code keeps to it unless an address in the ROM itself is refused.
RequestsWhenReady == game.unready => ~AddressesUsable

\* Every behaviour that has run is told once that it is detached, however its
\* removal, a second request for it and a disconnect in the middle of an update
\* meet, and does not run after that.  (A Home Box behaviour saves when it is
\* detached, a multiplayer behaviour closes its host.)
DetachedOnce ==
  /\ \A b \in Instances : game.fate[b] \notin {"twice", "late"}
  /\ ~updating => \A b \in Instances : game.fate[b] = "ran" => b \in Attached(game)

\* A game never has two multiplayer or two Home Box behaviours, which would both
\* move its boxes or open the same port.
OneOfAKind == \A i, j \in DOMAIN game.behaviours : i # j => game.behaviours[i][1] # game.behaviours[j][1]

HasKind(kind) == \E b \in Attached(game) : b[1] = kind
\* The attached behaviours are the ones the game wants, and multiplayer that has
\* tried to connect did so in the role the game asks for.
InStep ==
  /\ HasKind("hb") <=> offered.hb # Null
  /\ HasKind("mp") => offered.mp # Null /\ (game.attempted => game.role = offered.flags)
  /\ offered.mp # Null /\ offered.flags # 0 => HasKind("mp")

\* The behaviours follow the game: once the player leaves things as they are,
\* a behaviour whose screen was closed goes away, the ones that are wanted come,
\* and multiplayer leaves a role that the game gave up, also if that was before
\* the player entered an address.  They may fail later, and are then attached
\* again; a connection that ends, or has a bad layout, is not meant.
BehavioursFollow ==
  <>[][UNCHANGED offered]_vars => []<>(InStep \/ game.state = "Disconnected" \/ ~ValidateMultiplayerLayout(rom))
=============================================================================
