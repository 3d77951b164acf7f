----------------------------- MODULE GameMemory -----------------------------
(***************************************************************************)
(* What the app accepts of the addresses, sizes and offsets a ROM gives:   *)
(* the memory a request may touch (GameMemoryTransport.cpp) and the        *)
(* layouts of the multiplayer state (MultiplayerBehaviour.cpp) and of the  *)
(* Home Box state (HomeBoxFile.cpp).  `h` is the ROM's header.  Addresses  *)
(* and 32-bit fields are numbers; where the code adds or multiplies them   *)
(* in 64 bits, or checks the product, the sums here are exact.             *)
(***************************************************************************)
EXTENDS Naturals

CONSTANTS
  AddressLimit,   \* 2^32
  PayloadLimit,   \* MaximumMemoryPayloadSize, MaximumObservedReadSize, MaxRomPayloadSize
  WordSize,       \* sizeof(u32)
  MaxPlayers,     \* 255
  MaxBoxes,       \* MaximumHomeBoxRecordCount
  MaxBoxData      \* MaximumHomeBoxRecordDataSize

ASSUME GameMemoryAssumption ==
  /\ AddressLimit \in Nat \ {0} /\ PayloadLimit \in Nat \ {0} /\ WordSize \in Nat \ {0}
  /\ MaxPlayers \in Nat /\ MaxBoxes \in Nat /\ MaxBoxData \in Nat

\* Mutant: the end of the range is computed in 32 bits.
RangeWraps(address, size, ranges) ==
  \E r \in ranges : address >= r[1] /\ (address + size) % AddressLimit <= r[2]

\* IsRangeAllowed; a range is a pair <<begin, end>>.
IsRangeAllowed(address, size, ranges) ==
  /\ address + size <= AddressLimit
  /\ \E r \in ranges : address >= r[1] /\ address + size <= r[2]

Bytes(ranges) == UNION {r[1]..(r[2] - 1) : r \in ranges}

\* A field or table at `offset` is inside a state of `limit` bytes.
SpanFits(offset, size, limit) == offset <= limit /\ size <= limit - offset

-----------------------------------------------------------------------------
\* ValidateMultiplayerLayout
ValidateMultiplayerLayout(h) ==
  /\ h.api /\ h.edition
  /\ h.netPlayerCount # 0 /\ h.netPlayerCount <= MaxPlayers
  /\ h.netHandshakeSize # 0 /\ h.netGameStateSize # 0 /\ h.netPlayerProfileSize # 0 /\ h.netPlayerStateSize # 0
  /\ h.netMultiplayerSize # 0 /\ h.netMultiplayerSize <= PayloadLimit
  /\ SpanFits(h.netRequestStateOffset, 1, h.netMultiplayerSize)
  /\ SpanFits(h.netCurrentStateOffset, 1, h.netMultiplayerSize)
  /\ SpanFits(h.netHandshakeOffset, h.netHandshakeSize, h.netMultiplayerSize)
  /\ SpanFits(h.netGameStateOffset, h.netGameStateSize, h.netMultiplayerSize)
  /\ SpanFits(h.netPlayerProfileOffset, h.netPlayerProfileSize * h.netPlayerCount, h.netMultiplayerSize)
  /\ SpanFits(h.netPlayerStateOffset, h.netPlayerStateSize * h.netPlayerCount, h.netMultiplayerSize)
  /\ h.netHandshakeStateOffset < h.netHandshakeSize /\ h.netHandshakePlayerIdOffset < h.netHandshakeSize

\* IsValidClientPlayerId
IsValidClientPlayerId(h, id) == id # 0 /\ id < h.netPlayerCount

\* Where SendPlayerState and the gameplay packets find the state of a player.
PlayerStateAt(h, id) == h.netPlayerStateOffset + h.netPlayerStateSize * id

-----------------------------------------------------------------------------
\* ValidateHomeBoxLayout
ValidateHomeBoxLayout(h) ==
  /\ h.homeBoxSize # 0 /\ h.homeBoxSize <= PayloadLimit
  /\ h.homeTotalBoxCount # 0 /\ h.homeLocalBoxCount <= h.homeTotalBoxCount /\ h.homeTotalBoxCount <= MaxBoxes
  /\ h.homeMinimalBoxSize # 0 /\ h.homeMinimalBoxSize <= MaxBoxData
  /\ h.homeDestMonSize # 0 /\ h.homeDestMonSize <= MaxBoxData
  /\ SpanFits(h.homeMinimalBoxOffset, h.homeMinimalBoxSize * h.homeTotalBoxCount, h.homeBoxSize)
  /\ SpanFits(h.homeDestMonOffset, WordSize, h.homeBoxSize)
  /\ SpanFits(h.homeRemoteIndexOrderOffset, h.homeTotalBoxCount, h.homeBoxSize)
  /\ SpanFits(h.homeTrainerIdOffset, WordSize, h.homeBoxSize)

\* GetMinimalBoxPtr and WriteMinimalBox: where the metadata of a box is.
MinimalBoxAt(h, box) == h.homeMinimalBoxOffset + h.homeMinimalBoxSize * box

\* The last entry of the order array, which the ROM sets to 255 when the screen
\* is opened and OnUpdate reads.
LastOrderAt(h) == h.homeRemoteIndexOrderOffset + h.homeTotalBoxCount - 1
=============================================================================
