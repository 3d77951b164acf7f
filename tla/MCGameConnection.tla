-------------------------- MODULE MCGameConnection --------------------------
(***************************************************************************)
(* Module GameConnection in an address space of 16 bytes: work RAM from 2  *)
(* to 6, ROM from 8 to 13.                                                 *)
(***************************************************************************)
EXTENDS GameConnection

MCWritable == {<<2, 7>>}
MCReadable == {<<2, 7>>, <<8, 14>>}

\* A ROM whose player opens and leaves both screens.
GoodRom ==
  [ handshake |-> TRUE, rogueAssistantHeader |-> 10, api |-> TRUE, edition |-> TRUE,
    assistantState |-> 2, assistantConfirmOffset |-> 1, assistantConfirmSize |-> 1,
    multiplayerPtr |-> 8, mpState |-> 4, netMultiplayerSize |-> 1, netRequestStateOffset |-> 0,
    netCurrentStateOffset |-> 0, netHandshakeOffset |-> 0, netHandshakeSize |-> 1, netHandshakeStateOffset |-> 0,
    netHandshakePlayerIdOffset |-> 0, netGameStateOffset |-> 0, netGameStateSize |-> 1, netPlayerCount |-> 1,
    netPlayerProfileOffset |-> 0, netPlayerProfileSize |-> 1, netPlayerStateOffset |-> 0, netPlayerStateSize |-> 1,
    homeBoxPtr |-> 9, hbState |-> 5, homeBoxSize |-> 2, homeLocalBoxCount |-> 1, homeTotalBoxCount |-> 2,
    homeMinimalBoxOffset |-> 0, homeMinimalBoxSize |-> 1, homeDestMonOffset |-> 0, homeDestMonSize |-> 1,
    homeRemoteIndexOrderOffset |-> 0, homeTrainerIdOffset |-> 0,
    roles |-> {1} ]

\* Players who only play with others, and who only use Extended Storage.
MultiplayerRom == [GoodRom EXCEPT !.hbState = Null]
HomeBoxRom == [GoodRom EXCEPT !.mpState = Null]

\* The good ROM, one whose player also asks for another role, and ROMs that are
\* wrong in one place: headers that are not the app's, or cannot be read;
\* confirmation fields that are empty, too long, in no memory, or beyond the end
\* of the address space; pointers, sizes and offsets out of range; states in ROM.
MCRoms ==
  { GoodRom,
    [MultiplayerRom EXCEPT !.roles = {0, 1, 2}],
    [GoodRom EXCEPT !.handshake = FALSE],
    [GoodRom EXCEPT !.rogueAssistantHeader = 13],
    [GoodRom EXCEPT !.api = FALSE],
    [GoodRom EXCEPT !.edition = FALSE],
    [GoodRom EXCEPT !.assistantConfirmSize = 0],
    [GoodRom EXCEPT !.assistantConfirmSize = 3],
    [GoodRom EXCEPT !.assistantState = 15, !.assistantConfirmOffset = 4],
    [GoodRom EXCEPT !.assistantState = 15, !.assistantConfirmOffset = 0],
    [GoodRom EXCEPT !.multiplayerPtr = 15],
    [GoodRom EXCEPT !.homeBoxPtr = 15],
    [MultiplayerRom EXCEPT !.netMultiplayerSize = 4, !.mpState = 2],
    [MultiplayerRom EXCEPT !.netRequestStateOffset = 1],
    [MultiplayerRom EXCEPT !.netPlayerCount = 2],
    [MultiplayerRom EXCEPT !.mpState = 12],
    [HomeBoxRom EXCEPT !.homeBoxSize = 0],
    [HomeBoxRom EXCEPT !.homeTrainerIdOffset = 1],
    [HomeBoxRom EXCEPT !.hbState = 12] }
=============================================================================
