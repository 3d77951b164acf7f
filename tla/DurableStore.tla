---------------------------- MODULE DurableStore ----------------------------
(***************************************************************************)
(* What a Home Box file promises its user: a register that survives        *)
(* crashes.  A save takes effect completely or leaves the old value;       *)
(* damage at rest is noticed, and never turned into some other value.      *)
(***************************************************************************)
CONSTANTS
  Values,      \* what can be stored
  Empty,       \* nothing has been stored
  NeedsHelp,   \* the files are damaged: the app refuses to load them
  Nothing      \* no save is under way

VARIABLES
  stored,   \* what a restarted app finds
  saving    \* the value being saved

storeVars == <<stored, saving>>

StoreInit ==
  /\ stored \in Values \cup {Empty, NeedsHelp}
  /\ saving = Nothing

Begin(v) == saving = Nothing /\ saving' = v /\ UNCHANGED stored

Commit == saving # Nothing /\ stored' = saving /\ saving' = Nothing

\* The save is refused or fails, or the app crashes.
Abort == saving # Nothing /\ saving' = Nothing /\ UNCHANGED stored

\* Damage at rest, and the user's recovery from a value saved earlier.
Damage == saving = Nothing /\ stored' = NeedsHelp /\ UNCHANGED saving
Recover == saving = Nothing /\ stored = NeedsHelp /\ stored' \in Values /\ UNCHANGED saving

StoreNext == (\E v \in Values : Begin(v)) \/ Commit \/ Abort \/ Damage \/ Recover

StoreSpec == StoreInit /\ [][StoreNext]_storeVars
=============================================================================
