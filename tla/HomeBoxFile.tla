----------------------------- MODULE HomeBoxFile -----------------------------
(***************************************************************************)
(* Saving and loading boxes.dat (HomeBoxFile.cpp, FileSystem.cpp), with    *)
(* crashes of the app and failing file operations at every step, and files *)
(* damaged at rest.  A file is absent, damaged, or holds what one save     *)
(* wrote; how records become bytes and how damage is recognised (markers,  *)
(* sizes, checksums) is left out.                                          *)
(***************************************************************************)
EXTENDS Naturals

CONSTANTS
  MaxSaves,   \* bound: saves in one behaviour
  Absent,     \* no such file
  Damaged     \* a file that DecodeHomeBox rejects

ASSUME FileAssumption == MaxSaves \in Nat /\ Absent \notin Nat /\ Damaged \notin Nat /\ Absent # Damaged

\* A save is known by its number; 0 is what an earlier version of the app left.
Contents == 0..MaxSaves
Files == Contents \cup {Absent, Damaged}

VARIABLES
  primary,    \* boxes.dat
  backup,     \* boxes.dat.bak
  temporary,  \* the temporary sibling WriteFileAtomically is working on
  loaded,     \* has the app loaded the boxes since it started?
  step,       \* where SaveHomeBoxFile is
  data,       \* the save under way, or the last one
  previous    \* SaveHomeBoxFile: the old contents of boxes.dat

vars == <<primary, backup, temporary, loaded, step, data, previous>>

Steps == {"idle", "inspect", "backupTemporary", "backupReplace", "primaryTemporary", "primaryReplace"}

TypeOK ==
  /\ primary \in Files /\ backup \in Files
  /\ temporary \in Contents \cup {Absent}
  /\ loaded \in BOOLEAN
  /\ step \in Steps
  /\ data \in Contents
  /\ previous \in Contents

Init ==
  /\ primary \in {0, Absent} /\ backup \in {0, Absent}
  /\ temporary = Absent
  /\ loaded = FALSE
  /\ step = "idle"
  /\ data = 0
  /\ previous = 0

-----------------------------------------------------------------------------
\* LoadHomeBoxFile as its caller LoadOfflineData takes it: the boxes, nothing
\* yet, or a state that needs the user.  A valid backup beside a damaged
\* boxes.dat is not used.
Load ==
  IF primary \in Contents THEN primary
  ELSE IF primary = Absent /\ backup # Damaged THEN backup
  ELSE Damaged

\* A game whose boxes cannot be loaded is disconnected before any transfer.
LoadOfflineData ==
  /\ ~loaded /\ Load # Damaged
  /\ loaded' = TRUE
  /\ UNCHANGED <<primary, backup, temporary, step, data, previous>>

-----------------------------------------------------------------------------
\* SaveHomeBoxFile starts: the records are encoded.
BeginSave ==
  /\ loaded /\ step = "idle" /\ data < MaxSaves
  /\ data' = data + 1
  /\ step' = "inspect"
  /\ UNCHANGED <<primary, backup, temporary, loaded, previous>>

\* Mutant: a damaged boxes.dat counts as a missing one.
InspectForgiving ==
  /\ step = "inspect"
  /\ \/ primary \in Contents /\ step' = "backupTemporary" /\ previous' = primary
     \/ primary \notin Contents /\ step' = "primaryTemporary" /\ UNCHANGED previous
  /\ UNCHANGED <<primary, backup, temporary, loaded, data>>

\* Mutant: no backup is made.
InspectOnly ==
  /\ step = "inspect" /\ primary # Damaged
  /\ step' = "primaryTemporary"
  /\ UNCHANGED <<primary, backup, temporary, loaded, data, previous>>

\* An existing boxes.dat must be readable and valid; its bytes are kept.
Inspect ==
  /\ step = "inspect"
  /\ \/ primary \in Contents /\ step' = "backupTemporary" /\ previous' = primary
     \/ primary = Absent /\ step' = "primaryTemporary" /\ UNCHANGED previous
  /\ UNCHANGED <<primary, backup, temporary, loaded, data>>

\* Mutant: the backup gets the new boxes.
WriteBackupOfNew ==
  /\ step = "backupTemporary"
  /\ temporary' = data
  /\ step' = "backupReplace"
  /\ UNCHANGED <<primary, backup, loaded, data, previous>>

\* WriteFileAtomically: write a new sibling, then rename it over the target.
WriteBackup ==
  /\ step = "backupTemporary"
  /\ temporary' = previous
  /\ step' = "backupReplace"
  /\ UNCHANGED <<primary, backup, loaded, data, previous>>

ReplaceBackup ==
  /\ step = "backupReplace"
  /\ backup' = temporary /\ temporary' = Absent
  /\ step' = "primaryTemporary"
  /\ UNCHANGED <<primary, loaded, data, previous>>

\* Mutant: boxes.dat is written in place, so that it is incomplete for a while.
WriteInPlace ==
  /\ step = "primaryTemporary"
  /\ primary' = Damaged /\ temporary' = data
  /\ step' = "primaryReplace"
  /\ UNCHANGED <<backup, loaded, data, previous>>

WritePrimary ==
  /\ step = "primaryTemporary"
  /\ temporary' = data
  /\ step' = "primaryReplace"
  /\ UNCHANGED <<primary, backup, loaded, data, previous>>

ReplacePrimary ==
  /\ step = "primaryReplace"
  /\ primary' = temporary /\ temporary' = Absent
  /\ step' = "idle"
  /\ UNCHANGED <<backup, loaded, data, previous>>

\* Any of these steps may fail (a damaged boxes.dat always fails "inspect"),
\* which ends the save and removes the sibling.
Fail ==
  /\ step # "idle"
  /\ step' = "idle" /\ temporary' = Absent
  /\ UNCHANGED <<primary, backup, loaded, data, previous>>

\* A crash leaves the sibling behind under a name that is never used again.
Crash ==
  /\ loaded
  /\ loaded' = FALSE /\ step' = "idle" /\ temporary' = Absent
  /\ UNCHANGED <<primary, backup, data, previous>>

-----------------------------------------------------------------------------
\* A file at rest is damaged by something other than the app.
Corrupt ==
  /\ step = "idle"
  /\ \/ primary \in Contents /\ primary' = Damaged /\ UNCHANGED backup
     \/ backup \in Contents /\ backup' = Damaged /\ UNCHANGED primary
  /\ UNCHANGED <<temporary, loaded, step, data, previous>>

\* The recovery that docs/home-box-format.md describes, with the app closed.
UserRecovers ==
  /\ ~loaded /\ primary = Damaged /\ backup \in Contents
  /\ primary' = backup
  /\ UNCHANGED <<backup, temporary, loaded, step, data, previous>>

Next ==
  \/ LoadOfflineData
  \/ BeginSave \/ Inspect
  \/ WriteBackup \/ ReplaceBackup
  \/ WritePrimary \/ ReplacePrimary
  \/ Fail \/ Crash
  \/ Corrupt \/ UserRecovers

Spec == Init /\ [][Next]_vars

-----------------------------------------------------------------------------
(* Properties *)

\* A save may be cut off at any step: where it stands determines what each file
\* and the sibling hold (SaveHomeBoxFile, WriteFileAtomically).
SaveInv ==
  /\ step # "idle" => loaded
  /\ step \in {"backupTemporary", "backupReplace"} => primary \in Contents /\ previous = primary
  /\ step = "backupReplace" => temporary = previous
  /\ step \in {"primaryTemporary", "primaryReplace"} => primary = Absent \/ (primary \in Contents /\ backup = primary)
  /\ step = "primaryReplace" => temporary = data

\* Types and SaveInv: the inductive invariant that the refinement rests on.
FileInv == TypeOK /\ SaveInv

\* The files implement a durable register: whatever step fails or is cut off by
\* a crash, a restarted app loads the boxes of the last completed save or, once
\* boxes.dat has been replaced, the new ones, and never a mixture or an older save
\* (SaveHomeBoxFile, LoadHomeBoxFile).
Saving == IF step = "idle" THEN Absent ELSE data

Store == INSTANCE DurableStore WITH
  Values <- Contents, Empty <- Absent, NeedsHelp <- Damaged, Nothing <- Absent,
  stored <- Load, saving <- Saving

ImplementsStore == Store!StoreSpec

\* When a save replaces the boxes in boxes.dat, boxes.dat.bak holds the replaced
\* ones, although both files are written by steps that can fail on their own
\* (SaveHomeBoxFile's retained backup).
BackupKept ==
  [][(primary \in Contents /\ primary' \in Contents /\ primary' # primary) => backup = primary]_vars

\* A damaged boxes.dat is only ever replaced by the user with the app closed, even
\* if the damage happened after the app had loaded the boxes and between two
\* saves ("refusing to replace an invalid Home Box primary").
DamagedKept == [][(primary = Damaged /\ primary' # Damaged) => ~loaded]_vars
=============================================================================
