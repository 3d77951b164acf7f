-------------------------- MODULE HomeBoxFileProofs --------------------------
(***************************************************************************)
(* The Home Box files implement a durable register, for any number of      *)
(* saves: the inductive invariant says what each file holds at every step  *)
(* of a save, and from it every step of the files is a step of the         *)
(* register or leaves it alone.                                            *)
(***************************************************************************)
EXTENDS HomeBoxFile, TLAPS

LEMMA ContentsFacts ==
  /\ 0 \in Contents /\ Absent \notin Contents /\ Damaged \notin Contents /\ Absent # Damaged
  /\ \A n \in Contents : n < MaxSaves => n + 1 \in Contents
BY FileAssumption DEF Contents

LEMMA InitFileInv == Init => FileInv
BY ContentsFacts DEF Init, FileInv, TypeOK, SaveInv, Files, Steps

\* Each action keeps the facts about the two files, the sibling and the step.
LEMMA NextFileInv == FileInv /\ [Next]_vars => FileInv'
<1> SUFFICES ASSUME FileInv, [Next]_vars PROVE FileInv'
  OBVIOUS
<1> USE ContentsFacts DEF FileInv, TypeOK, SaveInv, Files, Steps
<1>1. CASE LoadOfflineData  BY <1>1 DEF LoadOfflineData
<1>2. CASE BeginSave  BY <1>2 DEF BeginSave
<1>3. CASE Inspect  BY <1>3 DEF Inspect
<1>4. CASE WriteBackup  BY <1>4 DEF WriteBackup
<1>5. CASE ReplaceBackup  BY <1>5 DEF ReplaceBackup
<1>6. CASE WritePrimary  BY <1>6 DEF WritePrimary
<1>7. CASE ReplacePrimary  BY <1>7 DEF ReplacePrimary
<1>8. CASE Fail  BY <1>8 DEF Fail
<1>9. CASE Crash  BY <1>9 DEF Crash
<1>10. CASE Corrupt  BY <1>10 DEF Corrupt
<1>11. CASE UserRecovers  BY <1>11 DEF UserRecovers
<1>12. CASE UNCHANGED vars  BY <1>12 DEF vars
<1> QED
  BY <1>1, <1>2, <1>3, <1>4, <1>5, <1>6, <1>7, <1>8, <1>9, <1>10, <1>11, <1>12 DEF Next

\* At every step of a save the two files and the temporary sibling hold what that
\* step of SaveHomeBoxFile left there, and the boxes being replaced are in the
\* backup before boxes.dat is touched.
THEOREM FileInvHolds == Spec => []FileInv
<1>1. Init => FileInv  BY InitFileInv
<1>2. FileInv /\ [Next]_vars => FileInv'  BY NextFileInv
<1> QED
  BY <1>1, <1>2, PTL DEF Spec

LEMMA InitStore == Init => Store!StoreInit
BY ContentsFacts DEF Init, Store!StoreInit, Load, Saving

\* Only ReplacePrimary commits; every other step of a save leaves what a restarted
\* app would load.
LEMMA NextStore == FileInv /\ [Next]_vars => [Store!StoreNext]_(Store!storeVars)
<1> SUFFICES ASSUME FileInv, [Next]_vars PROVE Store!StoreNext \/ UNCHANGED <<Load, Saving>>
  BY DEF Store!storeVars
<1> USE ContentsFacts DEF FileInv, TypeOK, SaveInv, Files, Steps, Load, Saving
<1>1. CASE LoadOfflineData  BY <1>1 DEF LoadOfflineData
<1>2. CASE BeginSave
  <2>1. Store!Begin(data + 1)  BY <1>2 DEF BeginSave, Store!Begin
  <2>2. data + 1 \in Contents  BY <1>2 DEF BeginSave
  <2> QED  BY <2>1, <2>2 DEF Store!StoreNext
<1>3. CASE Inspect  BY <1>3 DEF Inspect
<1>4. CASE WriteBackup  BY <1>4 DEF WriteBackup
<1>5. CASE ReplaceBackup  BY <1>5 DEF ReplaceBackup
<1>6. CASE WritePrimary  BY <1>6 DEF WritePrimary
<1>7. CASE ReplacePrimary
  <2>1. Store!Commit  BY <1>7 DEF ReplacePrimary, Store!Commit
  <2> QED  BY <2>1 DEF Store!StoreNext
<1>8. CASE Fail
  <2>1. Store!Abort  BY <1>8 DEF Fail, Store!Abort
  <2> QED  BY <2>1 DEF Store!StoreNext
<1>9. CASE Crash
  <2>1. CASE step = "idle"  BY <1>9, <2>1 DEF Crash
  <2>2. CASE step # "idle"
    <3>1. Store!Abort  BY <1>9, <2>2 DEF Crash, Store!Abort
    <3> QED  BY <3>1 DEF Store!StoreNext
  <2> QED  BY <2>1, <2>2
<1>10. CASE Corrupt
  <2>1. Load' = Load \/ Load' = Damaged  BY <1>10 DEF Corrupt
  <2>2. Saving = Absent /\ Saving' = Absent  BY <1>10 DEF Corrupt
  <2>3. Load' = Damaged => Store!Damage  BY <2>2 DEF Store!Damage
  <2> QED  BY <2>1, <2>2, <2>3 DEF Store!StoreNext
<1>11. CASE UserRecovers
  <2>1. Store!Recover  BY <1>11 DEF UserRecovers, Store!Recover
  <2> QED  BY <2>1 DEF Store!StoreNext
<1>12. CASE UNCHANGED vars  BY <1>12 DEF vars
<1> QED
  BY <1>1, <1>2, <1>3, <1>4, <1>5, <1>6, <1>7, <1>8, <1>9, <1>10, <1>11, <1>12 DEF Next

\* Every step of a save, its failures, crashes and recoveries, keeps the files,
\* the loaded boxes and the progress of the save within their types: no path of
\* HomeBoxPersistence leads to a file that is none of absent, damaged or whole.
THEOREM TypeHolds == Spec => []TypeOK
<1>1. Spec => []FileInv  BY FileInvHolds
<1> QED  BY <1>1, PTL DEF FileInv

\* Saving and loading boxes.dat implements the durable register, whatever step
\* fails or is cut off by a crash.
THEOREM FilesImplementStore == Spec => ImplementsStore
<1>1. Init => Store!StoreInit  BY InitStore
<1>2. FileInv /\ [Next]_vars => [Store!StoreNext]_(Store!storeVars)  BY NextStore
<1>3. Spec => []FileInv  BY FileInvHolds
<1> QED
  BY <1>1, <1>2, <1>3, PTL DEF Spec, ImplementsStore, Store!StoreSpec

\* The boxes that a save replaces are in boxes.dat.bak when it replaces them.
THEOREM BackupIsKept == Spec => BackupKept
<1>1. FileInv /\ [Next]_vars
      => [(primary \in Contents /\ primary' \in Contents /\ primary' # primary) => backup = primary]_vars
  BY ContentsFacts
  DEF FileInv, TypeOK, SaveInv, Next, vars, LoadOfflineData, BeginSave, Inspect, WriteBackup, ReplaceBackup,
      WritePrimary, ReplacePrimary, Fail, Crash, Corrupt, UserRecovers
<1>2. Spec => []FileInv  BY FileInvHolds
<1> QED
  BY <1>1, <1>2, PTL DEF Spec, BackupKept

\* The app never replaces a damaged boxes.dat.
THEOREM DamagedIsKept == Spec => DamagedKept
<1>1. FileInv /\ [Next]_vars => [(primary = Damaged /\ primary' # Damaged) => ~loaded]_vars
  BY ContentsFacts
  DEF FileInv, TypeOK, SaveInv, Next, vars, LoadOfflineData, BeginSave, Inspect, WriteBackup, ReplaceBackup,
      WritePrimary, ReplacePrimary, Fail, Crash, Corrupt, UserRecovers
<1>2. Spec => []FileInv  BY FileInvHolds
<1> QED
  BY <1>1, <1>2, PTL DEF Spec, DamagedKept
=============================================================================
